------------------------------ MODULE MCReactor ------------------------------
(* Two dispatches and three names to bind, one of them not in the registry. *)
(* The dispatches differ in the event, in the window the server waits and   *)
(* in its clock: as far ahead as is still fresh, right, and too far ahead.  *)
EXTENDS Reactor

CONSTANTS n1, n2

NoncesMC == {n1, n2}
NamesMC == {"token.pre_issue", "login.post_auth", "authz.check"}

Login == [event |-> "login.post_auth", ours |-> TRUE, ahead |-> Skew, timeout |-> 1]

PreIssue == [Login EXCEPT !.event = "token.pre_issue", !.ahead = 0]

TemplatesMC ==
  [n \in NoncesMC |->
     IF n = n1
     THEN {Login, PreIssue, [Login EXCEPT !.ahead = Skew + 1, !.timeout = 3], [Login EXCEPT !.ours = FALSE]}
     ELSE {[PreIssue EXCEPT !.event = "user.pre_create"]}]

Allow == [kind |-> "allow", patch |-> "none", mfa |-> FALSE]

AnswersMC ==
  { Allow,
    [Allow EXCEPT !.mfa = TRUE],
    [Allow EXCEPT !.kind = "deny"],
    [Allow EXCEPT !.kind = "mutate"],
    [Allow EXCEPT !.kind = "mutate", !.patch = "admitted"] }
(* The second event is a plain one, let pass when it is handled at all.     *)
PlainSecond == said[n2] \subseteq {Allow}
=============================================================================
