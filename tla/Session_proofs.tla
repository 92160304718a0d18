----------------------------- MODULE Session_proofs -----------------------------
(***************************************************************************)
(* Proofs about the session of one client, for any number of threads,      *)
(* principals, tenants and calls.                                          *)
(***************************************************************************)
EXTENDS Session, TLAPS

(* A record of what a decision needs when it is used: a principal to adopt *)
(* is a principal, a decision to put is a decision.                        *)
Loaded ==
  \A t \in Threads :
    /\ op[t].user => op[t].as \in Principals
    /\ pc[t] = "deviceWire" => ~op[t].user
    /\ pc[t] \in {"scope", "adopt", "resolve"} => op[t].as \in Principals
    /\ pc[t] = "put" => op[t].decision \in Decisions

CheckPoints == {"lookup", "build", "bearer", "wire", "judge", "put"}
RefreshPoints == {"refresh", "refreshWait", "refreshBuild", "refreshWire",
                  "refreshMark", "refreshPublish", "refreshClear"}

InCheck(t) == pc[t] \in CheckPoints \/ (pc[t] \in RefreshPoints /\ op[t].checking)
Alone(t) == InCheck(t) /\ op[t].alone

(* What a check has read so far is what still holds. *)
Read(t) ==
  /\ op[t].key = acting
  /\ pc[t] \in {"bearer", "wire"} => op[t].header = acting
  /\ pc[t] = "wire" => op[t].bearer = device
  /\ pc[t] = "put" => op[t].decision.by = Effective /\ op[t].decision.for = acting

(* No identity change is under way while a check still counts as alone,    *)
(* and nothing it has read is stale.                                       *)
Undisturbed == \A t \in Threads : Alone(t) => ChangingIdentity = {} /\ Read(t)

(* The points of a call that has cleared the memo already. *)
Cleared == {"login", "loginWire", "scope", "adopt", "resolve", "gate",
            "logout", "logoutWire", "logoutMark", "logoutReset"}

AloneEntry(k) == memo[k] # None /\ memo[k].alone

ClearedHoldsNone ==
  (\E t \in Threads : pc[t] \in Cleared) => \A k \in Acting : ~AloneEntry(k)

EntriesAreRight ==
  \A k \in Acting : AloneEntry(k) =>
    /\ memo[k].for = k
    /\ memo[k].by = Effective \/ \E t \in Threads : pc[t] = "deviceClear"

IInv ==
  /\ TypeOK
  /\ Loaded
  /\ Undisturbed
  /\ ClearedHoldsNone
  /\ EntriesAreRight

-------------------------------------------------------------------------------
(* A call's record keeps its type whichever call writes it. *)
LEMMA FreshIsOp == Fresh \in Ops
BY GadgetAssumption DEF Fresh, Ops, Acting, Kinds

(* A change of identity marks records without spoiling them. *)
LEMMA OverlappedIsOp ==
  ASSUME NEW t \in Threads, op \in [Threads -> Ops], NEW o \in Ops
  PROVE  /\ [u \in Threads |-> IF u = t THEN o ELSE [op[u] EXCEPT !.alone = FALSE]]
              \in [Threads -> Ops]
         /\ [u \in Threads |-> [op[u] EXCEPT !.alone = FALSE]] \in [Threads -> Ops]
<1>1. \A u \in Threads : [op[u] EXCEPT !.alone = FALSE] \in Ops
  BY DEF Ops
<1> QED
  BY <1>1

(* The record of a call that asks for an acting tenant, or changes who the *)
(* client is.                                                              *)
LEMMA AskedIsOp ==
  /\ \A tenant \in Tenants : [Fresh EXCEPT !.key = tenant] \in Ops
  /\ [Fresh EXCEPT !.alone = ChangingIdentity = {}] \in Ops
<1>1. \A tenant \in Tenants : [Fresh EXCEPT !.key = tenant] \in Ops
  BY FreshIsOp DEF Ops, Acting
<1>2. [Fresh EXCEPT !.alone = ChangingIdentity = {}] \in Ops
  BY FreshIsOp DEF Ops
<1> QED
  BY <1>1, <1>2

(* The record of a call that was answered, or that goes for a refresh. *)
LEMMA AnsweredIsOp ==
  ASSUME NEW o \in Ops
  PROVE  /\ \A p \in Who, b, c \in BOOLEAN : [o EXCEPT !.as = p, !.user = b, !.ids = c] \in Ops
         /\ [o EXCEPT !.checking = TRUE] \in Ops
         /\ [o EXCEPT !.refreshed = TRUE, !.outcome = "ok"] \in Ops
<1>1. \A p \in Who, b, c \in BOOLEAN : [o EXCEPT !.as = p, !.user = b, !.ids = c] \in Ops
  BY DEF Ops
<1>2. [o EXCEPT !.checking = TRUE] \in Ops
  BY DEF Ops
<1>3. [o EXCEPT !.refreshed = TRUE, !.outcome = "ok"] \in Ops
  BY DEF Ops, Kinds
<1> QED
  BY <1>1, <1>2, <1>3

(* Every step leaves every call a record. *)
LEMMA OpTyped ==
  ASSUME TypeOK, NEW t \in Threads, Start(t) \/ Advance(t)
  PROVE  op' \in [Threads -> Ops]
<1> /\ op \in [Threads -> Ops]
    /\ acting \in Acting
    /\ device \in {Gadget, None}
    /\ jar \in Principals \cup {None}
  BY DEF TypeOK
<1> USE GadgetAssumption, NoneAssumption, FreshIsOp DEF Step, At, Goto, Return,
     Enter, EnterChange, ReadBearer, Resume, Acting, credential, scope, refresh
<1>1. CASE Login(t) \/ Device(t) \/ Logout(t) \/ ClearActing(t)
  <2> DEFINE begun == [Fresh EXCEPT !.alone = ChangingIdentity = {}]
  <2>1. \/ op' = [u \in Threads |-> IF u = t THEN begun
                                   ELSE [op[u] EXCEPT !.alone = FALSE]]
        \/ op' = [u \in Threads |-> [op[u] EXCEPT !.alone = FALSE]]
    BY <1>1 DEF Login, Device, Logout, ClearActing
  <2>2. begun \in Ops
    BY AskedIsOp
  <2> HIDE DEF begun
  <2> QED
    BY <2>1, <2>2, OverlappedIsOp
<1>2. CASE Refresh(t) \/ LoginRefused(t) \/ RecordHome(t) \/ Adopt(t)
     \/ Resolve(t) \/ UpdateGate(t)
  BY <1>2 DEF Refresh, LoginRefused, RecordHome, Adopt, Resolve, UpdateGate
<1>3. CASE Check(t)
  BY <1>3 DEF Check, Ops, Fresh, Kinds
<1>4. CASE LoginBuild(t) \/ LogoutBuild(t) \/ RefreshBuild(t) \/ BuildActing(t)
     \/ BuildBearer(t)
  BY <1>4 DEF LoginBuild, LogoutBuild, RefreshBuild, BuildActing, BuildBearer, Ops
<1>5. CASE DeviceAnswered(t)
  BY <1>5 DEF DeviceAnswered, Ops, Who
<1>6. CASE DeviceRefused(t) \/ DeviceAdopt(t) \/ DeviceClear(t)
     \/ LogoutAnswered(t) \/ LogoutRefused(t) \/ LogoutMark(t)
  BY <1>6 DEF DeviceRefused, DeviceAdopt, DeviceClear, LogoutAnswered,
       LogoutRefused, LogoutMark
<1>7. CASE LogoutReset(t) \/ RefreshLead(t) \/ RefreshFollow(t)
     \/ RefreshMark(t) \/ RefreshPublish(t) \/ Lookup(t)
  BY <1>7 DEF LogoutReset, RefreshLead, RefreshFollow, RefreshMark, RefreshPublish,
       Lookup
<1>8. CASE RefreshUnbuilt(t)
  BY <1>8 DEF RefreshUnbuilt, Ops, Kinds
<1>9. CASE RefreshClear(t) \/ RefreshFollowed(t) \/ JudgeRefresh(t)
  BY <1>9, AnsweredIsOp, op[t] \in Ops DEF RefreshClear, RefreshFollowed,
       JudgeRefresh
<1>10. CASE Decided(t)
  BY <1>10 DEF Decided, Ops, Sender, Decisions, Who
<1>11. CASE Unauthorized(t) \/ CheckFailed(t) \/ JudgeFail(t) \/ Put(t)
     \/ SetActingWrite(t)
  BY <1>11 DEF Unauthorized, CheckFailed, JudgeFail, Put, SetActingWrite
<1>12. ASSUME NEW tenant \in Tenants, SetActing(t, tenant)
     PROVE op' \in [Threads -> Ops]
  BY <1>12, OverlappedIsOp, AskedIsOp DEF SetActing
<1>13. ASSUME NEW tenant \in Tenants, SetActingRefused(t, tenant)
     PROVE op' \in [Threads -> Ops]
  BY <1>13 DEF SetActingRefused
<1>14. ASSUME NEW p \in Principals, NEW user \in BOOLEAN, NEW ids \in BOOLEAN,
            LoginAnswered(t, p, user, ids)
     PROVE op' \in [Threads -> Ops]
  BY <1>14, AnsweredIsOp, op[t] \in Ops DEF LoginAnswered, Who
<1>15. ASSUME NEW p \in Principals, LoginMalformed(t, p)
     PROVE op' \in [Threads -> Ops]
  BY <1>15 DEF LoginMalformed
<1>16. ASSUME NEW kind \in {"ok", "network"}, RefreshAnswered(t, kind)
     PROVE op' \in [Threads -> Ops]
  BY <1>16 DEF RefreshAnswered, Ops, Kinds
<1>17. ASSUME NEW kind \in {"auth", "authz", "network"}, RefreshRefused(t, kind)
     PROVE op' \in [Threads -> Ops]
  BY <1>17 DEF RefreshRefused, Ops, Kinds
<1> QED
  BY <1>1, <1>2, <1>3, <1>4, <1>5, <1>6, <1>7, <1>8, <1>9, <1>10, <1>11, <1>12,
       <1>13, <1>14, <1>15, <1>16, <1>17
       DEF Start, Advance, SignIn, SignOut, Refreshing, Checking

(* Every other variable keeps its type. *)
LEMMA TypeStep ==
  ASSUME TypeOK, Loaded, op' \in [Threads -> Ops], NEW t \in Threads, Start(t)
  \/ Advance(t)
  PROVE  TypeOK'
<1> DEFINE OutcomeIsKind == op[t].outcome \in Kinds
<1>a. OutcomeIsKind
  BY DEF TypeOK, Ops
<1> USE GadgetAssumption, NoneAssumption, MaxCallsAssumption DEF TypeOK, Loaded,
     credential, scope, refresh, Step, At, Goto, Return, Enter, EnterChange,
     Stored, Resume, Points, Who, Kinds, Acting
<1>1. CASE Login(t)
  BY <1>1 DEF Login, NoMemo
<1>2. CASE Device(t)
  BY <1>2 DEF Device
<1>3. CASE Logout(t)
  BY <1>3 DEF Logout, NoMemo
<1>4. CASE Refresh(t)
  BY <1>4 DEF Refresh
<1>5. CASE Check(t)
  BY <1>5 DEF Check
<1>6. CASE ClearActing(t)
  BY <1>6 DEF ClearActing
<1>7. CASE LoginBuild(t)
  BY <1>7 DEF LoginBuild
<1>8. CASE LoginRefused(t)
  BY <1>8 DEF LoginRefused
<1>9. CASE RecordHome(t)
  BY <1>9 DEF RecordHome
<1>10. CASE Adopt(t)
  BY <1>10 DEF Adopt
<1>11. CASE Resolve(t)
  BY <1>11 DEF Resolve
<1>12. CASE UpdateGate(t)
  BY <1>12 DEF UpdateGate
<1>13. CASE DeviceAnswered(t)
  BY <1>13 DEF DeviceAnswered
<1>14. CASE DeviceRefused(t)
  BY <1>14 DEF DeviceRefused
<1>15. CASE DeviceAdopt(t)
  BY <1>15 DEF DeviceAdopt
<1>16. CASE DeviceClear(t)
  BY <1>16 DEF DeviceClear, NoMemo
<1>17. CASE LogoutBuild(t)
  BY <1>17 DEF LogoutBuild
<1>18. CASE LogoutAnswered(t)
  BY <1>18 DEF LogoutAnswered
<1>19. CASE LogoutRefused(t)
  BY <1>19 DEF LogoutRefused
<1>20. CASE LogoutMark(t)
  <2>1. pc' \in [Threads -> Points] /\ authenticated' \in BOOLEAN
    BY <1>20 DEF LogoutMark
  <2>2. UNCHANGED <<jar, device, deviceSession, scope, memo, refresh, op, got, calls>>
    BY <1>20 DEF LogoutMark
  <2> QED
    BY <2>1, <2>2
<1>21. CASE LogoutReset(t)
  BY <1>21 DEF LogoutReset
<1>22. CASE RefreshLead(t)
  BY <1>22 DEF RefreshLead
<1>23. CASE RefreshFollow(t)
  BY <1>23 DEF RefreshFollow
<1>24. CASE RefreshUnbuilt(t)
  BY <1>24 DEF RefreshUnbuilt
<1>25. CASE RefreshBuild(t)
  BY <1>25 DEF RefreshBuild
<1>26. CASE RefreshMark(t)
  <2>1. pc' \in [Threads -> Points] /\ authenticated' \in BOOLEAN
    BY <1>26 DEF RefreshMark
  <2>2. UNCHANGED <<jar, device, deviceSession, scope, memo, refresh, op, got, calls>>
    BY <1>26 DEF RefreshMark
  <2> QED
    BY <2>1, <2>2
<1>27. CASE RefreshPublish(t)
  BY <1>27 DEF RefreshPublish, Ops
<1>28. CASE RefreshClear(t)
  BY <1>28, <1>a DEF RefreshClear, NoMemo
<1>29. CASE RefreshFollowed(t)
  BY <1>29 DEF RefreshFollowed
<1>30. CASE Lookup(t)
  BY <1>30 DEF Lookup
<1>31. CASE BuildActing(t)
  BY <1>31 DEF BuildActing
<1>32. CASE BuildBearer(t)
  BY <1>32 DEF BuildBearer
<1>33. CASE Decided(t)
  BY <1>33 DEF Decided
<1>34. CASE Unauthorized(t)
  BY <1>34 DEF Unauthorized
<1>35. CASE CheckFailed(t)
  BY <1>35 DEF CheckFailed
<1>36. CASE JudgeRefresh(t)
  BY <1>36 DEF JudgeRefresh
<1>37. CASE JudgeFail(t)
  BY <1>37 DEF JudgeFail
<1>38. CASE Put(t)
  BY <1>38 DEF Put, Entries, Decisions, Ops
<1>39. CASE SetActingWrite(t)
  BY <1>39 DEF SetActingWrite, Ops
<1>40. ASSUME NEW tenant \in Tenants, SetActing(t, tenant) PROVE TypeOK'
  BY <1>40 DEF SetActing
<1>41. ASSUME NEW tenant \in Tenants, SetActingRefused(t, tenant) PROVE TypeOK'
  BY <1>41 DEF SetActingRefused
<1>42. ASSUME NEW p \in Principals, NEW user \in BOOLEAN, NEW ids \in BOOLEAN,
            LoginAnswered(t, p, user, ids)
     PROVE TypeOK'
  BY <1>42 DEF LoginAnswered
<1>43. ASSUME NEW p \in Principals, LoginMalformed(t, p) PROVE TypeOK'
  BY <1>43 DEF LoginMalformed
<1>44. ASSUME NEW kind \in {"ok", "network"}, RefreshAnswered(t, kind)
     PROVE TypeOK'
  BY <1>44 DEF RefreshAnswered
<1>45. ASSUME NEW kind \in {"auth", "authz", "network"}, RefreshRefused(t, kind)
     PROVE TypeOK'
  BY <1>45 DEF RefreshRefused
<1> QED
  BY <1>1, <1>2, <1>3, <1>4, <1>5, <1>6, <1>7, <1>8, <1>9, <1>10, <1>11, <1>12,
       <1>13, <1>14, <1>15, <1>16, <1>17, <1>18, <1>19, <1>20, <1>21, <1>22, <1>23,
       <1>24, <1>25, <1>26, <1>27, <1>28, <1>29, <1>30, <1>31, <1>32, <1>33,
       <1>34, <1>35, <1>36, <1>37, <1>38, <1>39, <1>40, <1>41, <1>42,
       <1>43, <1>44, <1>45
       DEF Start, Advance, SignIn, SignOut, Refreshing, Checking

(* A thread's step leaves another's place and record alone, but that a     *)
(* change of identity marks every record.                                  *)
OthersKeep(u) ==
  /\ pc'[u] = pc[u]
  /\ op'[u].as = op[u].as /\ op'[u].user = op[u].user /\ op'[u].ids = op[u].ids
  /\ op'[u].key = op[u].key /\ op'[u].header = op[u].header
  /\ op'[u].bearer = op[u].bearer /\ op'[u].decision = op[u].decision
  /\ op'[u].checking = op[u].checking
  /\ op'[u].alone => op[u].alone

(* The mark of a change of identity. *)
LEMMA Marked ==
  ASSUME NEW o \in Ops
  PROVE  LET m == [o EXCEPT !.alone = FALSE]
         IN  /\ m.as = o.as /\ m.user = o.user /\ m.ids = o.ids /\ m.key = o.key /\ m.header = o.header
             /\ m.bearer = o.bearer /\ m.decision = o.decision /\ m.checking = o.checking
             /\ m.alone = FALSE
BY DEF Ops

(* What one thread does, the others keep. *)
LEMMA Frame ==
  ASSUME TypeOK, NEW u \in Threads, NEW t \in Threads, u # t, Start(t) \/ Advance(t)
  PROVE  OthersKeep(u)
<1>a. pc \in [Threads -> Points] /\ op \in [Threads -> Ops] /\ op[u] \in Ops
  BY DEF TypeOK
<1> USE DEF Step, At, Goto, Return, Enter, EnterChange, ReadBearer, Resume,
     credential, scope, refresh, OthersKeep
<1>1. CASE Start(t)
  <2>1. CASE Login(t) \/ Device(t) \/ Logout(t)
    BY <2>1, <1>a, Marked DEF Login, Device, Logout
  <2>2. CASE ClearActing(t)
    BY <2>2, <1>a, Marked DEF ClearActing
  <2>3. ASSUME NEW tenant \in Tenants, SetActing(t, tenant) PROVE OthersKeep(u)
    BY <2>3, <1>a, Marked DEF SetActing
  <2>4. ASSUME NEW tenant \in Tenants, SetActingRefused(t, tenant)
       PROVE OthersKeep(u)
    BY <2>4, <1>a DEF SetActingRefused
  <2>5. CASE Refresh(t) \/ Check(t)
    BY <2>5, <1>a DEF Refresh, Check
  <2> QED
    BY <1>1, <2>1, <2>2, <2>3, <2>4, <2>5 DEF Start
<1>2. CASE SignIn(t)
  BY <1>2, <1>a DEF SignIn, LoginBuild, LoginAnswered, LoginMalformed,
       LoginRefused, RecordHome, Adopt, Resolve, UpdateGate, DeviceAnswered,
       DeviceRefused, DeviceAdopt, DeviceClear
<1>3. CASE SignOut(t)
  BY <1>3, <1>a DEF SignOut, LogoutBuild, LogoutAnswered, LogoutRefused,
       LogoutMark, LogoutReset
<1>4. CASE Refreshing(t)
  BY <1>4, <1>a DEF Refreshing, RefreshLead, RefreshFollow, RefreshUnbuilt,
       RefreshBuild, RefreshAnswered, RefreshRefused, RefreshMark, RefreshPublish, RefreshClear,
       RefreshFollowed
<1>5. CASE Checking(t)
  BY <1>5, <1>a DEF Checking, Lookup, BuildActing, BuildBearer, Decided,
       Unauthorized, CheckFailed, JudgeRefresh, JudgeFail, Put
<1>6. CASE SetActingWrite(t)
  BY <1>6, <1>a DEF SetActingWrite
<1> QED
  BY <1>1, <1>2, <1>3, <1>4, <1>5, <1>6 DEF Advance

(* What a call will use is what its answer gave it. *)
LEMMA LoadedStep ==
  ASSUME TypeOK, Loaded, NEW t \in Threads, Start(t) \/ Advance(t)
  PROVE  Loaded'
<1>a. pc \in [Threads -> Points] /\ op \in [Threads -> Ops] /\ op[t] \in Ops
  BY DEF TypeOK
<1>b. \A u \in Threads \ {t} : OthersKeep(u)
  BY Frame
<1>c. jar \in Principals \cup {None}
  BY DEF TypeOK
<1> USE DEF Step, At, Goto, Return, Enter, EnterChange, ReadBearer, Resume,
     credential, scope, refresh, Loaded, OthersKeep
<1>1. CASE Start(t)
  <2>1. CASE Login(t) \/ Device(t) \/ Logout(t)
    BY <2>1, <1>a, <1>b DEF Login, Fresh, Ops, Device, Logout
  <2>2. CASE ClearActing(t)
    BY <2>2, <1>a, <1>b DEF ClearActing, Fresh, Ops
  <2>3. ASSUME NEW tenant \in Tenants, SetActing(t, tenant) PROVE Loaded'
    BY <2>3, <1>a, <1>b DEF SetActing, Fresh, Ops
  <2>4. ASSUME NEW tenant \in Tenants, SetActingRefused(t, tenant) PROVE Loaded'
    BY <2>4, <1>a, <1>b DEF SetActingRefused, Fresh, Ops
  <2>5. CASE Refresh(t)
    BY <2>5, <1>a, <1>b DEF Refresh, Fresh, Ops
  <2>6. CASE Check(t)
    BY <2>6, <1>a, <1>b DEF Check, Fresh, Ops
  <2> QED
    BY <1>1, <2>1, <2>2, <2>3, <2>4, <2>5, <2>6 DEF Start
<1>2. CASE SignIn(t)
  <2>1. CASE LoginBuild(t) \/ LoginRefused(t) \/ RecordHome(t)
    BY <2>1, <1>a, <1>b DEF LoginBuild, Fresh, Ops, LoginRefused, RecordHome
  <2>2. CASE Adopt(t) \/ Resolve(t) \/ UpdateGate(t)
    BY <2>2, <1>a, <1>b DEF Adopt, Fresh, Ops, Resolve, UpdateGate
  <2>3. CASE DeviceAnswered(t) \/ DeviceRefused(t)
    BY <2>3, <1>a, <1>b DEF DeviceAnswered, Fresh, Ops, DeviceRefused
  <2>4. CASE DeviceAdopt(t) \/ DeviceClear(t)
    BY <2>4, <1>a, <1>b DEF DeviceAdopt, Fresh, Ops, DeviceClear
  <2>5. ASSUME NEW p \in Principals, NEW user \in BOOLEAN, NEW ids \in BOOLEAN,
            LoginAnswered(t, p, user, ids)
       PROVE Loaded'
    BY <2>5, <1>a, <1>b DEF LoginAnswered, Fresh, Ops
  <2>6. ASSUME NEW p \in Principals, LoginMalformed(t, p) PROVE Loaded'
    BY <2>6, <1>a, <1>b DEF LoginMalformed, Fresh, Ops
  <2> QED
    BY <1>2, <2>1, <2>2, <2>3, <2>4, <2>5, <2>6 DEF SignIn
<1>3. CASE SignOut(t)
  BY <1>3, <1>a, <1>b DEF SignOut, LogoutBuild, Fresh, Ops, LogoutAnswered,
       LogoutRefused, LogoutMark, LogoutReset
<1>4. CASE Refreshing(t)
  BY <1>4, <1>a, <1>b DEF Refreshing, RefreshLead, Fresh, Ops, RefreshFollow,
       RefreshUnbuilt, RefreshBuild, RefreshAnswered, RefreshRefused, RefreshMark, RefreshPublish,
       RefreshClear, RefreshFollowed
<1>5. CASE Checking(t)
  BY <1>5, <1>a, <1>b, <1>c DEF Checking, Lookup, Fresh, Ops, BuildActing,
       BuildBearer, Decided, Sender, Decisions, Who, Acting, Unauthorized,
       CheckFailed, JudgeRefresh, JudgeFail, Put
<1>6. CASE SetActingWrite(t)
  BY <1>6, <1>a, <1>b DEF SetActingWrite, Fresh, Ops
<1> QED
  BY <1>1, <1>2, <1>3, <1>4, <1>5, <1>6 DEF Advance

(* While nobody changes who the client is, a step that leaves a record     *)
(* counting as alone leaves alone who the client is, and starts no change. *)
SameIdentity == jar' = jar /\ device' = device /\ acting' = acting


(* What is not marked was not overtaken. *)
LEMMA Overlap ==
  ASSUME TypeOK, ChangingIdentity = {}, NEW u \in Threads, op'[u].alone,
  NEW t \in Threads, Start(t) \/ Advance(t)
  PROVE  u # t => SameIdentity /\ ChangingIdentity' = {}
<1>a. pc \in [Threads -> Points] /\ op \in [Threads -> Ops] /\ op[u] \in Ops
  BY DEF TypeOK
<1> USE DEF Step, At, Goto, Return, Enter, EnterChange, ReadBearer, Resume,
     credential, scope, refresh, ChangingIdentity, SameIdentity
<1>1. CASE Start(t)
  <2>1. CASE Login(t)
    BY <2>1, <1>a, Marked DEF Login
  <2>6. CASE Device(t)
    BY <2>6, <1>a, Marked DEF Device
  <2>7. CASE Logout(t)
    BY <2>7, <1>a, Marked DEF Logout
  <2>2. CASE ClearActing(t)
    BY <2>2, <1>a, Marked DEF ClearActing
  <2>3. ASSUME NEW tenant \in Tenants, SetActing(t, tenant)
       PROVE u # t => SameIdentity /\ ChangingIdentity' = {}
    BY <2>3, <1>a, Marked DEF SetActing
  <2>4. ASSUME NEW tenant \in Tenants, SetActingRefused(t, tenant)
       PROVE u # t => SameIdentity /\ ChangingIdentity' = {}
    BY <2>4, <1>a DEF SetActingRefused
  <2>5. CASE Refresh(t) \/ Check(t)
    BY <2>5, <1>a DEF Refresh, Check
  <2> QED
    BY <1>1, <2>1, <2>2, <2>3, <2>4, <2>5, <2>6, <2>7 DEF Start
<1>2. CASE SignIn(t)
  BY <1>2, <1>a DEF SignIn, LoginBuild, LoginAnswered, LoginMalformed,
       LoginRefused, RecordHome, Adopt, Resolve, UpdateGate, DeviceAnswered,
       DeviceRefused, DeviceAdopt, DeviceClear
<1>3. CASE SignOut(t)
  BY <1>3, <1>a DEF SignOut, LogoutBuild, LogoutAnswered, LogoutRefused,
       LogoutMark, LogoutReset
<1>4. CASE Refreshing(t)
  BY <1>4, <1>a DEF Refreshing, RefreshLead, RefreshFollow, RefreshUnbuilt,
       RefreshBuild, RefreshAnswered, RefreshRefused, RefreshMark, RefreshPublish, RefreshClear,
       RefreshFollowed
<1>5. CASE Checking(t)
  BY <1>5, <1>a DEF Checking, Lookup, BuildActing, BuildBearer, Decided,
       Unauthorized, CheckFailed, JudgeRefresh, JudgeFail, Put
<1>6. CASE SetActingWrite(t)
  BY <1>6, <1>a DEF SetActingWrite
<1> QED
  BY <1>1, <1>2, <1>3, <1>4, <1>5, <1>6 DEF Advance

(* The check that steps has read what holds. *)
LEMMA UndisturbedHere ==
  ASSUME TypeOK, Undisturbed, NEW t \in Threads, Start(t) \/ Advance(t)
  PROVE  Alone(t)' => ChangingIdentity' = {} /\ Read(t)'
<1>a. pc \in [Threads -> Points] /\ op \in [Threads -> Ops] /\ op[t] \in Ops
  BY DEF TypeOK
<1> USE DEF Step, At, Goto, Return, Enter, EnterChange, ReadBearer, Resume,
     credential, scope, refresh, ChangingIdentity, SameIdentity, Undisturbed,
     Alone, InCheck, CheckPoints, RefreshPoints, Effective, Read
<1>1. CASE Start(t)
  <2>1. CASE Login(t) \/ Device(t) \/ Logout(t)
    BY <2>1, <1>a DEF Login, Fresh, Ops, Device, Logout
  <2>2. CASE ClearActing(t)
    BY <2>2, <1>a DEF ClearActing, Fresh, Ops
  <2>3. ASSUME NEW tenant \in Tenants, SetActing(t, tenant)
       PROVE Alone(t)' => ChangingIdentity' = {} /\ Read(t)'
    BY <2>3, <1>a DEF SetActing, Fresh, Ops
  <2>4. ASSUME NEW tenant \in Tenants, SetActingRefused(t, tenant)
       PROVE Alone(t)' => ChangingIdentity' = {} /\ Read(t)'
    BY <2>4, <1>a DEF SetActingRefused, Fresh, Ops
  <2>5. CASE Refresh(t)
    BY <2>5, <1>a DEF Refresh, Fresh
  <2>6. CASE Check(t)
    BY <2>6, <1>a DEF Check, Fresh
  <2> QED
    BY <1>1, <2>1, <2>2, <2>3, <2>4, <2>5, <2>6 DEF Start
<1>2. CASE SignIn(t)
  <2>1. CASE LoginBuild(t) \/ LoginRefused(t) \/ RecordHome(t)
    BY <2>1, <1>a DEF LoginBuild, Fresh, Ops, LoginRefused, RecordHome
  <2>2. CASE Adopt(t) \/ Resolve(t) \/ UpdateGate(t)
    BY <2>2, <1>a DEF Adopt, Fresh, Ops, Resolve, UpdateGate
  <2>3. CASE DeviceAnswered(t) \/ DeviceRefused(t)
    BY <2>3, <1>a DEF DeviceAnswered, Fresh, Ops, DeviceRefused
  <2>4. CASE DeviceAdopt(t) \/ DeviceClear(t)
    BY <2>4, <1>a DEF DeviceAdopt, Fresh, Ops, DeviceClear
  <2>5. ASSUME NEW p \in Principals, NEW user \in BOOLEAN, NEW ids \in BOOLEAN,
            LoginAnswered(t, p, user, ids)
       PROVE Alone(t)' => ChangingIdentity' = {} /\ Read(t)'
    BY <2>5, <1>a DEF LoginAnswered, Fresh, Ops
  <2>6. ASSUME NEW p \in Principals, LoginMalformed(t, p)
       PROVE Alone(t)' => ChangingIdentity' = {} /\ Read(t)'
    BY <2>6, <1>a DEF LoginMalformed, Fresh, Ops
  <2> QED
    BY <1>2, <2>1, <2>2, <2>3, <2>4, <2>5, <2>6 DEF SignIn
<1>3. CASE SignOut(t)
  BY <1>3, <1>a DEF SignOut, LogoutBuild, Fresh, Ops, LogoutAnswered,
       LogoutRefused, LogoutMark, LogoutReset
<1>4. CASE Refreshing(t)
  BY <1>4, <1>a DEF Refreshing, RefreshLead, Fresh, Ops, RefreshFollow,
       RefreshUnbuilt, RefreshBuild, RefreshAnswered, RefreshRefused, RefreshMark, RefreshPublish,
       RefreshClear, RefreshFollowed
<1>5. CASE Checking(t)
  BY <1>5, <1>a DEF Checking, Lookup, Fresh, Ops, BuildActing, BuildBearer,
       Decided, Sender, Unauthorized, CheckFailed, JudgeRefresh, JudgeFail, Put
<1>6. CASE SetActingWrite(t)
  BY <1>6, <1>a DEF SetActingWrite, Fresh, Ops
<1> QED
  BY <1>1, <1>2, <1>3, <1>4, <1>5, <1>6 DEF Advance

(* And so has every other check that still counts as alone. *)
LEMMA UndisturbedStep ==
  ASSUME TypeOK, Undisturbed, NEW t \in Threads, Start(t) \/ Advance(t)
  PROVE  Undisturbed'
<1> SUFFICES ASSUME NEW u \in Threads, Alone(u)'
             PROVE  ChangingIdentity' = {} /\ Read(u)'
  BY DEF Undisturbed
<1>1. CASE u = t
  BY <1>1, UndisturbedHere
<1>2. CASE u # t
  <2>1. OthersKeep(u)
    BY <1>2, Frame
  <2>2. Alone(u) /\ op'[u].alone
    BY <2>1 DEF OthersKeep, Alone, InCheck
  <2>3. ChangingIdentity = {} /\ Read(u)
    BY <2>2 DEF Undisturbed
  <2>4. SameIdentity /\ ChangingIdentity' = {}
    BY <1>2, <2>2, <2>3, Overlap
  <2> QED
    BY <2>1, <2>3, <2>4 DEF OthersKeep, SameIdentity, Read, Effective
<1> QED
  BY <1>1, <1>2

-------------------------------------------------------------------------------
(* A change of identity finds no entry of the kind, or clears the memo.    *)
LEMMA MemoStep ==
  ASSUME TypeOK, Undisturbed, ClearedHoldsNone, EntriesAreRight, NEW t \in Threads,
  Start(t) \/ Advance(t)
  PROVE  ClearedHoldsNone' /\ EntriesAreRight'
<1>a. pc \in [Threads -> Points] /\ op[t] \in Ops /\ op[t].key \in Acting
  BY DEF TypeOK, Ops
<1>b. memo \in [Acting -> Entries \cup {None}]
  BY DEF TypeOK
<1>c. \A k \in Acting : NoMemo[k] = None
  BY DEF NoMemo, Acting
<1>d. pc[t] = "put" /\ op[t].alone => ChangingIdentity = {} /\ Read(t)
  BY DEF Undisturbed, Alone, InCheck, CheckPoints
<1> USE NoneAssumption DEF Step, At, Goto, Return, Enter, EnterChange, ReadBearer,
     Resume, credential, scope, refresh, ClearedHoldsNone, EntriesAreRight,
     AloneEntry, Cleared, Effective
<1>1. CASE Login(t) \/ Logout(t) \/ DeviceClear(t) \/ RefreshClear(t)
  BY <1>1, <1>a, <1>b, <1>c DEF Login, Logout, DeviceClear, RefreshClear, Fresh, Ops
<1>2. CASE Device(t) \/ Refresh(t) \/ Check(t) \/ ClearActing(t) \/ LoginBuild(t)
  BY <1>2, <1>a, <1>b DEF Device, Refresh, Check, ClearActing, LoginBuild, Fresh,
       Ops
<1>3. CASE LoginRefused(t) \/ RecordHome(t) \/ Adopt(t) \/ Resolve(t)
     \/ UpdateGate(t)
  BY <1>3, <1>a, <1>b DEF LoginRefused, RecordHome, Adopt, Resolve, UpdateGate,
       Fresh, Ops
<1>4. CASE DeviceAnswered(t) \/ DeviceRefused(t) \/ DeviceAdopt(t)
     \/ LogoutBuild(t) \/ LogoutAnswered(t)
  BY <1>4, <1>a, <1>b DEF DeviceAnswered, DeviceRefused, DeviceAdopt, LogoutBuild,
       LogoutAnswered, Fresh, Ops
<1>5. CASE LogoutRefused(t) \/ LogoutMark(t) \/ LogoutReset(t) \/ RefreshLead(t)
     \/ RefreshFollow(t)
  BY <1>5, <1>a, <1>b DEF LogoutRefused, LogoutMark, LogoutReset, RefreshLead,
       RefreshFollow, Fresh, Ops
<1>6. CASE RefreshUnbuilt(t) \/ RefreshBuild(t) \/ RefreshMark(t)
     \/ RefreshPublish(t) \/ RefreshFollowed(t)
  BY <1>6, <1>a, <1>b DEF RefreshUnbuilt, RefreshBuild, RefreshMark,
       RefreshPublish, RefreshFollowed, Fresh, Ops
<1>7. CASE Lookup(t) \/ BuildActing(t) \/ BuildBearer(t) \/ Unauthorized(t)
     \/ CheckFailed(t)
  BY <1>7, <1>a, <1>b DEF Lookup, BuildActing, BuildBearer, Unauthorized,
       CheckFailed, Fresh, Ops
<1>8. CASE Decided(t)
  BY <1>8, <1>a, <1>b DEF Decided, Fresh, Ops, Sender
<1>9. CASE JudgeRefresh(t) \/ JudgeFail(t) \/ SetActingWrite(t)
  BY <1>9, <1>a, <1>b DEF JudgeRefresh, JudgeFail, SetActingWrite, Fresh, Ops
<1>10. CASE Put(t)
  BY <1>10, <1>a, <1>b, <1>d DEF Put, Fresh, Ops, Read, ChangingIdentity
<1>11. ASSUME NEW tenant \in Tenants, SetActing(t, tenant)
     PROVE ClearedHoldsNone' /\ EntriesAreRight'
  BY <1>11, <1>a, <1>b DEF SetActing, Fresh, Ops
<1>12. ASSUME NEW tenant \in Tenants, SetActingRefused(t, tenant)
     PROVE ClearedHoldsNone' /\ EntriesAreRight'
  BY <1>12, <1>a, <1>b DEF SetActingRefused, Fresh, Ops
<1>13. ASSUME NEW p \in Principals, NEW user \in BOOLEAN, NEW ids \in BOOLEAN,
            LoginAnswered(t, p, user, ids)
     PROVE ClearedHoldsNone' /\ EntriesAreRight'
  BY <1>13, <1>a, <1>b DEF LoginAnswered, Fresh, Ops
<1>14. ASSUME NEW p \in Principals, LoginMalformed(t, p)
     PROVE ClearedHoldsNone' /\ EntriesAreRight'
  BY <1>14, <1>a, <1>b DEF LoginMalformed, Fresh, Ops
<1>15. ASSUME NEW kind \in {"ok", "network"}, RefreshAnswered(t, kind)
     PROVE ClearedHoldsNone' /\ EntriesAreRight'
  BY <1>15, <1>a, <1>b DEF RefreshAnswered, Fresh, Ops
<1>16. ASSUME NEW kind \in {"auth", "authz", "network"}, RefreshRefused(t, kind)
     PROVE ClearedHoldsNone' /\ EntriesAreRight'
  BY <1>16, <1>a, <1>b DEF RefreshRefused, Fresh, Ops
<1> QED
  BY <1>1, <1>2, <1>3, <1>4, <1>5, <1>6, <1>7, <1>8, <1>9, <1>10, <1>11, <1>12,
       <1>13, <1>14, <1>15, <1>16
       DEF Start, Advance, SignIn, SignOut, Refreshing, Checking

-------------------------------------------------------------------------------
(* The invariant is inductive. *)

(* It holds of a client just built. *)
LEMMA InitIsFine == Init => IInv
<1> SUFFICES ASSUME Init PROVE IInv
  OBVIOUS
<1> USE DEF Init
<1>1. TypeOK
  <2>1. op \in [Threads -> Ops]
    BY FreshIsOp
  <2>2. memo \in [Acting -> Entries \cup {None}]
    BY DEF NoMemo, Acting
  <2>3. pc \in [Threads -> Points]
    BY DEF Points
  <2>4. got \in [Threads -> Kinds \cup {"none"}]
    OBVIOUS
  <2>5. calls \in 0..MaxCalls
    BY MaxCallsAssumption
  <2> QED
    BY <2>1, <2>2, <2>3, <2>4, <2>5 DEF TypeOK, Acting, Kinds
<1>2. Loaded
  BY DEF Loaded, Fresh
<1>3. Undisturbed
  BY DEF Undisturbed, Alone, InCheck, CheckPoints, RefreshPoints
<1>4. ClearedHoldsNone /\ EntriesAreRight
  BY DEF ClearedHoldsNone, EntriesAreRight, AloneEntry, NoMemo, Acting
<1> QED
  BY <1>1, <1>2, <1>3, <1>4 DEF IInv

(* An entry that is dropped was the only thing to change. *)
LEMMA ForgetStep ==
  ASSUME IInv, NEW k \in Acting, Forget(k)
  PROVE  IInv'
<1> USE DEF IInv, Forget, credential, scope, refresh
<1>1. TypeOK'
  BY DEF TypeOK
<1>2. Loaded' /\ Undisturbed'
  BY DEF Loaded, Undisturbed, Alone, InCheck, ChangingIdentity, Read, Effective
<1>3. \A q \in Acting : AloneEntry(q)' => AloneEntry(q) /\ memo'[q] = memo[q]
  BY DEF TypeOK, AloneEntry
<1>4. ClearedHoldsNone' /\ EntriesAreRight'
  BY <1>3 DEF ClearedHoldsNone, EntriesAreRight, Effective
<1> QED
  BY <1>1, <1>2, <1>4

(* Every step keeps the invariant. *)
LEMMA NextStep == IInv /\ [Next]_vars => IInv'
<1> SUFFICES ASSUME IInv, [Next]_vars PROVE IInv'
  OBVIOUS
<1>1. ASSUME NEW t \in Threads, Start(t) \/ Advance(t) PROVE IInv'
  <2>1. op' \in [Threads -> Ops]
    BY <1>1, OpTyped DEF IInv
  <2>2. TypeOK'
    BY <1>1, <2>1, TypeStep DEF IInv
  <2>3. Loaded'
    BY <1>1, LoadedStep DEF IInv
  <2>4. Undisturbed'
    BY <1>1, UndisturbedStep DEF IInv
  <2>5. ClearedHoldsNone' /\ EntriesAreRight'
    BY <1>1, MemoStep DEF IInv
  <2> QED
    BY <2>2, <2>3, <2>4, <2>5 DEF IInv
<1>2. ASSUME NEW k \in Tenants \cup {None}, Forget(k) PROVE IInv'
  BY <1>2, ForgetStep DEF Acting
<1>3. CASE UNCHANGED vars
  BY <1>3 DEF vars, credential, scope, refresh, IInv, TypeOK, Loaded, Undisturbed,
    Alone, InCheck, ChangingIdentity, Read, Effective, ClearedHoldsNone,
    EntriesAreRight, AloneEntry
<1> QED
  BY <1>1, <1>2, <1>3 DEF Next, Quiesced

(* The inductive invariant holds of every reachable state. *)
THEOREM Inductive == Spec => []IInv
BY InitIsFine, NextStep, PTL DEF Spec

(* Every variable keeps its type, whatever the threads do. *)
THEOREM TypeCorrect == Spec => []TypeOK
<1>1. IInv => TypeOK
  BY DEF IInv
<1> QED
  BY Inductive, <1>1, PTL

(* A decision whose check overlapped no change of identity is, once no     *)
(* change is under way, the current principal's own and kept under the     *)
(* tenant it was asked for: clearing the memo before a login or a logout,  *)
(* and after a device login, is enough for it.                             *)
THEOREM UncontendedRight == Spec => []UncontendedDecisionsAreRight
<1>1. IInv => UncontendedDecisionsAreRight
  <2> SUFFICES ASSUME IInv, ChangingIdentity = {}, NEW k \in Acting, AloneEntry(k)
               PROVE  memo[k].by = Effective /\ memo[k].for = k
    BY DEF UncontendedDecisionsAreRight, IInv, TypeOK, AloneEntry
  <2> QED
    BY DEF IInv, EntriesAreRight, ChangingIdentity
<1> QED
  BY Inductive, <1>1, PTL

(* The device flag is set exactly while there is a device token: the       *)
(* critical sections that write one write the other.                       *)
THEOREM FlagMatches == Spec => []DeviceFlagMatches
<1>1. Init => DeviceFlagMatches
  BY DEF Init, DeviceFlagMatches
<1>2. DeviceFlagMatches /\ [Next]_vars => DeviceFlagMatches'
  <2> SUFFICES ASSUME DeviceFlagMatches, [Next]_vars PROVE DeviceFlagMatches'
    OBVIOUS
  <2>1. ASSUME NEW t \in Threads, Adopt(t) \/ DeviceAdopt(t)
       PROVE DeviceFlagMatches'
    BY <2>1, NoneAssumption DEF Adopt, DeviceAdopt, DeviceFlagMatches
  <2>2. CASE UNCHANGED <<device, deviceSession>>
    BY <2>2 DEF DeviceFlagMatches
  <2>3. ASSUME NEW t \in Threads, Start(t) PROVE UNCHANGED <<device, deviceSession>>
    BY <2>3 DEF Start, Login, Device, Logout, Refresh, Check, ClearActing, SetActing,
         SetActingRefused, credential
  <2>4. ASSUME NEW t \in Threads, SignIn(t), ~Adopt(t), ~DeviceAdopt(t)
        PROVE  UNCHANGED <<device, deviceSession>>
    BY <2>4 DEF SignIn, LoginBuild, LoginAnswered, LoginMalformed, LoginRefused, RecordHome,
         Resolve, UpdateGate, DeviceAnswered, DeviceRefused, DeviceClear, credential
  <2>5. ASSUME NEW t \in Threads, SignOut(t) \/ SetActingWrite(t) \/ Refreshing(t)
        PROVE  UNCHANGED <<device, deviceSession>>
    BY <2>5 DEF SignOut, LogoutBuild, LogoutAnswered, LogoutRefused, LogoutMark, LogoutReset,
         SetActingWrite, Refreshing, RefreshLead, RefreshFollow, RefreshUnbuilt, RefreshBuild,
         RefreshAnswered, RefreshRefused, RefreshMark, RefreshPublish, RefreshClear,
         RefreshFollowed, credential
  <2>6. ASSUME NEW t \in Threads, Checking(t) PROVE UNCHANGED <<device, deviceSession>>
    BY <2>6 DEF Checking, Lookup, BuildActing, BuildBearer, Decided, Unauthorized, CheckFailed,
         JudgeRefresh, JudgeFail, Put, credential
  <2>7. ASSUME NEW k, Forget(k) PROVE UNCHANGED <<device, deviceSession>>
    BY <2>7 DEF Forget, credential
  <2>8. ASSUME NEW t \in Threads, Start(t) \/ Advance(t) PROVE DeviceFlagMatches'
    BY <2>1, <2>2, <2>3, <2>4, <2>5, <2>6, <2>8 DEF Advance
  <2>9. CASE UNCHANGED vars
    BY <2>2, <2>9 DEF vars, credential
  <2> QED
    BY <2>2, <2>7, <2>8, <2>9 DEF Next, Quiesced
<1> QED
  BY <1>1, <1>2, PTL DEF Spec

-------------------------------------------------------------------------------
(* A sign-in that nothing overlapped.                                      *)
SigningIn == {"login", "loginWire", "scope", "adopt", "resolve", "gate",
              "deviceWire", "deviceAdopt", "deviceClear"}

OthersRest(t) == \A u \in Threads \ {t} : u \notin ChangingIdentity

(* What it has adopted so far is what the client holds. *)
Adopted(t) ==
  /\ pc[t] \in {"resolve", "gate"} /\ op[t].as \in Principals => device = None
  /\ pc[t] \in {"scope", "adopt", "resolve", "gate"} /\ op[t].as \in Principals
     /\ op[t].bearer = None => jar = op[t].as
  /\ pc[t] = "gate" /\ op[t].as \in Principals /\ op[t].ids => resolved = op[t].as
  /\ pc[t] \in {"deviceClear", "gate"} /\ op[t].as = Gadget => device = Gadget

(* No other change is under way while it still counts as alone. *)
SoleSignIn ==
  \A t \in Threads :
    /\ pc[t] \in {"deviceAdopt", "deviceClear"} => op[t].as = Gadget
    /\ pc[t] \in SigningIn /\ op[t].alone => OthersRest(t) /\ Adopted(t)

SameCredential == jar' = jar /\ device' = device /\ resolved' = resolved

(* A thread that was changing nothing and leaves another's record counting *)
(* as alone still changes nothing.                                         *)
LEMMA Apart ==
  ASSUME TypeOK, NEW u \in Threads, NEW t \in Threads, u # t, OthersRest(u),
         op'[u].alone, Start(t) \/ Advance(t)
  PROVE  OthersRest(u)' /\ SameCredential
<1>a. pc \in [Threads -> Points] /\ op \in [Threads -> Ops] /\ op[u] \in Ops
  BY DEF TypeOK
<1> USE DEF Step, At, Goto, Return, Enter, EnterChange, ReadBearer, Resume,
     credential, scope, refresh, ChangingIdentity, OthersRest, SameCredential
<1>1. CASE Start(t)
  <2>1. CASE Login(t)
    BY <2>1, <1>a, Marked DEF Login
  <2>2. CASE Device(t)
    BY <2>2, <1>a, Marked DEF Device
  <2>3. CASE Logout(t)
    BY <2>3, <1>a, Marked DEF Logout
  <2>4. CASE ClearActing(t)
    BY <2>4, <1>a, Marked DEF ClearActing
  <2>5. ASSUME NEW tenant \in Tenants, SetActing(t, tenant)
        PROVE  OthersRest(u)' /\ SameCredential
    BY <2>5, <1>a, Marked DEF SetActing
  <2>6. ASSUME NEW tenant \in Tenants, SetActingRefused(t, tenant)
        PROVE  OthersRest(u)' /\ SameCredential
    BY <2>6, <1>a DEF SetActingRefused
  <2>7. CASE Refresh(t) \/ Check(t)
    BY <2>7, <1>a DEF Refresh, Check
  <2> QED
    BY <1>1, <2>1, <2>2, <2>3, <2>4, <2>5, <2>6, <2>7 DEF Start
<1>2. CASE SignIn(t)
  BY <1>2, <1>a DEF SignIn, LoginBuild, LoginAnswered, LoginMalformed,
       LoginRefused, RecordHome, Adopt, Resolve, UpdateGate, DeviceAnswered,
       DeviceRefused, DeviceAdopt, DeviceClear
<1>3. CASE SignOut(t)
  BY <1>3, <1>a DEF SignOut, LogoutBuild, LogoutAnswered, LogoutRefused,
       LogoutMark, LogoutReset
<1>4. CASE Refreshing(t)
  BY <1>4, <1>a DEF Refreshing, RefreshLead, RefreshFollow, RefreshUnbuilt,
       RefreshBuild, RefreshAnswered, RefreshRefused, RefreshMark, RefreshPublish, RefreshClear,
       RefreshFollowed
<1>5. CASE Checking(t)
  BY <1>5, <1>a DEF Checking, Lookup, BuildActing, BuildBearer, Decided,
       Unauthorized, CheckFailed, JudgeRefresh, JudgeFail, Put
<1>6. CASE SetActingWrite(t)
  BY <1>6, <1>a DEF SetActingWrite
<1> QED
  BY <1>1, <1>2, <1>3, <1>4, <1>5, <1>6 DEF Advance

(* The sign-in that steps holds what it adopts. *)
LEMMA SoleHere ==
  ASSUME TypeOK, Loaded, SoleSignIn, NEW t \in Threads, Start(t) \/ Advance(t)
  PROVE  /\ pc'[t] \in {"deviceAdopt", "deviceClear"} => op'[t].as = Gadget
         /\ pc'[t] \in SigningIn /\ op'[t].alone => OthersRest(t)' /\ Adopted(t)'
<1>a. pc \in [Threads -> Points] /\ op \in [Threads -> Ops] /\ op[t] \in Ops
  BY DEF TypeOK
<1> DEFINE Goal == /\ pc'[t] \in {"deviceAdopt", "deviceClear"} => op'[t].as = Gadget
                   /\ pc'[t] \in SigningIn /\ op'[t].alone => OthersRest(t)' /\ Adopted(t)'
<1>b. \A u \in Threads \ {t} : pc'[u] = pc[u]
  BY Frame DEF OthersKeep
<1>c. OthersRest(t) => OthersRest(t)'
  BY <1>b DEF OthersRest, ChangingIdentity
<1> USE GadgetAssumption, NoneAssumption DEF Step, At, Goto, Return, Enter, ReadBearer,
     Resume, credential, scope, refresh, SigningIn, SoleSignIn, Adopted
<1>1. CASE Start(t)
  <2>1. ASSUME NEW label \in {"login", "deviceWire", "logout"}, EnterChange(t, label)
        PROVE  Goal
    <3>1. pc'[t] = label
      BY <2>1, <1>a DEF EnterChange
    <3>2. op'[t] = [Fresh EXCEPT !.alone = ChangingIdentity = {}]
      BY <2>1 DEF EnterChange
    <3>3. op'[t].alone => ChangingIdentity = {}
      BY <3>2 DEF Fresh
    <3> QED
      BY <3>1, <3>3, <1>c DEF OthersRest
  <2>2. CASE Login(t) \/ Device(t) \/ Logout(t)
    BY <2>1, <2>2 DEF Login, Device, Logout
  <2>3. CASE ClearActing(t)
    BY <2>3, <1>a DEF ClearActing
  <2>4. ASSUME NEW tenant \in Tenants, SetActing(t, tenant) \/ SetActingRefused(t, tenant)
        PROVE  Goal
    BY <2>4, <1>a DEF SetActing, SetActingRefused
  <2>5. CASE Refresh(t) \/ Check(t)
    BY <2>5, <1>a DEF Refresh, Check
  <2> QED
    BY <1>1, <2>2, <2>3, <2>4, <2>5 DEF Start
<1>2. CASE SignIn(t)
  <2>1. CASE LoginBuild(t) \/ LoginRefused(t) \/ RecordHome(t)
    BY <2>1, <1>a, <1>c DEF LoginBuild, Fresh, Ops, LoginRefused, RecordHome
  <2>2. CASE Adopt(t)
    BY <2>2, <1>a, <1>c DEF Adopt, Ops
  <2>3. CASE Resolve(t)
    BY <2>3, <1>a, <1>c DEF Resolve, Ops, Loaded
  <2>4. CASE UpdateGate(t)
    BY <2>4, <1>a DEF UpdateGate
  <2>5. CASE DeviceAnswered(t)
    BY <2>5, <1>a, <1>c DEF DeviceAnswered, Ops
  <2>6. CASE DeviceRefused(t)
    BY <2>6, <1>a DEF DeviceRefused
  <2>7. CASE DeviceAdopt(t)
    BY <2>7, <1>a, <1>c DEF DeviceAdopt, Ops
  <2>8. CASE DeviceClear(t)
    BY <2>8, <1>a, <1>c DEF DeviceClear, Ops
  <2>9. ASSUME NEW p \in Principals, NEW user \in BOOLEAN, NEW ids \in BOOLEAN,
            LoginAnswered(t, p, user, ids)
        PROVE  Goal
    BY <2>9, <1>a, <1>c DEF LoginAnswered, Stored, Ops
  <2>10. ASSUME NEW p \in Principals, LoginMalformed(t, p) PROVE Goal
    BY <2>10, <1>a DEF LoginMalformed
  <2> QED
    BY <1>2, <2>1, <2>2, <2>3, <2>4, <2>5, <2>6, <2>7, <2>8, <2>9, <2>10 DEF SignIn
<1>3. CASE SignOut(t)
  BY <1>3, <1>a DEF SignOut, LogoutBuild, LogoutAnswered, LogoutRefused,
       LogoutMark, LogoutReset
<1>4. CASE Refreshing(t)
  BY <1>4, <1>a DEF Refreshing, RefreshLead, RefreshFollow, RefreshUnbuilt,
       RefreshBuild, RefreshAnswered, RefreshRefused, RefreshMark, RefreshPublish, RefreshClear,
       RefreshFollowed
<1>5. CASE Checking(t)
  BY <1>5, <1>a DEF Checking, Lookup, BuildActing, BuildBearer, Decided,
       Unauthorized, CheckFailed, JudgeRefresh, JudgeFail, Put
<1>6. CASE SetActingWrite(t)
  BY <1>6, <1>a DEF SetActingWrite
<1> QED
  BY <1>1, <1>2, <1>3, <1>4, <1>5, <1>6 DEF Advance

LEMMA SoleStep ==
  ASSUME IInv, SoleSignIn, [Next]_vars
  PROVE  SoleSignIn'
<1>1. ASSUME NEW t \in Threads, Start(t) \/ Advance(t), NEW u \in Threads \ {t}
      PROVE  /\ pc'[u] \in {"deviceAdopt", "deviceClear"} => op'[u].as = Gadget
             /\ pc'[u] \in SigningIn /\ op'[u].alone => OthersRest(u)' /\ Adopted(u)'
  <2>1. OthersKeep(u)
    BY <1>1, Frame DEF IInv
  <2>2. ASSUME pc'[u] \in SigningIn, op'[u].alone
        PROVE  OthersRest(u)' /\ Adopted(u)'
    <3>1. OthersRest(u) /\ Adopted(u)
      BY <2>1, <2>2 DEF OthersKeep, SoleSignIn
    <3>2. OthersRest(u)' /\ SameCredential
      BY <1>1, <2>2, <3>1, Apart DEF IInv
    <3> QED
      BY <2>1, <3>1, <3>2 DEF OthersKeep, Adopted, SameCredential
  <2> QED
    BY <2>1, <2>2 DEF OthersKeep, SoleSignIn
<1>2. ASSUME NEW t \in Threads, Start(t) \/ Advance(t) PROVE SoleSignIn'
  BY <1>1, <1>2, SoleHere DEF IInv, SoleSignIn
<1>3. ASSUME UNCHANGED <<pc, op, jar, device, resolved>> PROVE SoleSignIn'
  BY <1>3 DEF SoleSignIn, OthersRest, ChangingIdentity, Adopted
<1>4. ASSUME NEW k \in Acting, Forget(k) PROVE SoleSignIn'
  BY <1>3, <1>4 DEF Forget, credential, scope
<1>5. CASE UNCHANGED vars
  BY <1>3, <1>5 DEF vars, credential, scope
<1> QED
  BY <1>2, <1>4, <1>5 DEF Next, Quiesced, Acting

(* A sign-in that overlapped no other change of identity leaves the client *)
(* its own: the gate, the ids a refresh names, the kind of its credential  *)
(* and, when no device token rode on its request, the cookies themselves.  *)
THEOREM SignInIsWhole == Spec => UncontendedSignInIsWhole
<1>1. Init => SoleSignIn
  BY DEF Init, SoleSignIn, SigningIn
<1>2. IInv /\ SoleSignIn /\ [Next]_vars => SoleSignIn'
  BY SoleStep
<1>3. ASSUME IInv, SoleSignIn, [Next]_vars, NEW t \in Threads,
             pc[t] = "gate", pc'[t] = "idle", op[t].alone
      PROVE  /\ gate' \in {op[t].as, None}
             /\ op[t].as \in Principals =>
                  /\ device' = None
                  /\ op[t].bearer = None => jar' = op[t].as
                  /\ op[t].ids => resolved' = op[t].as
             /\ op[t].as = Gadget => device' = Gadget
  <2>1. Adopted(t)
    BY <1>3 DEF SoleSignIn, SigningIn
  <2>2. UpdateGate(t)
    <3>1. ASSUME NEW u \in Threads, Start(u) \/ Advance(u) PROVE u = t
      <4>1. u # t => pc'[t] = pc[t]
        BY <1>3, <3>1, Frame DEF IInv, OthersKeep
      <4> QED
        BY <1>3, <4>1
    <3>2. Start(t) \/ Advance(t)
      BY <1>3, <3>1 DEF Next, Forget, Quiesced, vars
    <3> QED
      BY <1>3, <3>2 DEF Start, Advance, SignIn, SignOut, Refreshing, Checking,
           Login, Device, Logout, Refresh, Check, ClearActing, SetActing, SetActingRefused,
           Enter, EnterChange, Step, At, LoginBuild, LoginAnswered, LoginMalformed,
           LoginRefused, RecordHome, Adopt, Resolve, DeviceAnswered, DeviceRefused,
           DeviceAdopt, DeviceClear, LogoutBuild, LogoutAnswered, LogoutRefused, LogoutMark,
           LogoutReset, SetActingWrite, RefreshLead, RefreshFollow, RefreshUnbuilt,
           RefreshBuild, RefreshAnswered, RefreshRefused, RefreshMark, RefreshPublish,
           RefreshClear, RefreshFollowed, Lookup, BuildActing, BuildBearer, Decided,
           Unauthorized, CheckFailed, JudgeRefresh, JudgeFail, Put
  <2> QED
    BY <1>3, <2>1, <2>2 DEF UpdateGate, Adopted, credential
<1>4. IInv /\ SoleSignIn /\ [Next]_vars =>
        [\A t \in Threads :
           pc[t] = "gate" /\ pc'[t] = "idle" /\ op[t].alone =>
             /\ gate' \in {op[t].as, None}
             /\ op[t].as \in Principals =>
                  /\ device' = None
                  /\ op[t].bearer = None => jar' = op[t].as
                  /\ op[t].ids => resolved' = op[t].as
             /\ op[t].as = Gadget => device' = Gadget]_vars
  BY <1>3
<1> QED
  BY <1>1, <1>2, <1>4, Inductive, PTL DEF Spec, UncontendedSignInIsWhole
=============================================================================
