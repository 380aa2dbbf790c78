------------------------- MODULE RequestPathProofs -------------------------
(***************************************************************************)
(* Proofs about RequestPath, for any number of requests, keys and amounts: *)
(* the wallet is exact and not overspent, what was served is paid for,     *)
(* every request the pool gave an account has one billing record, and the  *)
(* sweep of the semaphores never lets an api key exceed its concurrency.   *)
(* Then about the model that a request's name is routed to (ModelRegistry),*)
(* for any handlers, names, lists, rules and prices, and about what a      *)
(* conversation becomes upstream (Shaping), for any length, texts and      *)
(* clients.                                                                *)
(***************************************************************************)
EXTENDS RequestPath, ModelRegistry, Shaping, FiniteSetTheorems,
        FunctionTheorems, SequenceTheorems, WellFoundedInduction, TLAPS

\* The part of the type invariant the wallet depends on.
WalletTypeOK ==
    /\ credited \in Nat /\ used \in Nat /\ overshoot \in Nat
    /\ hold \in [Requests -> Nat]

WalletInv == WalletTypeOK /\ NoOverspend

\* Holds, amounts and the first credit are numbers.
LEMMA HoldsNat == Holds \subseteq Nat /\ Amounts \subseteq Nat /\ InitialCredit \in Nat
BY PathAssumption

\* A number cut off at 0 is natural and no smaller than it was.
LEMMA Clamped ==
    ASSUME NEW n \in Int
    PROVE  AtLeastZero(n) \in Nat /\ AtLeastZero(n) >= n
BY DEF AtLeastZero

\* A settlement adds to used at most what it adds to overshoot.
LEMMA SettleKeepsWalletInv ==
    ASSUME WalletInv, NEW r \in Requests, NEW actual \in Nat, QuotaSettle(r, actual)
    PROVE  WalletInv'
<1> DEFINE over == AtLeastZero(actual - hold[r])
<1> USE DEF WalletInv, WalletTypeOK, QuotaSettle
<1>1. hold[r] \in Nat /\ hold' \in [Requests -> Nat]
  OBVIOUS
<1>2. over \in Nat /\ over >= actual - hold[r]
  BY <1>1, Clamped
<1>3. used' \in Nat /\ (used' = 0 \/ used' = used - hold[r] + actual)
  BY <1>1 DEF AtLeastZero
<1>4. overshoot' = overshoot + over /\ credited' = credited
  OBVIOUS
<1>5. NoOverspend'
  BY <1>1, <1>2, <1>3, <1>4 DEF NoOverspend
<1> HIDE DEF over
<1> QED BY <1>1, <1>2, <1>3, <1>4, <1>5

\* A step that leaves the wallet alone keeps its invariant.
LEMMA WalletSame ==
    ASSUME WalletInv, UNCHANGED <<credited, used, overshoot, hold>>
    PROVE  WalletInv'
BY DEF WalletInv, WalletTypeOK, NoOverspend

\* The steps of a request that touch the wallet are the admission, the release
\* for a busy key and the settlement.
LEMMA RequestKeepsWalletInv ==
    ASSUME WalletInv, NEW r \in Requests, RequestStep(r)
    PROVE  WalletInv'
<1>1. CASE QuotaAdmit(r)
  <2>1. PICK h \in Holds : /\ used + h <= credited
                           /\ used' = used + h
                           /\ hold' = [hold EXCEPT ![r] = h]
    BY <1>1 DEF QuotaAdmit
  <2>2. h \in Nat /\ UNCHANGED <<credited, overshoot>>
    BY <1>1, HoldsNat DEF QuotaAdmit
  <2> QED BY <2>1, <2>2 DEF WalletInv, WalletTypeOK, NoOverspend
<1>2. CASE KeyBusy(r)
  <2>1. \/ UNCHANGED <<wallet, hold>>
        \/ QuotaSettle(r, 0)
    BY <1>2 DEF KeyBusy, QuotaSettleFails
  <2> QED BY <2>1, WalletSame, SettleKeepsWalletInv DEF wallet
<1>3. CASE Settle(r)
  <2>1. \/ UNCHANGED <<wallet, hold>>
        \/ \E actual \in Amounts : QuotaSettle(r, actual)
    BY <1>3 DEF Settle, QuotaSettleFails
  <2> QED BY <2>1, WalletSame, SettleKeepsWalletInv, HoldsNat DEF wallet
<1>4. CASE AuthCard(r) \/ AuthApiKey(r) \/ AuthPortalKey(r) \/ QuotaRefuse(r)
  BY <1>4, WalletSame
     DEF AuthCard, AuthApiKey, AuthPortalKey, QuotaRefuse, TakeCard, Refuse, Step, wallet
<1>5. CASE KeySemaphore(r) \/ KeyPermit(r) \/ Validate(r) \/ PoolAnswers(r)
  BY <1>5, WalletSame DEF KeySemaphore, KeyPermit, Validate, PoolAnswers, Refuse, Step, wallet
<1>6. CASE Exhausted(r) \/ AwaitFull(r) \/ Spawn(r) \/ Frame(r) \/ StreamStops(r)
  BY <1>6, WalletSame
     DEF Exhausted, AwaitFull, Spawn, Frame, StreamStops, RecordAndLeave, Step, wallet
<1>7. CASE FullStops(r) \/ FullEmpty(r) \/ Record(r) \/ Dropped(r)
  BY <1>7, WalletSame DEF FullStops, FullEmpty, Record, Dropped, RecordAndLeave, wallet
<1> QED BY <1>1, <1>2, <1>3, <1>4, <1>5, <1>6, <1>7 DEF RequestStep

\* Credits and adjustments keep it.
LEMMA CreditKeepsWalletInv ==
    ASSUME WalletInv, QuotaCredit
    PROVE  WalletInv'
<1>1. PICK n \in Amounts \ {0} :
          \/ credited' = credited + n /\ UNCHANGED used
          \/ used' = AtLeastZero(used - n) /\ UNCHANGED credited
  BY DEF QuotaCredit
<1>2. n \in Nat /\ UNCHANGED <<overshoot, hold>>
  BY HoldsNat DEF QuotaCredit, request
<1>3. CASE credited' = credited + n /\ UNCHANGED used
  BY <1>2, <1>3 DEF WalletInv, WalletTypeOK, NoOverspend
<1>4. CASE used' = AtLeastZero(used - n) /\ UNCHANGED credited
  BY <1>2, <1>4 DEF WalletInv, WalletTypeOK, NoOverspend, AtLeastZero
<1> QED BY <1>1, <1>3, <1>4

\* Whatever keys of the user admit requests at the same time, the wallet is
\* overdrawn by no more than what answers cost above their estimates
\* (quota_admit and quota_settle in src/cards.rs).
THEOREM WalletNotOverspent == Spec => []NoOverspend
<1>1. Init => WalletInv
  BY HoldsNat DEF Init, WalletInv, WalletTypeOK, NoOverspend
<1>2. WalletInv /\ [Next]_vars => WalletInv'
  <2> SUFFICES ASSUME WalletInv, [Next]_vars PROVE WalletInv'
    OBVIOUS
  <2>1. CASE \E r \in Requests : RequestStep(r)
    BY <2>1, RequestKeepsWalletInv
  <2>2. CASE QuotaCredit
    BY <2>2, CreditKeepsWalletInv
  <2>3. CASE SweepReads \/ SweepDrops \/ EditApiKeys \/ Crash
    BY <2>3, WalletSame DEF SweepReads, SweepDrops, EditApiKeys, Crash, wallet, request
  <2>4. CASE UNCHANGED vars
    BY <2>4, WalletSame DEF vars, wallet, request
  <2> QED BY <2>1, <2>2, <2>3, <2>4 DEF Next
<1>3. WalletInv => NoOverspend
  BY DEF WalletInv
<1> QED BY <1>1, <1>2, <1>3, PTL DEF Spec
----------------------------------------------------------------------------
(* Where a request stands, and what it has done so far. *)

AfterGrant == {"upstream", "stream", "full", "settle", "record"}

Standing(r) ==
    /\ pc[r] # "done" =>
          /\ records[r] = 0 /\ exit[r] # "cut"
          /\ granted[r] <=> pc[r] \in AfterGrant
          /\ served[r] => pc[r] \in {"stream", "settle", "record"}
          /\ claim[r] # "refunded"
    /\ pc[r] = "record" => claim[r] \in {"none", "settled", "failed"}

PathTypeOK ==
    /\ pc \in [Requests -> Label]
    /\ claim \in [Requests -> Claim]
    /\ records \in [Requests -> Nat]
    /\ granted \in [Requests -> BOOLEAN]
    /\ served \in [Requests -> BOOLEAN]
    /\ exit \in [Requests -> Exit]

PathInv ==
    /\ PathTypeOK
    /\ \A r \in Requests : Standing(r)
    /\ ServedIsPaid
    /\ RecordedOnce

\* A step of one request: the others stand as they did.
LEMMA OneRequestMoves ==
    ASSUME PathInv, PathTypeOK', NEW r \in Requests,
           \A q \in Requests \ {r} :
               /\ pc'[q] = pc[q] /\ claim'[q] = claim[q] /\ records'[q] = records[q]
               /\ granted'[q] = granted[q] /\ served'[q] = served[q] /\ exit'[q] = exit[q],
           Standing(r)',
           pc'[r] = "done" =>
               /\ records'[r] = IF granted'[r] /\ exit'[r] # "cut" THEN 1 ELSE 0
               /\ served'[r] /\ exit'[r] # "cut" => claim'[r] \in {"none", "settled", "failed"}
    PROVE  PathInv'
<1>1. \A q \in Requests : Standing(q)'
  BY DEF PathInv, Standing
<1>2. ServedIsPaid'
  BY DEF PathInv, ServedIsPaid
<1>3. RecordedOnce'
  BY DEF PathInv, RecordedOnce
<1> QED BY <1>1, <1>2, <1>3 DEF PathInv

\* A gate refuses: nothing was served, granted or recorded.
LEMMA RefusalStands ==
    ASSUME PathInv, NEW r \in Requests, NEW how \in Exit \ {"cut"}, Refuse(r, how),
           pc[r] \notin AfterGrant \cup {"done"}
    PROVE  PathInv'
<1> USE DEF PathInv, PathTypeOK, Standing, Refuse, Leave, Goto, Unwound, Label, Claim, AfterGrant
<1>1. PathTypeOK'
  OBVIOUS
<1>2. Standing(r)'
  OBVIOUS
<1>3. records'[r] = 0 /\ ~granted'[r] /\ ~served'[r] /\ pc'[r] = "done"
  OBVIOUS
<1> QED BY ONLY PathInv, how \in Exit, Refuse(r, how), <1>1, <1>2, <1>3, OneRequestMoves
        DEF Refuse, Leave, Goto, Unwound, PathInv, PathTypeOK

\* A recorded exit that has nothing to pay for, or has paid.
LEMMA RecordedExitStands ==
    ASSUME PathInv, NEW r \in Requests, NEW how \in Exit \ {"cut"}, RecordAndLeave(r, how),
           pc[r] \in AfterGrant,
           served[r] => pc[r] = "record"
    PROVE  PathInv'
<1> USE DEF PathInv, PathTypeOK, Standing, RecordAndLeave, Leave, Goto, Unwound, Label, Claim,
            AfterGrant
<1>1. PathTypeOK'
  OBVIOUS
<1>2. Standing(r)'
  OBVIOUS
<1>3. /\ records'[r] = 1 /\ granted'[r] /\ exit'[r] # "cut"
      /\ served'[r] => claim'[r] \in {"none", "settled", "failed"}
  OBVIOUS
<1> QED BY ONLY PathInv, how \in Exit, RecordAndLeave(r, how), <1>1, <1>2, <1>3, OneRequestMoves
        DEF RecordAndLeave, Leave, Goto, Unwound, PathInv, PathTypeOK

\* A step inside the handler or the task, by its label.
LEMMA InnerStepStands ==
    ASSUME PathInv, NEW r \in Requests, NEW label \in Label \ {"done"}, Step(r, label),
           pc[r] # "done",
           label \in AfterGrant <=> pc[r] \in AfterGrant,
           label # "record",
           served[r] => label \in {"stream", "settle"}
    PROVE  PathInv'
<1>1. PathTypeOK'
  BY DEF PathInv, PathTypeOK, Step, Goto
<1>2. Standing(r)'
  BY DEF PathInv, PathTypeOK, Standing, Step, Goto
<1>3. pc'[r] # "done"
  BY DEF PathInv, PathTypeOK, Step, Goto
<1> QED BY <1>1, <1>2, <1>3, OneRequestMoves DEF PathInv, PathTypeOK, Step, Goto

\* The gates.
LEMMA GatesStand ==
    ASSUME PathInv, NEW r \in Requests,
           \/ AuthCard(r) \/ AuthApiKey(r) \/ AuthPortalKey(r)
           \/ QuotaAdmit(r) \/ QuotaRefuse(r) \/ KeySemaphore(r) \/ KeyPermit(r) \/ KeyBusy(r)
    PROVE  PathInv'
<1>1. pc[r] \in {"arrived", "admit", "sem", "try"}
  BY DEF AuthCard, AuthApiKey, AuthPortalKey, QuotaAdmit, QuotaRefuse, KeySemaphore, KeyPermit,
         KeyBusy
<1>2. ~served[r] /\ ~granted[r] /\ exit[r] # "cut" /\ records[r] = 0 /\ claim[r] # "refunded"
  BY <1>1 DEF PathInv, PathTypeOK, Standing, AfterGrant
<1>3. CASE Refuse(r, "gate")
  BY <1>1, <1>3, RefusalStands DEF AfterGrant, Exit
<1>4. CASE \E label \in Label \ AfterGrant :
              /\ label # "done"
              /\ pc' = [pc EXCEPT ![r] = label]
              /\ \/ UNCHANGED claim
                 \/ \E c \in {"card", "quota"} : claim' = [claim EXCEPT ![r] = c]
              /\ UNCHANGED <<granted, served, exit, records>>
  <2>1. PathTypeOK'
    BY <1>4 DEF PathInv, PathTypeOK, Claim
  <2>2. Standing(r)' /\ pc'[r] # "done"
    BY <1>2, <1>4, <2>1 DEF PathInv, PathTypeOK, Standing, AfterGrant
  <2> QED BY <1>4, <2>1, <2>2, OneRequestMoves DEF PathInv, PathTypeOK
<1>5. CASE KeyBusy(r)
  <2>1. /\ pc' = [pc EXCEPT ![r] = "done"]
        /\ \/ UNCHANGED claim
           \/ \E c \in {"refunded", "failed"} : claim' = [claim EXCEPT ![r] = c]
        /\ exit' = [exit EXCEPT ![r] = "busy"]
        /\ UNCHANGED <<granted, served, records>>
    BY <1>5 DEF KeyBusy, Goto
  <2>2. PathTypeOK'
    BY <2>1 DEF PathInv, PathTypeOK, Claim, Label, Exit
  <2>3. Standing(r)' /\ records'[r] = 0 /\ ~granted'[r] /\ ~served'[r]
    BY <1>2, <2>1 DEF PathInv, PathTypeOK, Standing
  <2> QED BY <2>1, <2>2, <2>3, OneRequestMoves DEF PathInv, PathTypeOK
<1>6. CASE AuthCard(r)
  BY <1>3, <1>4, <1>6 DEF AuthCard, TakeCard, Goto, Label, AfterGrant
<1>7. CASE AuthApiKey(r)
  BY <1>3, <1>4, <1>7 DEF AuthApiKey, Step, Goto, Label, AfterGrant
<1>8. CASE AuthPortalKey(r)
  BY <1>3, <1>4, <1>8 DEF AuthPortalKey, TakeCard, Goto, Label, AfterGrant
<1>9. CASE QuotaAdmit(r)
  BY <1>4, <1>9 DEF QuotaAdmit, Goto, Label, AfterGrant
<1>10. CASE QuotaRefuse(r)
  BY <1>3, <1>10 DEF QuotaRefuse
<1>11. CASE KeySemaphore(r)
  BY <1>4, <1>11 DEF KeySemaphore, Goto, Label, AfterGrant
<1>12. CASE KeyPermit(r)
  BY <1>4, <1>12 DEF KeyPermit, Step, Goto, Label, AfterGrant
<1> QED BY <1>5, <1>6, <1>7, <1>8, <1>9, <1>10, <1>11, <1>12

\* The handler after the gates, and the stream task.
LEMMA HandlerStands ==
    ASSUME PathInv, NEW r \in Requests,
           \/ Validate(r) \/ PoolAnswers(r) \/ Exhausted(r) \/ AwaitFull(r) \/ Spawn(r)
           \/ Frame(r) \/ StreamStops(r) \/ FullStops(r) \/ FullEmpty(r)
           \/ Settle(r) \/ Record(r) \/ Dropped(r)
    PROVE  PathInv'
<1>1. CASE Validate(r)
  BY <1>1, RefusalStands, InnerStepStands
     DEF Validate, AfterGrant, Label, Exit, PathInv, PathTypeOK, Standing
<1>2. CASE PoolAnswers(r)
  <2>1. CASE Refuse(r, "refused")
    BY <1>2, <2>1, RefusalStands DEF PoolAnswers, AfterGrant, Exit
  <2>2. CASE ~Refuse(r, "refused")
    <3>1. /\ pc[r] = "pool" /\ pc' = [pc EXCEPT ![r] = "upstream"]
          /\ granted' = [granted EXCEPT ![r] = TRUE]
          /\ UNCHANGED <<claim, served, exit, records>>
      BY <1>2, <2>2 DEF PoolAnswers, Goto
    <3>2. PathTypeOK'
      BY <3>1 DEF PathInv, PathTypeOK, Label
    <3>3. Standing(r)' /\ pc'[r] # "done"
      BY <3>1 DEF PathInv, PathTypeOK, Standing, AfterGrant
    <3> QED BY <3>1, <3>2, <3>3, OneRequestMoves DEF PathInv, PathTypeOK
  <2> QED BY <2>1, <2>2
<1>3. CASE Exhausted(r) \/ FullEmpty(r) \/ Record(r)
  BY <1>3, RecordedExitStands DEF Exhausted, FullEmpty, Record, AfterGrant, Exit, PathInv, Standing
<1>4. CASE AwaitFull(r) \/ StreamStops(r)
  BY <1>4, InnerStepStands DEF AwaitFull, StreamStops, AfterGrant, Label, PathInv, Standing
<1>5. CASE Spawn(r) \/ Frame(r) \/ FullStops(r)
  <2>1. /\ pc[r] \in {"upstream", "stream", "full"}
        /\ \E label \in {"stream", "settle"} : pc' = [pc EXCEPT ![r] = label]
        /\ \E b \in BOOLEAN : served' = [served EXCEPT ![r] = b]
        /\ UNCHANGED <<claim, granted, exit, records>>
    <3>1. CASE Spawn(r)
      BY <3>1 DEF Spawn, Goto, PathInv, PathTypeOK
    <3>2. CASE Frame(r)
      BY <3>2 DEF Frame, PathInv, PathTypeOK
    <3>3. CASE FullStops(r)
      BY <3>3 DEF FullStops, Goto
    <3> QED BY <1>5, <3>1, <3>2, <3>3
  <2>2. PathTypeOK'
    BY <2>1 DEF PathInv, PathTypeOK, Label
  <2>3. Standing(r)' /\ pc'[r] # "done"
    BY <2>1 DEF PathInv, PathTypeOK, Standing, AfterGrant
  <2> QED BY <2>1, <2>2, <2>3, OneRequestMoves DEF PathInv, PathTypeOK
<1>6. CASE Settle(r)
  <2>1. /\ pc[r] = "settle" /\ pc' = [pc EXCEPT ![r] = "record"]
        /\ \/ UNCHANGED claim /\ claim[r] \notin {"quota", "card"}
           \/ \E c \in {"settled", "failed"} : claim' = [claim EXCEPT ![r] = c]
        /\ UNCHANGED <<granted, served, exit, records>>
    BY <1>6 DEF Settle, Goto
  <2>2. PathTypeOK'
    BY <2>1 DEF PathInv, PathTypeOK, Label, Claim
  <2>3. Standing(r)' /\ pc'[r] # "done"
    BY <2>1 DEF PathInv, PathTypeOK, Standing, AfterGrant, Claim
  <2> QED BY <2>1, <2>2, <2>3, OneRequestMoves DEF PathInv, PathTypeOK
<1>7. CASE Dropped(r)
  <2>1. /\ pc[r] \in {"pool", "upstream", "full"} /\ pc' = [pc EXCEPT ![r] = "done"]
        /\ exit' = [exit EXCEPT ![r] = "cut"]
        /\ claim' = [claim EXCEPT ![r] = Unwound(r)]
        /\ UNCHANGED <<granted, served, records>>
    BY <1>7 DEF Dropped, Leave, Goto
  <2>2. PathTypeOK'
    BY <2>1 DEF PathInv, PathTypeOK, Label, Claim, Unwound, Exit
  <2>3. Standing(r)' /\ records'[r] = 0 /\ exit'[r] = "cut"
    BY <2>1 DEF PathInv, PathTypeOK, Standing
  <2> QED BY <2>1, <2>2, <2>3, OneRequestMoves DEF PathInv, PathTypeOK
<1> QED BY <1>1, <1>2, <1>3, <1>4, <1>5, <1>6, <1>7

\* Requests that had arrived and were under way are cut off by a crash.
LEMMA CrashStands ==
    ASSUME PathInv, Crash
    PROVE  PathInv'
<1> USE DEF PathInv, PathTypeOK, Crash
<1>1. PathTypeOK'
  BY DEF Label, Exit
<1>2. \A r \in Requests : Standing(r)'
  BY DEF Standing, AfterGrant
<1>3. ServedIsPaid' /\ RecordedOnce'
  BY DEF ServedIsPaid, RecordedOnce, Standing, AfterGrant
<1> QED BY <1>1, <1>2, <1>3

\* The invariant of the path holds throughout.
LEMMA PathInvariant == Spec => []PathInv
<1>1. Init => PathInv
  BY DEF Init, PathInv, PathTypeOK, Standing, ServedIsPaid, RecordedOnce, Label, Claim, Exit, AfterGrant
<1>2. PathInv /\ [Next]_vars => PathInv'
  <2> SUFFICES ASSUME PathInv, [Next]_vars PROVE PathInv'
    OBVIOUS
  <2>1. CASE \E r \in Requests : RequestStep(r)
    BY <2>1, GatesStand, HandlerStands DEF RequestStep
  <2>2. CASE Crash
    BY <2>2, CrashStands
  <2>3. CASE QuotaCredit \/ SweepReads \/ SweepDrops \/ EditApiKeys \/ UNCHANGED vars
    <3>1. UNCHANGED request
      BY <2>3 DEF QuotaCredit, SweepReads, SweepDrops, EditApiKeys, vars
    <3> QED BY <3>1 DEF request, PathInv, PathTypeOK, Standing, ServedIsPaid, RecordedOnce
  <2> QED BY <2>1, <2>2, <2>3 DEF Next
<1> QED BY <1>1, <1>2, PTL DEF Spec

\* No way out of the handler or of the stream task lets a request that got its
\* answer go unsettled (the B3 exits of inference_handler_inner).
THEOREM AnswersArePaid == Spec => []ServedIsPaid
<1>1. PathInv => ServedIsPaid
  BY DEF PathInv
<1> QED BY <1>1, PathInvariant, PTL

\* One ledger.record call for every request past the pool, whichever of handler
\* and task ends it, and none for the others (inference_handler_inner).
THEOREM OneRecordEach == Spec => []RecordedOnce
<1>1. PathInv => RecordedOnce
  BY DEF PathInv
<1> QED BY <1>1, PathInvariant, PTL
----------------------------------------------------------------------------
(* Types *)

\* The steps shared by many actions are typed.
LEMMA SharedTyped ==
    ASSUME TypeOK, NEW r \in Requests
    PROVE  /\ \A how \in Exit : Refuse(r, how) => TypeOK'
           /\ \A label \in Label : Step(r, label) => TypeOK'
           /\ \A how \in Exit : RecordAndLeave(r, how) => TypeOK'
           /\ TakeCard(r) => TypeOK'
<1> USE DEF TypeOK, Goto, config, semaphores, wallet
<1>1. ASSUME NEW how \in Exit, Leave(r, how)
      PROVE  /\ pc' \in [Requests -> Label] /\ sem' \in [Requests -> Semaphores \cup {NoSem}]
             /\ claim' \in [Requests -> Claim] /\ exit' \in [Requests -> Exit]
  BY <1>1 DEF Leave, Unwound, Label, Claim
<1>2. ASSUME NEW how \in Exit, Refuse(r, how) PROVE TypeOK'
  BY <1>1, <1>2 DEF Refuse
<1>3. ASSUME NEW label \in Label, Step(r, label) PROVE TypeOK'
  BY <1>3 DEF Step
<1>4. ASSUME NEW how \in Exit, RecordAndLeave(r, how) PROVE TypeOK'
  <2>1. records' \in [Requests -> Nat]
    BY <1>4 DEF RecordAndLeave
  <2> QED BY <1>1, <1>4, <2>1 DEF RecordAndLeave
<1>5. TakeCard(r) => TypeOK'
  BY <1>2 DEF TakeCard, Label, Claim, Exit
<1> QED BY <1>2, <1>3, <1>4, <1>5

\* A settlement is typed.
LEMMA SettleTyped ==
    ASSUME TypeOK, NEW r \in Requests, NEW actual \in Nat, QuotaSettle(r, actual)
    PROVE  /\ credited' \in Nat /\ used' \in Nat
           /\ spent' \in Nat /\ forgiven' \in Nat /\ overshoot' \in Nat
           /\ hold' \in [Requests -> Holds \cup {0}]
<1>0. Holds \cup {0} \subseteq Nat
  BY HoldsNat
<1>1. hold[r] \in Nat /\ used \in Nat /\ spent \in Nat /\ overshoot \in Nat
  BY <1>0 DEF TypeOK
<1>2. used' \in Nat /\ spent' \in Nat /\ overshoot' \in Nat
  BY <1>1, Clamped DEF QuotaSettle
<1> QED BY <1>2 DEF QuotaSettle, TypeOK

\* A semaphore that nothing refers to.
LEMMA FreshSemaphore ==
    ASSUME TypeOK
    PROVE  \E s \in Semaphores : ~InUse(s)
<1> SUFFICES ASSUME \A s \in Semaphores : InUse(s) PROVE FALSE
  OBVIOUS
<1> DEFINE A == {keySem[k] : k \in Keys}
           B == {sem[r] : r \in Requests}
<1>1. IsFiniteSet(A) /\ Cardinality(A) <= Cardinality(Keys)
  <2>1. keySem \in Surjection(Keys, A)
    BY DEF Surjection, TypeOK
  <2> QED BY <2>1, PathAssumption, FS_Surjection
<1>2. IsFiniteSet(B) /\ Cardinality(B) <= Cardinality(Requests)
  <2>1. sem \in Surjection(Requests, B)
    BY DEF Surjection, TypeOK
  <2> QED BY <2>1, PathAssumption, FS_Surjection
<1>3. Semaphores \subseteq A \cup B
  BY DEF InUse
<1> HIDE DEF A, B
<1>4. /\ IsFiniteSet(A \cup B)
      /\ Cardinality(A \cup B) = Cardinality(A) + Cardinality(B) - Cardinality(A \cap B)
  BY <1>1, <1>2, FS_Union
<1>5. /\ Cardinality(A) \in Nat /\ Cardinality(B) \in Nat /\ Cardinality(A \cap B) \in Nat
      /\ Cardinality(Semaphores) \in Nat /\ Cardinality(Requests) \in Nat
      /\ Cardinality(Keys) \in Nat
  <2>1. IsFiniteSet(A \cap B)
    BY <1>1, FS_Subset
  <2> QED BY <1>1, <1>2, <2>1, PathAssumption, FS_CardinalityType
<1>6. Cardinality(Semaphores) <= Cardinality(A \cup B)
  BY <1>3, <1>4, FS_Subset
<1> QED BY <1>1, <1>2, <1>4, <1>5, <1>6, PathAssumption

\* The semaphore a request gets, and what it does to the map.
LEMMA KeySemaphoreTyped ==
    ASSUME TypeOK, NEW r \in Requests, KeySemaphore(r), token[r] \in Keys
    PROVE  \E s \in Semaphores :
             /\ keySem' = [keySem EXCEPT ![token[r]] = s]
             /\ sem' = [sem EXCEPT ![r] = s]
             /\ \/ keySem[token[r]] = s /\ semCap' = semCap
                \/ /\ keySem[token[r]] = NoSem /\ ~InUse(s)
                   /\ semCap' = [semCap EXCEPT ![s] = cap[r]]
<1> DEFINE fresh == CHOOSE s \in Semaphores : ~InUse(s)
           s0 == IF keySem[token[r]] = NoSem THEN fresh ELSE keySem[token[r]]
<1>1. fresh \in Semaphores /\ ~InUse(fresh)
  BY FreshSemaphore
<1>2. /\ keySem' = [keySem EXCEPT ![token[r]] = s0]
      /\ sem' = [sem EXCEPT ![r] = s0]
      /\ semCap' = IF keySem[token[r]] = NoSem THEN [semCap EXCEPT ![s0] = cap[r]] ELSE semCap
  BY DEF KeySemaphore
<1>3. keySem[token[r]] \in Semaphores \cup {NoSem}
  BY DEF TypeOK
<1> HIDE DEF fresh
<1>4. CASE keySem[token[r]] = NoSem
  BY <1>1, <1>2, <1>4
<1>5. CASE keySem[token[r]] # NoSem
  BY <1>2, <1>3, <1>5
<1> QED BY <1>4, <1>5
----------------------------------------------------------------------------
(* Semaphores of keys *)

Door == {"arrived", "admit", "sem"}

\* Requests of a key that is kept share the semaphore in the map.
Shared(k) == \A r \in Requests : token[r] = k /\ sem[r] # NoSem => sem[r] = keySem[k]

\* What a request at a gate has.
AtGate(r) ==
    /\ pc[r] \in {"admit", "sem"} => cap[r] \in Caps
    /\ pc[r] \in {"admit", "sem", "try"} => token[r] \in Keys
    /\ pc[r] = "try" => sem[r] # NoSem
    /\ pc[r] \in Door => sem[r] = NoSem
    /\ pc[r] \in {"arrived", "admit"} => hold[r] = 0

\* The semaphores; the sweep under way spares every key that is kept.
SemOK ==
    /\ \A k \in kept : Shared(k)
    /\ \A active \in sweep : kept \subseteq active
    /\ \A s \in Semaphores : Cardinality(Holders(s)) <= semCap[s]
    /\ \A k \in Keys : keySem[k] # NoSem => semCap[keySem[k]] \in Caps
    /\ \A r \in Requests : AtGate(r)

\* A step of a request that leaves the semaphores to others, or drops its own.
Own(r) ==
    /\ UNCHANGED <<keySem, semCap>>
    /\ pc'[r] # "try"
    /\ sem'[r] = NoSem \/ (sem'[r] = sem[r] /\ pc[r] # "try")
    /\ pc'[r] \in Door => /\ pc[r] \in {"arrived", "admit"} /\ pc'[r] # "arrived"
                          /\ sem'[r] = sem[r]
                          /\ pc'[r] = "admit" => hold'[r] = hold[r] /\ pc[r] = "arrived"
                          /\ \/ cap'[r] \in Caps /\ token[r] \in Keys
                             \/ pc[r] = "admit" /\ cap'[r] = cap[r]

OthersAlone(r) ==
    \A q \in Requests \ {r} : /\ pc'[q] = pc[q] /\ sem'[q] = sem[q] /\ cap'[q] = cap[q]
                              /\ hold'[q] = hold[q]

\* The shapes of a request's step.
LEMMA RequestShape ==
    ASSUME TypeOK, NEW r \in Requests, RequestStep(r)
    PROVE  /\ OthersAlone(r) /\ UNCHANGED <<config, sweep, token, events>>
           /\ Own(r) \/ KeySemaphore(r) \/ KeyPermit(r)
<1> DEFINE Shape == /\ OthersAlone(r) /\ UNCHANGED <<config, sweep, token, events>>
                    /\ Own(r) \/ KeySemaphore(r) \/ KeyPermit(r)
<1> SUFFICES Shape
  OBVIOUS
<1> USE DEF TypeOK, Goto, semaphores, OthersAlone, Own
<1>1. ASSUME NEW how \in Exit, Refuse(r, how) PROVE Shape
  BY <1>1 DEF Refuse, Leave, Door
<1>2. ASSUME NEW label \in Label \ (Door \cup {"try"}), Step(r, label), pc[r] # "try" PROVE Shape
  BY <1>2 DEF Step, Door
<1>3. ASSUME NEW how \in Exit, RecordAndLeave(r, how) PROVE Shape
  BY <1>3 DEF RecordAndLeave, Leave, Door
<1>4. CASE TakeCard(r) /\ pc[r] # "try"
  BY <1>1, <1>4 DEF TakeCard, Door, Exit
<1>5. CASE AuthCard(r)
  BY <1>4, <1>5 DEF AuthCard
<1>6. CASE AuthApiKey(r)
  <2>1. CASE Refuse(r, "gate")
    BY <1>1, <2>1 DEF Exit
  <2>2. CASE Step(r, "parse")
    BY <1>2, <1>6, <2>2 DEF AuthApiKey, Label, Door
  <2>3. CASE ~Refuse(r, "gate") /\ ~Step(r, "parse")
    BY <1>6, <2>3 DEF AuthApiKey, Door, Keys, NoCap
  <2> QED BY <2>1, <2>2, <2>3
<1>7. CASE AuthPortalKey(r)
  <2>1. CASE Refuse(r, "gate")
    BY <1>1, <2>1 DEF Exit
  <2>2. CASE TakeCard(r)
    BY <1>4, <1>7, <2>2 DEF AuthPortalKey
  <2>3. CASE ~Refuse(r, "gate") /\ ~TakeCard(r)
    BY <1>7, <2>3 DEF AuthPortalKey, Door, Keys
  <2> QED BY <2>1, <2>2, <2>3
<1>8. CASE QuotaAdmit(r)
  BY <1>8 DEF QuotaAdmit, Door
<1>9. CASE QuotaRefuse(r)
  BY <1>1, <1>9 DEF QuotaRefuse, Exit
<1>10. CASE KeySemaphore(r)
  BY <1>10 DEF KeySemaphore, wallet
<1>11. CASE KeyPermit(r)
  BY <1>11 DEF KeyPermit, Step
<1>12. CASE KeyBusy(r)
  BY <1>12 DEF KeyBusy, QuotaSettle, QuotaSettleFails, Door
<1>13. CASE Validate(r)
  BY <1>1, <1>2, <1>13 DEF Validate, Label, Door, Exit
<1>14. CASE PoolAnswers(r)
  BY <1>1, <1>14 DEF PoolAnswers, Door, Exit
<1>15. CASE Exhausted(r) \/ FullEmpty(r) \/ Record(r)
  BY <1>3, <1>15 DEF Exhausted, FullEmpty, Record, Exit
<1>16. CASE AwaitFull(r) \/ StreamStops(r)
  BY <1>2, <1>16 DEF AwaitFull, StreamStops, Label, Door
<1>17. CASE Spawn(r) \/ Frame(r) \/ FullStops(r)
  BY <1>17 DEF Spawn, Frame, FullStops, Door
<1>18. CASE Settle(r)
  BY <1>18 DEF Settle, QuotaSettle, QuotaSettleFails, Door
<1>19. CASE Dropped(r)
  BY <1>19 DEF Dropped, Leave, Door
<1> QED BY <1>5, <1>6, <1>7, <1>8, <1>9, <1>10, <1>11, <1>12, <1>13, <1>14, <1>15, <1>16, <1>17,
           <1>18, <1>19 DEF RequestStep

\* Every step of a request is typed.
LEMMA RequestTyped ==
    ASSUME TypeOK, NEW r \in Requests, RequestStep(r), pc[r] = "sem" => AtGate(r)
    PROVE  TypeOK'
<1>0. 0 \in Nat /\ Amounts \subseteq Nat /\ Holds \subseteq Nat
  BY HoldsNat
<1> USE DEF TypeOK, Goto, config, semaphores, wallet
<1>1. CASE \/ AuthCard(r) \/ QuotaRefuse(r) \/ KeyPermit(r) \/ Validate(r) \/ Exhausted(r)
           \/ AwaitFull(r) \/ StreamStops(r) \/ FullEmpty(r) \/ Record(r)
  <2> HIDE DEF TypeOK
  <2> QED BY <1>1, SharedTyped
          DEF AuthCard, QuotaRefuse, KeyPermit, Validate, Exhausted, AwaitFull, StreamStops,
              FullEmpty, Record, Label, Exit
<1>2. CASE AuthApiKey(r)
  <2>1. Refuse(r, "gate") \/ Step(r, "parse") => TypeOK'
    BY SharedTyped DEF Label, Exit
  <2>2. CASE ~Refuse(r, "gate") /\ ~Step(r, "parse")
    BY <1>2, <2>2 DEF AuthApiKey, Label
  <2> QED BY <2>1, <2>2
<1>3. CASE AuthPortalKey(r)
  <2>1. Refuse(r, "gate") \/ TakeCard(r) => TypeOK'
    BY SharedTyped DEF Exit
  <2>2. CASE ~Refuse(r, "gate") /\ ~TakeCard(r)
    BY <1>3, <2>2 DEF AuthPortalKey, Label
  <2> QED BY <2>1, <2>2
<1>4. CASE QuotaAdmit(r)
  <2>1. used' \in Nat /\ hold' \in [Requests -> Holds \cup {0}]
    BY <1>0, <1>4 DEF QuotaAdmit
  <2> QED BY <1>4, <2>1 DEF QuotaAdmit, Label, Claim
<1>5. CASE KeySemaphore(r)
  <2>0. token[r] \in Keys /\ cap[r] \in Caps
    BY <1>5 DEF KeySemaphore, AtGate
  <2>1. PICK s \in Semaphores :
             /\ keySem' = [keySem EXCEPT ![token[r]] = s]
             /\ sem' = [sem EXCEPT ![r] = s]
             /\ semCap' = semCap \/ semCap' = [semCap EXCEPT ![s] = cap[r]]
    BY <1>5, <2>0, KeySemaphoreTyped
  <2>2. semCap' \in [Semaphores -> Caps \cup {0}]
    BY <2>0, <2>1
  <2>3. /\ keySem' \in [Keys -> Semaphores \cup {NoSem}]
        /\ sem' \in [Requests -> Semaphores \cup {NoSem}]
    BY <2>1
  <2>4. pc' \in [Requests -> Label]
    BY <1>5 DEF KeySemaphore, Label
  <2>5. UNCHANGED <<config, sweep, wallet, token, claim, hold, granted, served, exit, records,
                    events>>
    BY <1>5 DEF KeySemaphore
  <2>6. cap' \in [Requests -> Caps \cup {0}]
    BY <1>5 DEF KeySemaphore
  <2> QED BY ONLY <2>2, <2>3, <2>4, <2>5, <2>6, TypeOK DEF TypeOK, config, wallet
<1>6. CASE KeyBusy(r)
  <2>1. /\ credited' \in Nat /\ used' \in Nat
        /\ spent' \in Nat /\ forgiven' \in Nat /\ overshoot' \in Nat
        /\ hold' \in [Requests -> Holds \cup {0}]
    <3>1. UNCHANGED <<wallet, hold>> \/ QuotaSettle(r, 0)
      BY <1>6 DEF KeyBusy, QuotaSettleFails
    <3> QED BY <1>0, <3>1, SettleTyped
  <2>2. claim' \in [Requests -> Claim]
    BY <1>6 DEF KeyBusy, Claim
  <2> QED BY <1>6, <2>1, <2>2 DEF KeyBusy, Label, Exit
<1>7. CASE PoolAnswers(r)
  <2>1. Refuse(r, "refused") => TypeOK'
    BY SharedTyped DEF Exit
  <2>2. CASE ~Refuse(r, "refused")
    BY <1>7, <2>2 DEF PoolAnswers, Label
  <2> QED BY <2>1, <2>2
<1>8. CASE Spawn(r) \/ Frame(r) \/ FullStops(r)
  <2>1. CASE Spawn(r)
    BY <2>1 DEF Spawn, Label
  <2>2. CASE Frame(r)
    BY <2>2 DEF Frame
  <2>3. CASE FullStops(r)
    BY <2>3 DEF FullStops, Label
  <2> QED BY <1>8, <2>1, <2>2, <2>3
<1>9. CASE Settle(r)
  <2>1. /\ credited' \in Nat /\ used' \in Nat
        /\ spent' \in Nat /\ forgiven' \in Nat /\ overshoot' \in Nat
        /\ hold' \in [Requests -> Holds \cup {0}]
    <3>1. UNCHANGED <<wallet, hold>> \/ \E actual \in Amounts : QuotaSettle(r, actual)
      BY <1>9 DEF Settle, QuotaSettleFails
    <3> QED BY <1>0, <3>1, SettleTyped
  <2>2. claim' \in [Requests -> Claim]
    BY <1>9 DEF Settle, Claim
  <2> QED BY <1>9, <2>1, <2>2 DEF Settle, Label
<1>10. CASE Dropped(r)
  BY <1>10 DEF Dropped, Leave, Unwound, Label, Claim, Exit
<1> QED BY <1>1, <1>2, <1>3, <1>4, <1>5, <1>6, <1>7, <1>8, <1>9, <1>10 DEF RequestStep

\* So is everything else.
LEMMA OtherTyped ==
    ASSUME TypeOK, QuotaCredit \/ SweepReads \/ SweepDrops \/ EditApiKeys \/ Crash \/ UNCHANGED vars
    PROVE  TypeOK'
<1>0. Amounts \subseteq Nat /\ MaxEvents \in Nat /\ (events < MaxEvents => events + 1 \in 0..MaxEvents)
  BY PathAssumption DEF TypeOK
<1> USE DEF TypeOK, config, semaphores, wallet, request
<1>1. CASE QuotaCredit
  <2>1. credited' \in Nat /\ used' \in Nat /\ forgiven' \in Nat
    <3>1. PICK n \in Amounts \ {0} :
            \/ credited' = credited + n /\ UNCHANGED <<used, forgiven>>
            \/ /\ used' = AtLeastZero(used - n) /\ forgiven' = forgiven + (used - used')
               /\ UNCHANGED credited
      BY <1>1 DEF QuotaCredit
    <3> QED BY ONLY <1>0, <3>1, TypeOK DEF TypeOK, AtLeastZero
  <2> QED BY <1>0, <1>1, <2>1 DEF QuotaCredit
<1>2. CASE SweepReads
  BY <1>2 DEF SweepReads
<1>3. CASE SweepDrops
  <2>1. keySem' \in [Keys -> Semaphores \cup {NoSem}]
    BY <1>3 DEF SweepDrops
  <2> QED BY <1>3, <2>1 DEF SweepDrops
<1>4. CASE EditApiKeys
  <2>1. /\ apiKeys' \subseteq ApiKeys /\ kept' \subseteq apiKeys'
        /\ apiCap' \in [ApiKeys -> Caps \cup {NoCap}]
    BY <1>4 DEF EditApiKeys, Limits
  <2>2. peak' \in [ApiKeys -> Caps \cup {NoCap}]
    BY <1>4, <2>1 DEF EditApiKeys
  <2> QED BY <1>0, <1>4, <2>1, <2>2 DEF EditApiKeys
<1>5. CASE Crash
  BY <1>0, <1>5 DEF Crash, Label, Exit
<1>6. CASE UNCHANGED vars
  BY <1>6 DEF vars
<1> QED BY <1>1, <1>2, <1>3, <1>4, <1>5, <1>6

\* Holders are requests.
LEMMA HoldersFinite ==
    \A s : /\ IsFiniteSet(Holders(s)) /\ Cardinality(Holders(s)) \in Nat
           /\ IsFiniteSet(Holders(s)') /\ Cardinality(Holders(s)') \in Nat
<1> SUFFICES ASSUME NEW s
             PROVE  /\ IsFiniteSet(Holders(s)) /\ Cardinality(Holders(s)) \in Nat
                    /\ IsFiniteSet(Holders(s)') /\ Cardinality(Holders(s)') \in Nat
  OBVIOUS
<1>1. IsFiniteSet(Holders(s)) /\ IsFiniteSet(Holders(s)')
  BY PathAssumption, FS_Subset DEF Holders
<1> QED BY <1>1, FS_CardinalityType

\* Caps of semaphores are numbers.
LEMMA SemCapNat == ASSUME TypeOK PROVE \A s \in Semaphores : semCap[s] \in Nat
<1>1. Caps \cup {0} \subseteq Nat
  BY PathAssumption
<1> QED BY <1>1 DEF TypeOK

\* Fewer holders, or the same.
LEMMA FewerHolders ==
    ASSUME TypeOK, NEW s \in Semaphores, Cardinality(Holders(s)) <= semCap[s],
           Holders(s)' \subseteq Holders(s)
    PROVE  Cardinality(Holders(s)') <= semCap[s]
<1>1. Cardinality(Holders(s)') <= Cardinality(Holders(s))
  BY HoldersFinite, FS_Subset
<1> QED BY <1>1, HoldersFinite, SemCapNat

\* A request that drops its semaphore, or has none to do with.
LEMMA OwnSem ==
    ASSUME TypeOK, TypeOK', SemOK, NEW r \in Requests, Own(r), OthersAlone(r),
           UNCHANGED <<config, sweep, token>>
    PROVE  SemOK'
<1> USE DEF SemOK
<1>0. sem'[r] = NoSem \/ (sem'[r] = sem[r] /\ pc[r] # "try" /\ pc'[r] # "try")
  BY DEF Own
<1>1. \A k \in kept' : Shared(k)'
  BY <1>0 DEF Shared, Own, OthersAlone, config
<1>2. \A active \in sweep' : kept' \subseteq active
  BY DEF config
<1>3. ASSUME NEW s \in Semaphores PROVE Cardinality(Holders(s)') <= semCap'[s]
  <2>1. Holders(s)' \subseteq Holders(s)
    BY <1>0, PathAssumption DEF Holders, OthersAlone
  <2> QED BY <2>1, FewerHolders DEF Own
<1>4. \A k \in Keys : keySem'[k] # NoSem => semCap'[keySem'[k]] \in Caps
  BY DEF Own
<1>5. AtGate(r)'
  BY DEF Own, AtGate, Door
<1>6. \A q \in Requests : AtGate(q)'
  BY <1>5 DEF OthersAlone, AtGate
<1> QED BY <1>1, <1>2, <1>3, <1>4, <1>6

\* A request gets the semaphore of its key.
LEMMA KeySemaphoreSem ==
    ASSUME TypeOK, SemOK, NEW r \in Requests, KeySemaphore(r), OthersAlone(r),
           UNCHANGED <<config, sweep, token>>
    PROVE  SemOK'
<1> USE DEF SemOK
<1>0. pc[r] = "sem" /\ pc'[r] = "try" /\ sem[r] = NoSem /\ token[r] \in Keys /\ cap[r] \in Caps
  BY DEF KeySemaphore, AtGate, Door, Goto, TypeOK
<1>1. PICK s \in Semaphores :
             /\ keySem' = [keySem EXCEPT ![token[r]] = s]
             /\ sem' = [sem EXCEPT ![r] = s]
             /\ \/ keySem[token[r]] = s /\ semCap' = semCap
                \/ /\ keySem[token[r]] = NoSem /\ ~InUse(s)
                   /\ semCap' = [semCap EXCEPT ![s] = cap[r]]
  BY <1>0, KeySemaphoreTyped
<1>2. /\ keySem'[token[r]] = s /\ \A k \in Keys \ {token[r]} : keySem'[k] = keySem[k]
      /\ sem'[r] = s /\ s # NoSem
  BY <1>0, <1>1, PathAssumption DEF TypeOK
<1>3. ASSUME NEW k \in kept', NEW q \in Requests, token[q] = k, sem'[q] # NoSem
      PROVE  sem'[q] = keySem'[k]
  <2>0. k \in kept /\ k \in Keys
    BY <1>3 DEF config, TypeOK, Keys
  <2>1. CASE q = r
    BY <1>2, <1>3, <2>1
  <2>2. CASE q # r
    <3>1. sem'[q] = sem[q] /\ sem[q] = keySem[k]
      BY <1>3, <2>0, <2>2 DEF OthersAlone, Shared
    <3>2. CASE k = token[r]
      BY <1>1, <1>2, <1>3, <3>1, <3>2
    <3>3. CASE k # token[r]
      BY <1>2, <2>0, <3>1, <3>3
    <3> QED BY <3>2, <3>3
  <2> QED BY <2>1, <2>2
<1>4. \A k \in kept' : Shared(k)'
  BY <1>3 DEF Shared
<1>5. ASSUME NEW u \in Semaphores PROVE Cardinality(Holders(u)') <= semCap'[u]
  <2>1. Holders(u)' \subseteq Holders(u)
    BY <1>0 DEF Holders, OthersAlone
  <2>2. Cardinality(Holders(u)') <= semCap[u]
    BY <2>1, FewerHolders
  <2>3. CASE semCap'[u] = semCap[u]
    BY <2>2, <2>3
  <2>4. CASE u = s /\ ~InUse(s) /\ semCap' = [semCap EXCEPT ![s] = cap[r]]
    <3>1. Holders(u)' = {}
      BY <2>1, <2>4 DEF InUse, Holders
    <3>2. Cardinality(Holders(u)') = 0
      BY <3>1, FS_EmptySet
    <3>3. semCap'[u] \in Nat
      <4>1. semCap'[u] = cap[r] /\ Caps \subseteq Nat
        BY <2>4, PathAssumption DEF TypeOK
      <4> QED BY <1>0, <4>1
    <3> QED BY <3>2, <3>3
  <2> QED BY <1>1, <2>3, <2>4 DEF TypeOK
<1>6. ASSUME NEW k \in Keys, keySem'[k] # NoSem PROVE semCap'[keySem'[k]] \in Caps
  <2>1. CASE semCap' = semCap /\ keySem[token[r]] = s
    BY <1>2, <1>6, <2>1
  <2>2. CASE ~InUse(s) /\ semCap' = [semCap EXCEPT ![s] = cap[r]]
    <3>1. CASE k = token[r]
      BY <1>0, <1>2, <2>2, <3>1 DEF TypeOK
    <3>2. CASE k # token[r]
      <4>1. keySem'[k] = keySem[k] /\ keySem[k] # s /\ keySem[k] \in Semaphores
        BY <1>2, <1>6, <2>2, <3>2 DEF InUse, TypeOK
      <4> QED BY <1>6, <2>2, <4>1 DEF TypeOK
    <3> QED BY <3>1, <3>2
  <2> QED BY <1>1, <2>1, <2>2
<1>7. \A q \in Requests : AtGate(q)'
  <2>1. AtGate(r)'
    BY <1>0, <1>2 DEF AtGate, Door
  <2> QED BY <2>1 DEF OthersAlone, AtGate
<1>8. \A active \in sweep' : kept' \subseteq active
  BY DEF config
<1> QED BY <1>4, <1>5, <1>6, <1>7, <1>8

\* A request takes a permit that is free.
LEMMA KeyPermitSem ==
    ASSUME TypeOK, SemOK, NEW r \in Requests, KeyPermit(r), OthersAlone(r),
           UNCHANGED <<config, sweep, token>>
    PROVE  SemOK'
<1> USE DEF SemOK
<1>0. /\ pc[r] = "try" /\ pc'[r] = "parse" /\ UNCHANGED <<sem, keySem, semCap>>
      /\ Cardinality(Holders(sem[r])) < semCap[sem[r]] /\ sem[r] \in Semaphores
  BY DEF KeyPermit, Step, Goto, TypeOK, semaphores, AtGate
<1>1. ASSUME NEW s \in Semaphores PROVE Cardinality(Holders(s)') <= semCap'[s]
  <2>1. CASE s # sem[r]
    <3>1. Holders(s)' \subseteq Holders(s)
      BY <1>0, <2>1 DEF Holders, OthersAlone
    <3> QED BY <1>0, <3>1, FewerHolders
  <2>2. CASE s = sem[r]
    <3>1. Holders(s)' \subseteq Holders(s) \cup {r}
      BY <1>0 DEF Holders, OthersAlone
    <3>2. IsFiniteSet(Holders(s)) /\ Cardinality(Holders(s)) \in Nat
      BY HoldersFinite
    <3>3. /\ IsFiniteSet(Holders(s) \cup {r})
          /\ \/ Cardinality(Holders(s) \cup {r}) = Cardinality(Holders(s))
             \/ Cardinality(Holders(s) \cup {r}) = Cardinality(Holders(s)) + 1
      BY <3>2, FS_AddElement
    <3>4. Cardinality(Holders(s)') <= Cardinality(Holders(s) \cup {r})
      BY <3>1, <3>3, FS_Subset
    <3>5. Cardinality(Holders(s)') \in Nat /\ semCap[s] \in Nat
      BY HoldersFinite, SemCapNat
    <3> QED BY <1>0, <2>2, <3>2, <3>3, <3>4, <3>5
  <2> QED BY <2>1, <2>2
<1>2. \A k \in kept' : Shared(k)'
  BY <1>0 DEF Shared, config
<1>3. \A q \in Requests : AtGate(q)'
  <2>1. AtGate(r)'
    BY <1>0 DEF AtGate, Door
  <2> QED BY <2>1 DEF OthersAlone, AtGate
<1> QED BY <1>0, <1>1, <1>2, <1>3 DEF config

\* The sweep, the operator and a crash.
LEMMA OtherSem ==
    ASSUME TypeOK, TypeOK', SemOK,
           QuotaCredit \/ SweepReads \/ SweepDrops \/ EditApiKeys \/ Crash \/ UNCHANGED vars
    PROVE  SemOK'
<1> USE DEF SemOK, config, semaphores, request
<1>1. CASE \/ QuotaCredit \/ SweepReads \/ UNCHANGED vars
  <2>1. /\ UNCHANGED <<keySem, semCap, request, kept>>
        /\ sweep' = sweep \/ sweep' = {apiKeys}
    BY <1>1 DEF QuotaCredit, SweepReads, vars
  <2>2. \A s : Holders(s)' = Holders(s)
    BY <2>1 DEF Holders
  <2>3. \A active \in sweep' : kept' \subseteq active
    BY <2>1 DEF TypeOK
  <2> QED BY <2>1, <2>2, <2>3 DEF Shared, AtGate
<1>4. CASE EditApiKeys
  <2>1. /\ UNCHANGED <<keySem, semCap, sweep, request>>
        /\ \A k \in kept' \ kept : /\ \A active \in sweep : k \in active
                                  /\ \A r \in Requests : token[r] = k => sem[r] = NoSem
    BY <1>4 DEF EditApiKeys
  <2>2. \A s : Holders(s)' = Holders(s)
    BY <2>1 DEF Holders
  <2>3. \A k \in kept' : Shared(k)'
    BY <2>1 DEF Shared
  <2>4. \A active \in sweep' : kept' \subseteq active
    BY <2>1
  <2> QED BY <2>1, <2>2, <2>3, <2>4 DEF AtGate
<1>2. CASE SweepDrops
  <2>1. PICK active \in sweep :
          keySem' = [k \in Keys |-> IF k \in active THEN keySem[k] ELSE NoSem]
    BY <1>2 DEF SweepDrops
  <2>2. sweep' = {} /\ UNCHANGED <<semCap, request, kept>>
    BY <1>2 DEF SweepDrops
  <2>3. \A k \in kept : keySem'[k] = keySem[k]
    BY <2>1 DEF TypeOK, Keys
  <2>4. \A k \in Keys : keySem'[k] = keySem[k] \/ keySem'[k] = NoSem
    BY <2>1
  <2>5. \A s : Holders(s)' = Holders(s)
    BY <2>2 DEF Holders
  <2> QED BY <2>2, <2>3, <2>4, <2>5 DEF Shared, AtGate
<1>3. CASE Crash
  <2>1. /\ \A k \in Keys : keySem'[k] = NoSem
        /\ sweep' = {} /\ UNCHANGED <<semCap, cap, token, hold>>
        /\ \A r \in Requests : sem'[r] = NoSem /\ ((pc'[r] = pc[r] /\ pc[r] = "arrived") \/ pc'[r] = "done")
    BY <1>3 DEF Crash
  <2>2. ASSUME NEW s \in Semaphores PROVE Cardinality(Holders(s)') <= semCap'[s]
    <3>1. Holders(s)' \subseteq Holders(s)
      BY <2>1, PathAssumption DEF Holders
    <3> QED BY <2>1, <3>1, FewerHolders
  <2>3. \A r \in Requests : AtGate(r)'
    BY <2>1 DEF AtGate, Door
  <2> QED BY <2>1, <2>2, <2>3 DEF Shared
<1> QED BY <1>1, <1>2, <1>3, <1>4

\* The inductive invariant of ApiKeyCap.
LEMMA SemInvariant == Spec => [](TypeOK /\ SemOK)
<1>1. ASSUME Init PROVE TypeOK /\ SemOK
  <2>1. TypeOK
    <3>1. /\ apiCap \in [ApiKeys -> Caps \cup {NoCap}] /\ peak = apiCap
          /\ apiKeys \in SUBSET ApiKeys /\ kept = apiKeys
      BY <1>1 DEF Init, Limits
    <3> QED BY <1>1, <3>1, PathAssumption DEF Init, TypeOK, Label, Claim, Exit
  <2>2. ASSUME NEW s \in Semaphores PROVE Cardinality(Holders(s)) <= semCap[s]
    <3>1. Holders(s) = {}
      BY <1>1, PathAssumption DEF Init, Holders
    <3> QED BY <1>1, <3>1, FS_EmptySet DEF Init
  <2> QED BY <1>1, <2>1, <2>2 DEF Init, SemOK, Shared, AtGate
<1>2. ASSUME TypeOK, SemOK, [Next]_vars PROVE TypeOK' /\ SemOK'
  <2>1. ASSUME NEW r \in Requests, RequestStep(r) PROVE TypeOK' /\ SemOK'
    <3>1. TypeOK'
      BY <1>2, <2>1, RequestTyped DEF SemOK
    <3>2. /\ OthersAlone(r) /\ UNCHANGED <<config, sweep, token>>
          /\ Own(r) \/ KeySemaphore(r) \/ KeyPermit(r)
      BY <1>2, <2>1, RequestShape
    <3> QED BY <1>2, <3>1, <3>2, OwnSem, KeySemaphoreSem, KeyPermitSem
  <2>2. CASE QuotaCredit \/ SweepReads \/ SweepDrops \/ EditApiKeys \/ Crash \/ UNCHANGED vars
    BY <1>2, <2>2, OtherTyped, OtherSem
  <2> QED BY <1>2, <2>1, <2>2 DEF Next
<1> QED BY <1>1, <1>2, PTL DEF Spec

\* Type correctness: no amount of the wallet becomes negative, and there is always
\* a semaphore that nothing refers to.
THEOREM TypeCorrect == Spec => []TypeOK
BY SemInvariant, PTL

\* What a step of a request does to the caps requests have read.
LEMMA CapRead ==
    ASSUME NEW r \in Requests, RequestStep(r)
    PROVE  \/ UNCHANGED cap
           \/ cap' = [cap EXCEPT ![r] = 0]
           \/ \E c \in Caps : cap' = [cap EXCEPT ![r] = c] /\ token[r] \in PortalKeys
           \/ cap' = [cap EXCEPT ![r] = apiCap[token[r]]] /\ token[r] \in ApiKeys
<1>1. CASE AuthCard(r) \/ AuthApiKey(r) \/ QuotaAdmit(r) \/ QuotaRefuse(r)
  BY <1>1 DEF AuthCard, AuthApiKey, QuotaAdmit, QuotaRefuse, TakeCard, Refuse, Step
<1>2. CASE AuthPortalKey(r)
  BY <1>2 DEF AuthPortalKey, TakeCard, Refuse
<1>3. CASE KeySemaphore(r) \/ KeyPermit(r) \/ KeyBusy(r) \/ Validate(r) \/ PoolAnswers(r)
  BY <1>3 DEF KeySemaphore, KeyPermit, KeyBusy, Validate, PoolAnswers, Refuse, Step
<1>4. CASE Exhausted(r) \/ AwaitFull(r) \/ Spawn(r) \/ Frame(r) \/ StreamStops(r)
  BY <1>4 DEF Exhausted, AwaitFull, Spawn, Frame, StreamStops, RecordAndLeave, Step
<1>5. CASE FullStops(r) \/ FullEmpty(r) \/ Settle(r) \/ Record(r) \/ Dropped(r)
  BY <1>5 DEF FullStops, FullEmpty, Settle, Record, Dropped, RecordAndLeave
<1> QED BY <1>1, <1>2, <1>3, <1>4, <1>5 DEF RequestStep

\* No limit in use is larger than the largest the key has had.
PeakOK ==
    /\ \A k \in ApiKeys : apiCap[k] <= peak[k]
    /\ \A r \in Requests : token[r] \in ApiKeys => cap[r] <= peak[token[r]]
    /\ \A k \in ApiKeys : keySem[k] # NoSem => semCap[keySem[k]] <= peak[k]

\* Limits are numbers.
LEMMA LimitsNat ==
    ASSUME TypeOK
    PROVE  /\ \A k \in ApiKeys : apiCap[k] \in Nat /\ peak[k] \in Nat
           /\ \A r \in Requests : cap[r] \in Nat
<1>1. Caps \cup {0} \subseteq Nat
  BY PathAssumption
<1> QED BY <1>1 DEF TypeOK, NoCap

\* A request reads the limit of its key, and makes a semaphore with it.
LEMMA RequestPeak ==
    ASSUME TypeOK, SemOK, PeakOK, NEW r \in Requests, RequestStep(r)
    PROVE  PeakOK'
<1>1. /\ UNCHANGED <<config, token>>
      /\ Own(r) \/ KeySemaphore(r) \/ KeyPermit(r)
  BY RequestShape
<1>2. UNCHANGED <<apiCap, peak>>
  BY <1>1 DEF config
<1>3. \A q \in Requests : token'[q] \in ApiKeys => cap'[q] <= peak'[token'[q]]
  <2>1. cap \in [Requests -> Caps \cup {0}] /\ PortalKeys \cap ApiKeys = {}
    BY PathAssumption DEF TypeOK
  <2>2. \A k \in ApiKeys : 0 <= peak[k]
    BY LimitsNat
  <2> QED BY <1>1, <1>2, <2>1, <2>2, CapRead DEF PeakOK
<1>4. ASSUME NEW k \in ApiKeys, keySem'[k] # NoSem PROVE semCap'[keySem'[k]] <= peak'[k]
  <2>1. CASE UNCHANGED <<keySem, semCap>>
    BY <1>2, <1>4, <2>1 DEF PeakOK
  <2>2. CASE KeySemaphore(r)
    <3>0. token[r] \in Keys /\ k \in Keys
      BY <2>2 DEF KeySemaphore, SemOK, AtGate, Keys
    <3>1. PICK s \in Semaphores :
               /\ keySem' = [keySem EXCEPT ![token[r]] = s]
               /\ \/ keySem[token[r]] = s /\ semCap' = semCap
                  \/ /\ keySem[token[r]] = NoSem /\ ~InUse(s)
                     /\ semCap' = [semCap EXCEPT ![s] = cap[r]]
      BY <2>2, <3>0, KeySemaphoreTyped
    <3>2. CASE keySem[token[r]] = s /\ semCap' = semCap
      <4>1. keySem' = keySem
        BY <3>0, <3>1, <3>2 DEF TypeOK
      <4> QED BY <1>2, <1>4, <3>2, <4>1 DEF PeakOK
    <3>3. CASE ~InUse(s) /\ semCap' = [semCap EXCEPT ![s] = cap[r]]
      <4>1. CASE k = token[r]
        <5>1. keySem'[k] = s /\ semCap'[s] = cap[r]
          BY <3>0, <3>1, <3>3, <4>1 DEF TypeOK
        <5> QED BY <1>2, <4>1, <5>1 DEF PeakOK
      <4>2. CASE k # token[r]
        <5>1. keySem'[k] = keySem[k] /\ keySem[k] # s /\ keySem[k] \in Semaphores
          BY <1>4, <3>0, <3>1, <3>3, <4>2 DEF InUse, TypeOK
        <5>2. semCap'[keySem[k]] = semCap[keySem[k]]
          BY <3>3, <5>1 DEF TypeOK
        <5> QED BY <1>2, <1>4, <5>1, <5>2 DEF PeakOK
      <4> QED BY <4>1, <4>2
    <3> QED BY <3>1, <3>2, <3>3
  <2> QED BY <1>1, <2>1, <2>2 DEF Own, KeyPermit, Step, semaphores
<1> QED BY <1>2, <1>3, <1>4 DEF PeakOK

\* An edit raises the largest limit with the limit.
LEMMA OtherPeak ==
    ASSUME TypeOK, TypeOK', PeakOK,
           QuotaCredit \/ SweepReads \/ SweepDrops \/ EditApiKeys \/ Crash \/ UNCHANGED vars
    PROVE  PeakOK'
<1>1. CASE QuotaCredit \/ SweepReads \/ UNCHANGED vars
  BY <1>1 DEF QuotaCredit, SweepReads, vars, config, semaphores, request, PeakOK
<1>2. CASE SweepDrops
  <2>1. UNCHANGED <<apiCap, peak, cap, token, semCap>>
    BY <1>2 DEF SweepDrops, config, request
  <2>2. \A k \in ApiKeys : keySem'[k] = keySem[k] \/ keySem'[k] = NoSem
    BY <1>2 DEF SweepDrops, Keys
  <2> QED BY <2>1, <2>2 DEF PeakOK
<1>3. CASE Crash
  <2>1. UNCHANGED <<apiCap, peak, cap, token>> /\ \A k \in ApiKeys : keySem'[k] = NoSem
    BY <1>3 DEF Crash, Keys
  <2> QED BY <2>1 DEF PeakOK
<1>4. CASE EditApiKeys
  <2>1. /\ UNCHANGED <<keySem, semCap, cap, token>>
        /\ peak' = [k \in ApiKeys |-> IF apiCap'[k] > peak[k] THEN apiCap'[k] ELSE peak[k]]
    BY <1>4 DEF EditApiKeys, semaphores, request
  <2>2. \A k \in ApiKeys : apiCap'[k] \in Nat /\ peak[k] \in Nat
    <3>1. Caps \cup {0} \subseteq Nat
      BY PathAssumption
    <3> QED BY <3>1 DEF TypeOK, NoCap
  <2>3. \A k \in ApiKeys : apiCap'[k] <= peak'[k] /\ peak[k] <= peak'[k] /\ peak'[k] \in Nat
    BY <2>1, <2>2
  <2>4. \A r \in Requests : cap[r] \in Nat
    BY LimitsNat
  <2>5. \A k \in Keys : keySem[k] # NoSem => semCap[keySem[k]] \in Nat
    BY SemCapNat DEF TypeOK
  <2>6. \A r \in Requests : token'[r] \in ApiKeys => cap'[r] <= peak'[token'[r]]
    BY <2>1, <2>2, <2>3, <2>4 DEF PeakOK
  <2>7. \A k \in ApiKeys : keySem'[k] # NoSem => semCap'[keySem'[k]] <= peak'[k]
    BY <2>1, <2>2, <2>3, <2>5 DEF PeakOK, Keys
  <2> QED BY <2>3, <2>6, <2>7 DEF PeakOK
<1> QED BY <1>1, <1>2, <1>3, <1>4

\* The invariant of the limits.
LEMMA PeakInvariant == Spec => []PeakOK
<1>1. ASSUME Init PROVE PeakOK
  <2>1. /\ apiCap \in [ApiKeys -> Caps \cup {NoCap}] /\ peak = apiCap
        /\ \A r \in Requests : cap[r] = 0
        /\ \A k \in ApiKeys : keySem[k] = NoSem
    BY <1>1 DEF Init, Limits, Keys
  <2>2. Caps \cup {NoCap} \subseteq Nat
    BY PathAssumption DEF NoCap
  <2>3. \A k \in ApiKeys : apiCap[k] \in Nat
    BY <2>1, <2>2
  <2> QED BY <2>1, <2>3 DEF PeakOK
<1>2. ASSUME TypeOK, TypeOK', SemOK, PeakOK, [Next]_vars PROVE PeakOK'
  BY <1>2, RequestPeak, OtherPeak DEF Next
<1> QED BY <1>1, <1>2, SemInvariant, PTL DEF Spec

\* The 60 s sweep reads the keys and drops semaphores in two steps, requests clone
\* a semaphore before they take its permit, and limits are edited meanwhile:
\* nevertheless the requests of a kept api key stay within its max_concurrency,
\* also of a key that is listed later, or again.
THEOREM ApiKeysCapped == Spec => []ApiKeyCap
<1>1. TypeOK /\ SemOK /\ PeakOK => ApiKeyCap
  <2> SUFFICES ASSUME TypeOK, SemOK, PeakOK, NEW k \in kept
               PROVE  Cardinality(Running(k)) <= peak[k]
    BY DEF ApiKeyCap
  <2>0. k \in ApiKeys /\ k \in Keys /\ peak[k] \in Nat
    BY LimitsNat DEF TypeOK, Keys
  <2>1. CASE Running(k) = {}
    BY <2>0, <2>1, FS_EmptySet
  <2>2. CASE Running(k) # {}
    <3>1. Running(k) \subseteq Holders(keySem[k])
      BY DEF SemOK, Shared, Holders, Running
    <3>2. keySem[k] \in Semaphores /\ keySem[k] # NoSem
      BY <2>0, <2>2, PathAssumption DEF TypeOK, SemOK, Shared, Running
    <3>3. Cardinality(Holders(keySem[k])) <= semCap[keySem[k]] /\ semCap[keySem[k]] <= peak[k]
      BY <2>0, <3>2 DEF SemOK, PeakOK
    <3>4. IsFiniteSet(Holders(keySem[k])) /\ Cardinality(Holders(keySem[k])) \in Nat
      BY HoldersFinite
    <3>5. IsFiniteSet(Running(k)) /\ Cardinality(Running(k)) <= Cardinality(Holders(keySem[k]))
      BY <3>1, <3>4, FS_Subset
    <3>6. Cardinality(Running(k)) \in Nat /\ semCap[keySem[k]] \in Nat
      BY <3>2, <3>5, FS_CardinalityType, SemCapNat
    <3> QED BY ONLY <2>0, <3>3, <3>4, <3>5, <3>6
  <2> QED BY <2>1, <2>2
<1> QED BY <1>1, SemInvariant, PeakInvariant, PTL
----------------------------------------------------------------------------
(* The wallet, exactly *)

\* The units of one request, and of all others.
Row(r, n) == {r} \X (1..n)
Others(f, r) == UNION {{q} \X (1..f[q]) : q \in Requests \ {r}}

NoneOf(r, S) == \A k : <<r, k>> \notin S

\* Adding the units of a request adds their number.
LEMMA RowAdded ==
    ASSUME NEW S, IsFiniteSet(S), NEW r, NEW n \in Nat, NoneOf(r, S)
    PROVE  /\ IsFiniteSet(S \cup Row(r, n))
           /\ Cardinality(S \cup Row(r, n)) = Cardinality(S) + n
<1>1. IsFiniteSet(1..n) /\ Cardinality(1..n) = n
  BY FS_Interval
<1>2. IsFiniteSet({r}) /\ Cardinality({r}) = 1
  BY FS_Singleton
<1>3. IsFiniteSet(Row(r, n)) /\ Cardinality(Row(r, n)) = Cardinality({r}) * Cardinality(1..n)
  BY <1>1, <1>2, FS_Product DEF Row
<1>4. Cardinality(S \cap Row(r, n)) = 0
  <2>1. S \cap Row(r, n) = {}
    BY DEF Row, NoneOf
  <2> QED BY <2>1, FS_EmptySet
<1>5. Cardinality(S) \in Nat /\ Cardinality(Row(r, n)) = n
  BY <1>1, <1>2, <1>3, FS_CardinalityType
<1>6. /\ IsFiniteSet(S \cup Row(r, n))
      /\ Cardinality(S \cup Row(r, n)) =
           Cardinality(S) + Cardinality(Row(r, n)) - Cardinality(S \cap Row(r, n))
  BY <1>3, FS_Union
<1> QED BY <1>4, <1>5, <1>6

\* Finitely many requests have finitely many units.
LEMMA UnitsFinite ==
    ASSUME NEW f \in [Requests -> Nat], NEW r \in Requests
    PROVE  IsFiniteSet(Others(f, r))
<1> DEFINE T == {{q} \X (1..f[q]) : q \in Requests \ {r}}
           g == [q \in Requests \ {r} |-> {q} \X (1..f[q])]
<1>1. g \in Surjection(Requests \ {r}, T)
  BY DEF Surjection
<1>2. IsFiniteSet(Requests \ {r})
  BY PathAssumption, FS_Subset
<1>3. IsFiniteSet(T)
  BY <1>1, <1>2, FS_Surjection
<1>4. ASSUME NEW U \in T PROVE IsFiniteSet(U)
  <2>1. PICK q \in Requests \ {r} : U = {q} \X (1..f[q])
    OBVIOUS
  <2>2. f[q] \in Int /\ 1 \in Int
    OBVIOUS
  <2>3. IsFiniteSet({q}) /\ IsFiniteSet(1..f[q])
    BY <2>2, FS_Singleton, FS_Interval
  <2> QED BY <2>1, <2>3, FS_Product
<1>5. IsFiniteSet(UNION T)
  BY <1>3, <1>4, FS_UNION
<1> QED BY <1>5 DEF Others

\* The share of one request in the sum.
LEMMA TotalSplit ==
    ASSUME NEW f \in [Requests -> Nat], NEW r \in Requests
    PROVE  /\ Total(f) = Cardinality(Others(f, r)) + f[r]
           /\ Cardinality(Others(f, r)) \in Nat
<1>1. IsFiniteSet(Others(f, r)) /\ Cardinality(Others(f, r)) \in Nat
  BY UnitsFinite, FS_CardinalityType
<1>2. NoneOf(r, Others(f, r))
  BY DEF NoneOf, Others
<1>3. Units(f) = Others(f, r) \cup Row(r, f[r])
  BY DEF Units, Others, Row
<1>4. f[r] \in Nat
  OBVIOUS
<1>5. Cardinality(Others(f, r) \cup Row(r, f[r])) = Cardinality(Others(f, r)) + f[r]
  BY <1>1, <1>2, <1>4, RowAdded
<1> QED BY <1>1, <1>3, <1>5 DEF Total

\* Changing what one request holds changes the sum by the difference.
LEMMA TotalChanged ==
    ASSUME NEW f \in [Requests -> Nat], NEW r \in Requests, NEW n \in Nat
    PROVE  /\ Total([f EXCEPT ![r] = n]) = Total(f) - f[r] + n
           /\ Total(f) \in Nat /\ f[r] \in Nat /\ Total(f) >= f[r]
<1> DEFINE g == [f EXCEPT ![r] = n]
<1>1. g \in [Requests -> Nat] /\ g[r] = n /\ f[r] \in Nat
  OBVIOUS
<1>2. Others(g, r) = Others(f, r)
  BY DEF Others
<1> HIDE DEF g
<1>3. /\ Total(f) = Cardinality(Others(f, r)) + f[r]
      /\ Cardinality(Others(f, r)) \in Nat
  BY TotalSplit
<1>4. Total(g) = Cardinality(Others(g, r)) + g[r]
  BY <1>1, TotalSplit
<1>5. /\ Total(g) = Total(f) - f[r] + n /\ Total(f) \in Nat /\ Total(f) >= f[r]
  BY ONLY <1>1, <1>2, <1>3, <1>4, n \in Nat
<1> QED BY <1>1, <1>5 DEF g

\* What a step of a request does to the wallet.
LEMMA RequestWallet ==
    ASSUME NEW r \in Requests, RequestStep(r)
    PROVE  \/ UNCHANGED <<wallet, hold>>
           \/ QuotaAdmit(r)
           \/ \E actual \in Amounts \cup {0} : QuotaSettle(r, actual)
<1>1. CASE KeyBusy(r)
  BY <1>1 DEF KeyBusy, QuotaSettleFails
<1>2. CASE Settle(r)
  BY <1>2 DEF Settle, QuotaSettleFails
<1>3. CASE AuthCard(r) \/ AuthApiKey(r) \/ AuthPortalKey(r) \/ QuotaRefuse(r)
  BY <1>3 DEF AuthCard, AuthApiKey, AuthPortalKey, QuotaRefuse, TakeCard, Refuse, Step
<1>4. CASE KeySemaphore(r) \/ KeyPermit(r) \/ Validate(r) \/ PoolAnswers(r)
  BY <1>4 DEF KeySemaphore, KeyPermit, Validate, PoolAnswers, Refuse, Step
<1>5. CASE Exhausted(r) \/ AwaitFull(r) \/ Spawn(r) \/ Frame(r) \/ StreamStops(r)
  BY <1>5 DEF Exhausted, AwaitFull, Spawn, Frame, StreamStops, RecordAndLeave, Step
<1>6. CASE FullStops(r) \/ FullEmpty(r) \/ Record(r) \/ Dropped(r)
  BY <1>6 DEF FullStops, FullEmpty, Record, Dropped, RecordAndLeave
<1> QED BY <1>1, <1>2, <1>3, <1>4, <1>5, <1>6 DEF RequestStep

\* used_micro against what was settled and every amount that was not released.
WalletSummed ==
    /\ used <= spent + Total(hold)
    /\ used + forgiven >= spent + Total(hold)

\* The sums stay exact.
LEMMA ExactStep == ASSUME TypeOK, SemOK, WalletSummed, [Next]_vars PROVE WalletSummed'
<1>0. /\ hold \in [Requests -> Nat] /\ Amounts \subseteq Nat /\ Holds \subseteq Nat
      /\ used \in Nat /\ spent \in Nat /\ forgiven \in Nat
  <2>1. Holds \cup {0} \subseteq Nat
    BY HoldsNat
  <2> QED BY <2>1, HoldsNat DEF TypeOK
<1>1. CASE UNCHANGED <<used, spent, forgiven, hold>>
  BY <1>1 DEF WalletSummed
<1>2. ASSUME NEW r \in Requests, QuotaAdmit(r) PROVE WalletSummed'
  <2>1. PICK h \in Holds : used' = used + h /\ hold' = [hold EXCEPT ![r] = h]
    BY <1>2 DEF QuotaAdmit
  <2>2. hold[r] = 0 /\ UNCHANGED <<spent, forgiven>> /\ h \in Nat
    BY <1>0, <1>2 DEF QuotaAdmit, SemOK, AtGate
  <2>3. Total(hold') = Total(hold) - hold[r] + h /\ Total(hold) \in Nat
    BY <1>0, <2>1, <2>2, TotalChanged
  <2> QED BY <1>0, <2>1, <2>2, <2>3 DEF WalletSummed
<1>3. ASSUME NEW r \in Requests, NEW actual \in Nat, QuotaSettle(r, actual) PROVE WalletSummed'
  <2>1. /\ used' = AtLeastZero(used - hold[r] + actual) /\ spent' = spent + actual
        /\ hold' = [hold EXCEPT ![r] = 0] /\ UNCHANGED forgiven
    BY <1>3 DEF QuotaSettle
  <2>2. /\ Total(hold') = Total(hold) - hold[r] + 0
        /\ Total(hold) \in Nat /\ hold[r] \in Nat /\ Total(hold) >= hold[r]
    BY <1>0, <2>1, TotalChanged
  <2>3. used <= spent + Total(hold) /\ used + forgiven >= spent + Total(hold)
    BY DEF WalletSummed
  <2>4. used' <= spent' + Total(hold') /\ used' + forgiven' >= spent' + Total(hold')
    BY ONLY <1>0, <2>1, <2>2, <2>3, actual \in Nat DEF AtLeastZero
  <2> QED BY <2>4 DEF WalletSummed
<1>4. CASE QuotaCredit
  <2>1. PICK n \in Amounts \ {0} :
          \/ UNCHANGED <<used, forgiven>>
          \/ used' = AtLeastZero(used - n) /\ forgiven' = forgiven + (used - used')
    BY <1>4 DEF QuotaCredit
  <2>2. UNCHANGED <<spent, hold>>
    BY <1>4 DEF QuotaCredit, request
  <2>3. used <= spent + Total(hold) /\ used + forgiven >= spent + Total(hold)
    BY DEF WalletSummed
  <2>4. CASE used' = AtLeastZero(used - n) /\ forgiven' = forgiven + (used - used')
    <3>0. Total(hold) \in Nat
      <4>1. Cardinality(Units(hold)) \in Nat
        <5>1. CASE Requests = {}
          <6>1. Units(hold) = {}
            BY <5>1 DEF Units
          <6> QED BY <6>1, FS_EmptySet
        <5>2. ASSUME NEW r \in Requests PROVE Cardinality(Units(hold)) \in Nat
          BY <1>0, TotalChanged DEF Total
        <5> QED BY <5>1, <5>2
      <4> QED BY <4>1 DEF Total
    <3>1. n \in Nat
      BY <1>0
    <3>2. used' <= used /\ used' + forgiven' = used + forgiven /\ used' \in Nat
      BY ONLY <1>0, <2>4, <3>1 DEF AtLeastZero
    <3>3. forgiven' \in Int
      BY ONLY <1>0, <2>4, <3>2
    <3>5. used' <= spent + Total(hold)
      BY <1>0, <2>3, <3>0, <3>2
    <3>4. used' <= spent + Total(hold) /\ used' + forgiven' >= spent + Total(hold)
      BY <2>3, <3>2, <3>5
    <3> QED BY <2>2, <3>4 DEF WalletSummed
  <2> QED BY <1>1, <2>1, <2>2, <2>4
<1>5. CASE SweepReads \/ SweepDrops \/ EditApiKeys \/ Crash \/ UNCHANGED vars
  BY <1>1, <1>5 DEF SweepReads, SweepDrops, EditApiKeys, Crash, vars, wallet, request
<1>6. ASSUME NEW r \in Requests, RequestStep(r) PROVE WalletSummed'
  <2>1. UNCHANGED <<wallet, hold>> => WalletSummed'
    BY <1>1 DEF wallet
  <2> QED BY <1>0, <1>2, <1>3, <1>6, <2>1, RequestWallet
<1> QED BY <1>4, <1>5, <1>6 DEF Next

\* A request holds an amount by a claim on the wallet, or because its settlement
\* failed; it takes none along on an exit that is not forgetful.
HeldBy(r) ==
    /\ claim[r] \notin {"quota", "failed"} => hold[r] = 0
    /\ pc[r] \in {"arrived", "admit"} => claim[r] = "none"
    /\ pc[r] = "done" /\ exit[r] \notin Forgetful => claim[r] # "quota"

\* The steps of one request.
LEMMA RequestHeld ==
    ASSUME TypeOK, PathInv, NEW r \in Requests, RequestStep(r), \A q \in Requests : HeldBy(q)
    PROVE  \A q \in Requests : HeldBy(q)'
<1> DEFINE Alone ==
        \A q \in Requests \ {r} : /\ pc'[q] = pc[q] /\ claim'[q] = claim[q]
                                  /\ hold'[q] = hold[q] /\ exit'[q] = exit[q]
<1> SUFFICES Alone /\ HeldBy(r)'
  BY DEF HeldBy
<1>0. HeldBy(r) /\ (pc[r] = "record" => claim[r] \in {"none", "settled", "failed"})
  BY DEF PathInv, Standing
<1> USE <1>0 DEF TypeOK, Goto, HeldBy
<1>1. ASSUME NEW how \in Exit, Refuse(r, how), how \in Forgetful \/ claim[r] # "quota"
      PROVE  Alone /\ HeldBy(r)'
  BY <1>1 DEF Refuse, Leave, Unwound
<1>2. ASSUME NEW label \in Label \ {"arrived", "admit", "done"}, Step(r, label)
      PROVE  Alone /\ HeldBy(r)'
  BY <1>2 DEF Step
<1>3. ASSUME NEW how \in Exit, RecordAndLeave(r, how), how \in Forgetful \/ claim[r] # "quota"
      PROVE  Alone /\ HeldBy(r)'
  BY <1>3 DEF RecordAndLeave, Leave, Unwound
<1>4. CASE TakeCard(r) /\ claim[r] = "none"
  BY <1>1, <1>4 DEF TakeCard, Exit
<1>5. CASE AuthCard(r)
  BY <1>4, <1>5 DEF AuthCard
<1>6. CASE AuthApiKey(r)
  <2>1. CASE Refuse(r, "gate")
    BY <1>1, <1>6, <2>1 DEF AuthApiKey, Exit
  <2>2. CASE Step(r, "parse")
    BY <1>2, <2>2 DEF Label
  <2> QED BY <1>6, <2>1, <2>2 DEF AuthApiKey
<1>7. CASE AuthPortalKey(r)
  <2>1. CASE Refuse(r, "gate")
    BY <1>1, <1>7, <2>1 DEF AuthPortalKey, Exit
  <2>2. CASE TakeCard(r)
    BY <1>4, <1>7, <2>2 DEF AuthPortalKey
  <2> QED BY <1>7, <2>1, <2>2 DEF AuthPortalKey
<1>8. CASE QuotaAdmit(r)
  BY <1>8 DEF QuotaAdmit
<1>9. CASE QuotaRefuse(r)
  BY <1>1, <1>9 DEF QuotaRefuse, Exit
<1>10. CASE KeySemaphore(r)
  BY <1>10 DEF KeySemaphore
<1>11. CASE KeyPermit(r)
  BY <1>2, <1>11 DEF KeyPermit, Label
<1>12. CASE KeyBusy(r)
  BY <1>12 DEF KeyBusy, QuotaSettle, QuotaSettleFails
<1>13. CASE Validate(r) \/ PoolAnswers(r)
  <2>1. CASE Refuse(r, "refused")
    BY <1>1, <2>1 DEF Exit, Forgetful
  <2>2. CASE Step(r, "pool")
    BY <1>2, <2>2 DEF Label
  <2> QED BY <1>13, <2>1, <2>2 DEF Validate, PoolAnswers
<1>14. CASE Exhausted(r)
  BY <1>3, <1>14 DEF Exhausted, Exit, Forgetful
<1>15. CASE AwaitFull(r) \/ StreamStops(r)
  BY <1>2, <1>15 DEF AwaitFull, StreamStops, Label
<1>16. CASE Spawn(r) \/ Frame(r) \/ FullStops(r)
  BY <1>16 DEF Spawn, Frame, FullStops
<1>17. CASE FullEmpty(r)
  BY <1>3, <1>17 DEF FullEmpty, Exit, Forgetful
<1>18. CASE Settle(r)
  BY <1>18 DEF Settle, QuotaSettle, QuotaSettleFails
<1>19. CASE Record(r)
  BY <1>3, <1>19 DEF Record, Exit
<1>20. CASE Dropped(r)
  BY <1>20 DEF Dropped, Leave, Unwound, Forgetful
<1> QED BY <1>5, <1>6, <1>7, <1>8, <1>9, <1>10, <1>11, <1>12, <1>13, <1>14, <1>15, <1>16, <1>17,
           <1>18, <1>19, <1>20 DEF RequestStep

AllHeld == \A r \in Requests : HeldBy(r)

\* Every amount that was not released is owed.
LEMMA HeldInvariant == Spec => []AllHeld
<1>1. Init => AllHeld
  BY DEF Init, AllHeld, HeldBy
<1>2. ASSUME TypeOK, PathInv, AllHeld, [Next]_vars PROVE AllHeld'
  <2> USE DEF AllHeld
  <2>1. CASE \E r \in Requests : RequestStep(r)
    BY <1>2, <2>1, RequestHeld
  <2>2. CASE QuotaCredit \/ SweepReads \/ SweepDrops \/ EditApiKeys \/ UNCHANGED vars
    <3>1. UNCHANGED request
      BY <2>2 DEF QuotaCredit, SweepReads, SweepDrops, EditApiKeys, vars
    <3> QED BY <1>2, <3>1 DEF request, HeldBy
  <2>3. CASE Crash
    <3>1. /\ UNCHANGED <<claim, hold>>
          /\ \A r \in Requests :
                \/ pc[r] \in {"arrived", "done"} /\ pc'[r] = pc[r] /\ exit'[r] = exit[r]
                \/ pc'[r] = "done" /\ exit'[r] = "cut"
      BY <2>3 DEF Crash
    <3> QED BY <1>2, <3>1 DEF HeldBy, Forgetful
  <2> QED BY <1>2, <2>1, <2>2, <2>3 DEF Next
<1> QED BY <1>1, <1>2, SemInvariant, PathInvariant, PTL DEF Spec

\* used_micro is what was settled, and the amounts of the requests under way, of
\* those that left by an exit that forgets them, and of those whose settlement
\* SQLite refused: every other exit of handler and stream task has released or
\* settled, once (quota_admit, quota_settle, quota_credit).
THEOREM WalletIsExact == Spec => []WalletExact
<1>1. Init => WalletSummed
  <2> SUFFICES ASSUME Init PROVE WalletSummed
    OBVIOUS
  <2>1. Units(hold) = {}
    BY DEF Init, Units
  <2>2. Total(hold) = 0
    BY <2>1, FS_EmptySet DEF Total
  <2> QED BY <2>2 DEF Init, WalletSummed
<1>2. TypeOK /\ SemOK /\ WalletSummed /\ [Next]_vars => WalletSummed'
  BY ExactStep
<1>3. ASSUME TypeOK, WalletSummed, AllHeld PROVE WalletExact
  <2>1. hold = [r \in Requests |-> hold[r]]
    BY <1>3 DEF TypeOK
  <2>2. \A r \in Requests : Owing(r) \/ hold[r] = 0
    BY <1>3 DEF Owing, AllHeld, HeldBy
  <2>3. [r \in Requests |-> IF Owing(r) THEN hold[r] ELSE 0] = hold
    BY <2>1, <2>2
  <2> QED BY <1>3, <2>3 DEF WalletExact, WalletSummed
<1> QED BY <1>1, <1>2, <1>3, SemInvariant, HeldInvariant, PTL DEF Spec

------------------------------------------------------------------------------
(* Names. *)

\* A set of natural numbers that is not empty has a least element.
LEMMA LeastNat ==
    ASSUME NEW T \in SUBSET Nat, T # {}
    PROVE  \E x \in T : \A y \in T : x <= y
<1>1. IsWellFoundedOn(OpToRel(<, Nat), Nat)
  BY NatLessThanWellFounded
<1>2. PICK x \in T : \A y \in T : ~ (<<y, x>> \in OpToRel(<, Nat))
  BY <1>1, WFMin
<1>3. \A y \in T : ~ (y < x)
  <2> SUFFICES ASSUME NEW y \in T, y < x PROVE FALSE
    OBVIOUS
  <2>1. <<y, x>> \in OpToRel(<, Nat)
    BY DEF OpToRel
  <2> QED BY <2>1, <1>2
<1> QED BY <1>3

\* The suffixes and "cursor" are segments.
Spelled == VariantSuffixes \cup {"cursor"} \subseteq Segments

\* A segment more makes a longer sequence.
LEMMA Longer ==
    ASSUME NEW s \in Seq(Segments), NEW e \in Segments
    PROVE  /\ Append(s, e) \in Seq(Segments) /\ Append(s, e) # <<>>
           /\ Len(Append(s, e)) = Len(s) + 1
           /\ \A i \in 1..Len(s) : Append(s, e)[i] = s[i]
           /\ Append(s, e)[Len(s) + 1] = e
BY AppendProperties

\* The beginning of a name is a name.
LEMMA Beginning ==
    ASSUME NEW s \in Seq(Segments), NEW k \in 1..Len(s)
    PROVE  /\ SubSeq(s, 1, k) \in Seq(Segments) /\ Len(SubSeq(s, 1, k)) = k
           /\ \A i \in 1..k : SubSeq(s, 1, k)[i] = s[i]
           /\ SubSeq(s, 1, k) # <<>>
<1>1. Len(s) \in Nat /\ \A i \in 1..k : s[i] \in Segments
  BY ElementOfSeq, LenProperties
<1>2. /\ SubSeq(s, 1, k) \in Seq(Segments)
      /\ Len(SubSeq(s, 1, k)) = IF 1 <= k THEN k - 1 + 1 ELSE 0
      /\ \A i \in 1..(k - 1 + 1) : SubSeq(s, 1, k)[i] = s[1 + i - 1]
  BY <1>1, SubSeqProperties
<1>3. Len(SubSeq(s, 1, k)) = k
  BY <1>2
<1>4. SubSeq(s, 1, k) # <<>>
  BY <1>3, EmptySeq
<1>5. \A i \in 1..k : i \in 1..(k - 1 + 1) /\ 1 + i - 1 = i
  OBVIOUS
<1> QED BY <1>2, <1>3, <1>4, <1>5

\* Where the base of a name ends: at its last segment that is no suffix, or
\* after its first.
Ends(m, k) ==
    /\ k \in 1..Len(m)
    /\ k = 1 \/ m[k] \notin VariantSuffixes
    /\ \A i \in 1..Len(m) : i > k => m[i] \in VariantSuffixes

\* The base of a name ends somewhere.
LEMMA BaseEnds ==
    ASSUME NEW m \in Names
    PROVE  \E k : Ends(m, k) /\ family_base(m) = SubSeq(m, 1, k)
<1> DEFINE T == {1} \cup {i \in 1..Len(m) : m[i] \notin VariantSuffixes}
<1>1. m \in Seq(Segments) /\ Len(m) \in Nat /\ Len(m) > 0
  BY EmptySeq DEF Names, Names
<1>2. \A i \in T : i \in 1..Len(m)
  BY <1>1
<1>3. \E x \in T : \A y \in T : x >= y
  <2> DEFINE D == {Len(m) - i : i \in T}
  <2>1. D \in SUBSET Nat /\ D # {}
    BY <1>1, <1>2
  <2>2. PICK d \in D : \A e \in D : d <= e
    BY <2>1, LeastNat
  <2>3. PICK x \in T : d = Len(m) - x
    BY <2>2
  <2>4. ASSUME NEW y \in T PROVE x >= y
    <3>1. d <= Len(m) - y
      BY <2>2
    <3>2. x \in Nat /\ y \in Nat
      BY <1>2
    <3> QED BY <1>1, <2>3, <3>1, <3>2
  <2> QED BY <2>4
<1>4. PICK k : k = Max(T)
  OBVIOUS
<1>5. k \in T /\ \A y \in T : k >= y
  BY <1>3, <1>4 DEF Max
<1>6. family_base(m) = SubSeq(m, 1, k)
  BY <1>4 DEF family_base, VariantSuffixes
<1>7. Ends(m, k)
  <2>1. ASSUME NEW i \in 1..Len(m), i > k PROVE m[i] \in VariantSuffixes
    BY <1>1, <1>2, <1>5, <2>1
  <2> QED BY <1>2, <1>5, <2>1 DEF Ends
<1> QED BY <1>6, <1>7

\* It ends in one place.
LEMMA BaseEnd ==
    ASSUME NEW m \in Names, NEW k, Ends(m, k)
    PROVE  family_base(m) = SubSeq(m, 1, k)
<1>1. PICK j : Ends(m, j) /\ family_base(m) = SubSeq(m, 1, j)
  BY BaseEnds
<1>2. j \in Nat /\ k \in Nat /\ j >= 1 /\ k >= 1
  BY <1>1 DEF Ends
<1>3. ~(j < k) /\ ~(k < j)
  BY <1>1, <1>2 DEF Ends
<1> QED BY <1>1, <1>2, <1>3

\* A base is a name.
LEMMA BaseIsName ==
    ASSUME NEW m \in Names
    PROVE  family_base(m) \in Names
<1>1. PICK k : Ends(m, k) /\ family_base(m) = SubSeq(m, 1, k)
  BY BaseEnds
<1>2. m \in Seq(Segments) /\ k \in 1..Len(m)
  BY <1>1 DEF Ends, Names, Names
<1> QED BY <1>1, <1>2, Beginning DEF Names, Names

\* A name is its own base when it has one segment or does not end in a suffix.
LEMMA OwnBase ==
    ASSUME NEW m \in Names
    PROVE  family_base(m) = m <=> Ends(m, Len(m))
<1>1. m \in Seq(Segments) /\ Len(m) \in Nat /\ Len(m) > 0
  BY EmptySeq DEF Names, Names
<1>2. SubSeq(m, 1, Len(m)) = m
  BY <1>1, SubSeqFull
<1>3. ASSUME Ends(m, Len(m)) PROVE family_base(m) = m
  BY <1>2, <1>3, BaseEnd
<1>4. ASSUME family_base(m) = m PROVE Ends(m, Len(m))
  <2>1. PICK k : Ends(m, k) /\ m = SubSeq(m, 1, k)
    BY <1>4, BaseEnds
  <2>2. k \in 1..Len(m)
    BY <2>1 DEF Ends
  <2>3. Len(SubSeq(m, 1, k)) = k
    BY <1>1, <2>2, Beginning
  <2>4. k = Len(m)
    BY <2>1, <2>3
  <2> QED BY <2>1, <2>4
<1> QED BY <1>3, <1>4

\* A base is its own base.
LEMMA BaseOfBase ==
    ASSUME NEW m \in Names
    PROVE  family_base(family_base(m)) = family_base(m)
<1>1. PICK k : Ends(m, k) /\ family_base(m) = SubSeq(m, 1, k)
  BY BaseEnds
<1>2. PICK b : b = family_base(m)
  OBVIOUS
<1>3. m \in Seq(Segments) /\ k \in 1..Len(m) /\ Len(m) \in Nat
  BY <1>1, LenProperties DEF Ends, Names, Names
<1>4. b \in Names /\ Len(b) = k /\ \A i \in 1..k : b[i] = m[i]
  BY <1>1, <1>2, <1>3, Beginning, BaseIsName
<1>5. Ends(b, Len(b))
  BY <1>1, <1>3, <1>4 DEF Ends
<1> QED BY <1>2, <1>4, <1>5, OwnBase

\* A suffix more does not change the base.
LEMMA BaseOfVariant ==
    ASSUME Spelled, NEW m \in Names, NEW c \in VariantSuffixes
    PROVE  /\ Append(m, c) \in Names
           /\ family_base(Append(m, c)) = family_base(m)
           /\ Len(Append(m, c)) > 1 /\ Append(m, c) # m
           /\ IsStrictPrefix(m, Append(m, c))
<1>1. m \in Seq(Segments) /\ Len(m) \in Nat /\ Len(m) > 0 /\ c \in Segments
  BY EmptySeq DEF Names, Names, Spelled
<1>2. PICK n : n = Append(m, c)
  OBVIOUS
<1>3. /\ n \in Seq(Segments) /\ n # <<>> /\ Len(n) = Len(m) + 1
      /\ \A i \in 1..Len(m) : n[i] = m[i]
      /\ n[Len(m) + 1] = c
  BY <1>1, <1>2, Longer
<1>4. PICK k : Ends(m, k) /\ family_base(m) = SubSeq(m, 1, k)
  BY BaseEnds
<1>5. k \in 1..Len(m)
  BY <1>4 DEF Ends
<1>6. Ends(n, k)
  <2>1. k \in 1..Len(n) /\ (k = 1 \/ n[k] \notin VariantSuffixes)
    BY <1>1, <1>3, <1>4, <1>5 DEF Ends
  <2>2. ASSUME NEW i \in 1..Len(n), i > k PROVE n[i] \in VariantSuffixes
    <3>1. CASE i \in 1..Len(m)
      BY <1>3, <1>4, <2>2, <3>1 DEF Ends
    <3>2. CASE i = Len(m) + 1
      BY <1>3, <3>2
    <3> QED BY <1>1, <1>3, <3>1, <3>2
  <2> QED BY <2>1, <2>2 DEF Ends
<1>7. n \in Names
  BY <1>3 DEF Names, Names
<1>8. family_base(n) = SubSeq(n, 1, k)
  BY <1>6, <1>7, BaseEnd
<1>9. ASSUME NEW l \in 1..Len(m) PROVE SubSeq(n, 1, l) = SubSeq(m, 1, l)
  <2>1. l \in 1..Len(n)
    BY <1>1, <1>3
  <2>2. /\ SubSeq(n, 1, l) \in Seq(Segments) /\ Len(SubSeq(n, 1, l)) = l
        /\ \A i \in 1..l : SubSeq(n, 1, l)[i] = n[i]
    BY <1>3, <2>1, Beginning
  <2>3. /\ SubSeq(m, 1, l) \in Seq(Segments) /\ Len(SubSeq(m, 1, l)) = l
        /\ \A i \in 1..l : SubSeq(m, 1, l)[i] = m[i]
    BY <1>1, Beginning
  <2>4. \A i \in 1..l : SubSeq(n, 1, l)[i] = SubSeq(m, 1, l)[i]
    BY <1>1, <1>3, <2>2, <2>3
  <2> QED BY <2>2, <2>3, <2>4, SeqEqual
<1>10. Len(m) \in 1..Len(m)
  BY <1>1
<1>11. IsStrictPrefix(m, n)
  BY <1>1, <1>3, <1>9, <1>10 DEF IsStrictPrefix, IsPrefix
<1>12. n # m /\ Len(n) > 1
  BY <1>1, <1>3
<1> QED BY <1>2, <1>4, <1>5, <1>7, <1>8, <1>9, <1>11, <1>12

\* A -fast name is the name before its last segment, with "fast" appended.
LEMMA FastName ==
    ASSUME Spelled, NEW m \in Names, IsFast(m)
    PROVE  /\ Front(m) \in Names /\ m = Append(Front(m), "fast")
           /\ family_base(m) # m
           /\ family_base(m) = family_base(Front(m))
<1>1. /\ m \in Seq(Segments) /\ Len(m) \in Nat /\ Len(m) > 1
      /\ m[Len(m)] = "fast" /\ "fast" \in VariantSuffixes /\ "fast" \in Segments
  BY LenProperties DEF Names, Names, IsFast, Last, VariantSuffixes,
                       VariantSuffixes, Spelled
<1>2. PICK f : f = SubSeq(m, 1, Len(m) - 1)
  OBVIOUS
<1>3. Len(m) - 1 \in 1..Len(m)
  BY <1>1
<1>4. /\ f \in Seq(Segments) /\ Len(f) = Len(m) - 1 /\ f # <<>>
      /\ \A i \in 1..(Len(m) - 1) : f[i] = m[i]
  BY <1>1, <1>2, <1>3, Beginning
<1>5. /\ Append(f, "fast") \in Seq(Segments) /\ Len(Append(f, "fast")) = Len(f) + 1
      /\ \A i \in 1..Len(f) : Append(f, "fast")[i] = f[i]
      /\ Append(f, "fast")[Len(f) + 1] = "fast"
  BY <1>1, <1>4, Longer
<1>6. Len(Append(f, "fast")) = Len(m)
  BY <1>1, <1>4, <1>5
<1>7. \A i \in 1..Len(m) : Append(f, "fast")[i] = m[i]
  BY <1>1, <1>4, <1>5
<1>8. Append(f, "fast") = m
  BY <1>1, <1>5, <1>6, <1>7, SeqEqual
<1>9. f = Front(m) /\ f \in Names
  BY <1>2, <1>4 DEF Front, Names, Names
<1>10. ~Ends(m, Len(m))
  BY <1>1 DEF Ends
<1> QED BY <1>1, <1>8, <1>9, <1>10, OwnBase, BaseOfVariant

\* The name with "cursor-" before it; its rule is kept without.
LEMMA CursorName ==
    ASSUME Spelled, NEW m \in Names
    PROVE  /\ Cursor(m) \in Names /\ RuleName(Cursor(m)) = m
           /\ Len(Cursor(m)) > 1 /\ Cursor(m)[1] = "cursor"
           /\ Cursor(m)[2] = m[1]
<1>1. m \in Seq(Segments) /\ Len(m) \in Nat /\ Len(m) > 0
  BY EmptySeq DEF Names, Names
<1>2. <<"cursor">> \in Seq(Segments) /\ Len(<<"cursor">>) = 1 /\ <<"cursor">>[1] = "cursor"
  BY DEF Spelled
<1>3. PICK n : n = <<"cursor">> \o m
  OBVIOUS
<1>4. /\ n \in Seq(Segments) /\ Len(n) = 1 + Len(m)
      /\ \A i \in 1..Len(n) :
            n[i] = IF i <= Len(<<"cursor">>) THEN <<"cursor">>[i] ELSE m[i - Len(<<"cursor">>)]
  BY <1>1, <1>2, <1>3, ConcatProperties
<1>5. n[1] = "cursor" /\ \A i \in 1..Len(m) : n[i + 1] = m[i]
  <2>1. 1 \in 1..Len(n) /\ 1 <= Len(<<"cursor">>)
    BY <1>1, <1>2, <1>4
  <2>2. n[1] = "cursor"
    BY <1>2, <1>4, <2>1
  <2>3. ASSUME NEW i \in 1..Len(m) PROVE n[i + 1] = m[i]
    <3>1. i + 1 \in 1..Len(n) /\ ~(i + 1 <= Len(<<"cursor">>)) /\ i + 1 - Len(<<"cursor">>) = i
      BY <1>1, <1>2, <1>4
    <3> QED BY <1>4, <3>1
  <2> QED BY <2>2, <2>3
<1>6. n # <<>>
  BY <1>1, <1>4, EmptySeq
<1>7. /\ Tail(n) \in Seq(Segments) /\ Len(Tail(n)) = Len(n) - 1
      /\ \A i \in 1..Len(Tail(n)) : Tail(n)[i] = n[i + 1]
  BY <1>4, <1>6, HeadTailProperties
<1>8. Tail(n) = m
  <2>1. Len(Tail(n)) = Len(m)
    BY <1>1, <1>4, <1>7
  <2> QED BY <1>1, <1>5, <1>7, <2>1, SeqEqual
<1>9. Head(n) = "cursor"
  BY <1>4, <1>5, <1>6
<1>10. RuleName(n) = m
  BY <1>1, <1>4, <1>8, <1>9 DEF RuleName
<1>11. n[2] = m[1] /\ Len(n) > 1
  <2>1. 1 \in 1..Len(m) /\ 1 + 1 = 2
    BY <1>1
  <2>2. n[1 + 1] = m[1]
    BY <1>5, <2>1
  <2> QED BY <1>1, <1>4, <2>1, <2>2
<1> QED BY <1>3, <1>4, <1>5, <1>6, <1>10, <1>11 DEF Cursor, Names, Names

------------------------------------------------------------------------------
(* Routing, whatever the entries, rules and prices are. *)

\* Rules with a tier, prices that are numbers.
Ruled(d) == \A f \in DOMAIN d.rules : d.rules[f].tier \in Levels \cup {NoLevel}
Priced(p) == \A u \in DOMAIN p : p[u] \in Nat

\* What Pick tries begins with the level itself.
LEMMA CandidateLevels ==
    ASSUME NEW level \in Levels
    PROVE  LET cs == Candidates(level)
           IN  /\ Len(cs) \in {3, 4} /\ cs[1] = level
               /\ \A i \in 1..Len(cs) : cs[i] \in VariantSuffixes
               /\ \/ \E i \in 1..Len(cs) : cs[i] = "high"
                  \/ \E i, j \in 1..Len(cs) : cs[i] = "low" /\ cs[j] = "medium"
<1>1. level = "max" \/ level = "high" \/ level = "medium" \/ level = "low"
  BY DEF Levels
<1>2. CASE level = "max"
  BY <1>2 DEF Candidates, VariantSuffixes, VariantSuffixes
<1>3. CASE level = "high"
  BY <1>3 DEF Candidates, VariantSuffixes, VariantSuffixes
<1>4. CASE level = "medium"
  BY <1>4 DEF Candidates, VariantSuffixes, VariantSuffixes
<1>5. CASE level = "low"
  BY <1>5 DEF Candidates, VariantSuffixes, VariantSuffixes
<1> QED BY <1>1, <1>2, <1>3, <1>4, <1>5

\* Both a high and a lower variant: each level has a candidate.
AllLevels(base, U) ==
    /\ Append(base, "high") \in U
    /\ {Append(base, "low"), Append(base, "medium")} \cap U # {}

\* Pick takes the first of its candidates that is reported.
LEMMA PickFirst ==
    ASSUME NEW base, NEW level \in Levels, NEW U,
           NEW cs, cs = Candidates(level)
    PROVE  \/ /\ Pick(base, level, U) = <<>>
              /\ \A i \in 1..Len(cs) : Append(base, cs[i]) \notin U
           \/ \E i \in 1..Len(cs) :
                /\ Pick(base, level, U) = Append(base, cs[i])
                /\ Append(base, cs[i]) \in U
                /\ \A j \in 1..Len(cs) : Append(base, cs[j]) \in U => i <= j
<1> DEFINE I == {i \in 1..Len(cs) : Append(base, cs[i]) \in U}
<1>2. Len(cs) \in Nat
  BY CandidateLevels
<1>3. Pick(base, level, U)
        = IF (IF I # {} THEN Min(I) ELSE 0) = 0 THEN <<>>
          ELSE Append(base, cs[IF I # {} THEN Min(I) ELSE 0])
  BY DEF Pick, SelectInSeq
<1>4. ASSUME I # {} PROVE Min(I) \in I /\ \A j \in I : Min(I) <= j
  <2>1. I \in SUBSET Nat
    BY <1>2
  <2>2. \E x \in I : \A y \in I : x <= y
    BY <1>4, <2>1, LeastNat
  <2> HIDE DEF I
  <2> QED BY <2>2 DEF Min
<1>5. CASE I = {}
  <2>1. Pick(base, level, U) = <<>>
    BY <1>3, <1>5
  <2> QED BY <1>5, <2>1
<1>6. CASE I # {}
  <2>1. PICK i : i = Min(I)
    OBVIOUS
  <2>2. i \in I /\ (\A j \in I : i <= j) /\ i # 0 /\ i \in 1..Len(cs)
    BY <1>2, <1>4, <1>6, <2>1
  <2>3. Pick(base, level, U) = Append(base, cs[i])
    BY <1>3, <1>6, <2>1, <2>2
  <2> QED BY <2>2, <2>3
<1> QED BY <1>5, <1>6

\* What Pick returns is a reported variant.
LEMMA Picked ==
    ASSUME NEW base, NEW level \in Levels, NEW U,
           Pick(base, level, U) # <<>>
    PROVE  \E c \in VariantSuffixes : /\ Pick(base, level, U) = Append(base, c)
                             /\ Append(base, c) \in U
<1>1. PICK cs : cs = Candidates(level)
  OBVIOUS
<1>2. \A i \in 1..Len(cs) : cs[i] \in VariantSuffixes
  BY <1>1, CandidateLevels
<1>3. \E i \in 1..Len(cs) : /\ Pick(base, level, U) = Append(base, cs[i])
                            /\ Append(base, cs[i]) \in U
  BY <1>1, PickFirst
<1> QED BY <1>2, <1>3

\* It is the level's own when that is reported.
LEMMA PickedOwn ==
    ASSUME NEW base, NEW level \in Levels, NEW U, Append(base, level) \in U
    PROVE  Pick(base, level, U) = Append(base, level)
<1>1. PICK cs : cs = Candidates(level)
  OBVIOUS
<1>2. cs[1] = level /\ Len(cs) \in Nat /\ 1 \in 1..Len(cs)
  BY <1>1, CandidateLevels
<1>3. PICK i \in 1..Len(cs) : /\ Pick(base, level, U) = Append(base, cs[i])
                              /\ \A j \in 1..Len(cs) : Append(base, cs[j]) \in U => i <= j
  BY <1>1, <1>2, PickFirst
<1>4. i = 1
  BY <1>2, <1>3
<1> QED BY <1>2, <1>3, <1>4

\* And there is one at every level when the family has all levels.
LEMMA PickedSome ==
    ASSUME NEW base, NEW level \in Levels, NEW U, AllLevels(base, U)
    PROVE  \E c \in VariantSuffixes : Pick(base, level, U) = Append(base, c)
<1>1. PICK cs : cs = Candidates(level)
  OBVIOUS
<1>2. /\ \A i \in 1..Len(cs) : cs[i] \in VariantSuffixes
      /\ \/ \E i \in 1..Len(cs) : cs[i] = "high"
         \/ \E i, j \in 1..Len(cs) : cs[i] = "low" /\ cs[j] = "medium"
  BY <1>1, CandidateLevels
<1>3. /\ Append(base, "high") \in U
      /\ Append(base, "low") \in U \/ Append(base, "medium") \in U
  BY DEF AllLevels
<1>4. \E i \in 1..Len(cs) : Append(base, cs[i]) \in U
  BY <1>2, <1>3
<1>5. \E i \in 1..Len(cs) : Pick(base, level, U) = Append(base, cs[i])
  <2>1. \/ \A i \in 1..Len(cs) : Append(base, cs[i]) \notin U
        \/ \E i \in 1..Len(cs) : Pick(base, level, U) = Append(base, cs[i])
    BY <1>1, PickFirst
  <2> QED BY <1>4, <2>1
<1> QED BY <1>2, <1>5

\* The level that is used is a level or none.
LEMMA LevelUsed ==
    ASSUME NEW d, Ruled(d), NEW f, NEW asked \in Levels \cup {NoLevel}
    PROVE  /\ LevelFor(family_rule(d, f), asked)
                \in Levels \cup {NoLevel}
           /\ asked # NoLevel /\ asked \notin family_rule(d, f).blocked
                => LevelFor(family_rule(d, f), asked) = asked
<1>1. family_rule(d, f).tier \in Levels \cup {NoLevel}
  BY DEF family_rule, DefaultRule, Ruled
<1> QED BY <1>1 DEF LevelFor

\* The cheapest variant is a reported variant of the family.
LEMMA CheapestIsVariant ==
    ASSUME NEW base, NEW U, NEW p, Priced(p), Cheapest(base, U, p) # <<>>
    PROVE  /\ Cheapest(base, U, p) \in U
           /\ family_base(Cheapest(base, U, p)) = base
<1> DEFINE P == {u \in U \cap DOMAIN p : family_base(u) = base /\ p[u] > 0}
<1>1. P # {} /\ Cheapest(base, U, p) = CHOOSE u \in P : \A v \in P : p[u] <= p[v]
  BY DEF Cheapest
<1>2. \E u \in P : \A v \in P : p[u] <= p[v]
  <2> DEFINE N == {p[u] : u \in P}
  <2>1. N \in SUBSET Nat /\ N # {}
    BY <1>1 DEF Priced
  <2>2. PICK n \in N : \A k \in N : n <= k
    BY <2>1, LeastNat
  <2>3. PICK u \in P : n = p[u]
    BY <2>2
  <2> QED BY <2>2, <2>3
<1>3. Cheapest(base, U, p) \in P
  <2> HIDE DEF P
  <2> QED BY <1>1, <1>2
<1> QED BY <1>3

\* What a body asks for and suggests are levels.
LEMMA BodyLevels ==
    ASSUME NEW b \in Bodies
    PROVE  /\ b.asked \in Levels \cup {NoLevel}
           /\ b.guess \in Levels
BY DEF Bodies, Levels

\* FamilyVariant answers with a reported variant of the family, with the level
\* asked for when it can, and with some variant when there are all levels.
LEMMA VariantOfFamily ==
    ASSUME Spelled, NEW d, Ruled(d), NEW base \in Names, family_base(base) = base,
           NEW b \in Bodies, NEW U, NEW p, Priced(p),
           NEW v, v = FamilyVariant(d, base, b, U, p)
    PROVE  /\ v # <<>> => v \in U /\ family_base(v) = base
           /\ AllLevels(base, U) => v # <<>>
           /\ (/\ b.asked # NoLevel /\ Append(base, b.asked) \in U
               /\ b.asked \notin family_rule(d, RuleName(base)).blocked)
              => v = Append(base, b.asked)
<1>1. PICK level : level = LevelFor(family_rule(d, RuleName(base)), b.asked)
  OBVIOUS
<1>2. /\ b.asked \in Levels \cup {NoLevel} /\ b.guess \in Levels
      /\ level \in Levels \cup {NoLevel}
      /\ (/\ b.asked # NoLevel
          /\ b.asked \notin family_rule(d, RuleName(base)).blocked)
         => level = b.asked
  BY <1>1, BodyLevels, LevelUsed
<1>3. \A c \in VariantSuffixes : Append(base, c) # <<>> /\ family_base(Append(base, c)) = base
  BY BaseOfVariant DEF Names, Names
<1>4. PICK chosen : chosen = IF level # NoLevel THEN Pick(base, level, U)
                             ELSE OrElse(Cheapest(base, U, p),
                                                Pick(base, b.guess, U))
  OBVIOUS
<1>5. v = OrElse(chosen, IF Append(base, "fast") \in U THEN Append(base, "fast")
                                ELSE <<>>)
  BY <1>1, <1>4 DEF FamilyVariant
<1>6. ASSUME NEW l \in Levels
      PROVE  /\ Pick(base, l, U) # <<>> =>
                  /\ Pick(base, l, U) \in U
                  /\ family_base(Pick(base, l, U)) = base
             /\ AllLevels(base, U) => Pick(base, l, U) # <<>>
  <2>1. PICK q : q = Pick(base, l, U)
    OBVIOUS
  <2>2. ASSUME q # <<>> PROVE q \in U /\ family_base(q) = base
    <3>1. \E c \in VariantSuffixes : q = Append(base, c) /\ Append(base, c) \in U
      BY <2>1, <2>2, Picked
    <3> QED BY <1>3, <3>1
  <2>3. ASSUME AllLevels(base, U) PROVE q # <<>>
    <3>1. \E c \in VariantSuffixes : q = Append(base, c)
      BY <2>1, <2>3, PickedSome
    <3> QED BY <1>3, <3>1
  <2> QED BY <2>1, <2>2, <2>3
<1>7. /\ chosen # <<>> => chosen \in U /\ family_base(chosen) = base
      /\ AllLevels(base, U) => chosen # <<>>
  <2>1. CASE level # NoLevel
    BY <1>2, <1>4, <1>6, <2>1
  <2>2. CASE level = NoLevel
    BY <1>2, <1>4, <1>6, <2>2, CheapestIsVariant DEF OrElse
  <2> QED BY <2>1, <2>2
<1>8. "fast" \in VariantSuffixes
  BY DEF VariantSuffixes
<1>9. ASSUME b.asked # NoLevel, Append(base, b.asked) \in U,
             b.asked \notin family_rule(d, RuleName(base)).blocked
      PROVE  v = Append(base, b.asked)
  <2>1. level = b.asked /\ b.asked \in Levels
    BY <1>2, <1>9
  <2>2. b.asked \in VariantSuffixes
    BY <2>1 DEF Levels, VariantSuffixes, VariantSuffixes
  <2>3. chosen = Append(base, b.asked)
    BY <1>4, <1>9, <2>1, PickedOwn
  <2> QED BY <1>3, <1>5, <2>2, <2>3 DEF OrElse
<1> QED BY <1>3, <1>5, <1>7, <1>8, <1>9 DEF OrElse

\* A family with variants is named by a base.
LEMMA FamilyIsBase ==
    ASSUME NEW U, Reportable(U), NEW base, family_has_variants(base, U)
    PROVE  base \in Names /\ family_base(base) = base
<1>1. PICK u \in U : family_base(u) = base
  BY DEF family_has_variants
<1>2. u \in Names
  BY DEF Reportable, Names
<1> QED BY <1>1, <1>2, BaseOfBase, BaseIsName

\* The upstream does not put "cursor-" before a name that has it.
LEMMA CursorOnce ==
    ASSUME Spelled, NEW U, Reportable(U), NEW m \in Names,
           family_has_variants(Cursor(m), U)
    PROVE  RuleName(m) = m
<1>1. PICK u \in U : IsStrictPrefix(Cursor(m), u)
  BY DEF family_has_variants
<1>2. PICK c : c = Cursor(m)
  OBVIOUS
<1>3. /\ c \in Seq(Segments) /\ Len(c) > 1 /\ Len(c) \in Nat /\ c[1] = "cursor" /\ c[2] = m[1]
  BY <1>2, CursorName, LenProperties DEF Names, Names
<1>4. u \in Seq(Segments) /\ ~(Len(u) > 1 /\ u[1] = "cursor" /\ u[2] = "cursor")
  BY DEF Reportable, Names
<1>5. /\ Len(u) \in Nat /\ Len(c) <= Len(u)
      /\ SubSeq(c, 1, Len(c)) = SubSeq(u, 1, Len(c))
  BY <1>1, <1>2, <1>4, LenProperties DEF IsStrictPrefix, IsPrefix
<1>6. Len(c) \in 1..Len(c) /\ Len(c) \in 1..Len(u) /\ 1 \in 1..Len(c) /\ 2 \in 1..Len(c)
  BY <1>3, <1>5
<1>7. /\ \A i \in 1..Len(c) : SubSeq(c, 1, Len(c))[i] = c[i]
      /\ \A i \in 1..Len(c) : SubSeq(u, 1, Len(c))[i] = u[i]
  BY <1>3, <1>4, <1>6, Beginning
<1>8. u[1] = "cursor" /\ u[2] = m[1] /\ Len(u) > 1
  BY <1>3, <1>5, <1>6, <1>7
<1>9. m[1] # "cursor"
  BY <1>4, <1>8
<1>10. Head(m) = m[1]
  BY DEF Names, Names
<1> QED BY <1>9, <1>10 DEF RuleName

\* A base is routed to a variant of its family, or not at all.
LEMMA BaseRouted ==
    ASSUME Spelled, NEW d, Ruled(d), NEW U, Reportable(U), NEW p, Priced(p),
           NEW m \in Names, NEW b \in Bodies,
           NEW r, r = ResolveBase(d, m, b, U, p), r # <<>>
    PROVE  /\ m \notin U /\ family_base(m) = m
           /\ r \in U /\ Family(r) = Family(m)
<1>1. PICK base : base = IF \/ family_has_variants(m, U)
                            \/ ~family_has_variants(Cursor(m), U)
                         THEN m ELSE Cursor(m)
  OBVIOUS
<1>2. /\ m \notin U /\ family_base(m) = m /\ family_has_variants(base, U)
      /\ r = FamilyVariant(d, base, b, U, p)
  BY <1>1 DEF ResolveBase
<1>3. base \in Names /\ family_base(base) = base
  BY <1>2, FamilyIsBase
<1>4. r \in U /\ family_base(r) = base
  BY <1>2, <1>3, VariantOfFamily
<1>5. RuleName(base) = RuleName(m)
  <2>1. CASE base = m
    BY <2>1
  <2>2. CASE base # m
    <3>1. base = Cursor(m)
      BY <1>1, <2>2
    <3>2. RuleName(base) = m /\ RuleName(m) = m
      BY <1>2, <3>1, CursorName, CursorOnce
    <3> QED BY <3>2
  <2> QED BY <2>1, <2>2
<1> QED BY <1>2, <1>4, <1>5 DEF Family

\* What smart routing puts in the place of a name the upstream reports, and it
\* is of the family that was asked for.
LEMMA Routed ==
    ASSUME Spelled, NEW d, Ruled(d), NEW U, Reportable(U), NEW p, Priced(p),
           NEW m \in Names, NEW b \in Bodies,
           NEW r, r = resolve_smart_model(d, m, b, U, p), r # <<>>
    PROVE  m \notin U /\ r \in U /\ Family(r) = Family(m)
<1>0. m \notin U
  BY DEF resolve_smart_model
<1>1. CASE IsFast(m) /\ family_base(Front(m)) = Front(m)
  <2>1. PICK f : f = Front(m)
    OBVIOUS
  <2>2. f \in Names /\ family_base(m) = family_base(f)
    BY <1>1, <2>1, FastName
  <2>3. PICK plain : plain = ResolveBase(d, f, b, U, p)
    OBVIOUS
  <2>4. r = IF plain # <<>> /\ Append(plain, "fast") \in U THEN Append(plain, "fast") ELSE plain
    BY <1>0, <1>1, <2>1, <2>3 DEF resolve_smart_model
  <2>5. plain # <<>>
    BY <2>4
  <2>6. plain \in U /\ Family(plain) = Family(f)
    BY <2>2, <2>3, <2>5, BaseRouted
  <2>7. plain \in Names /\ "fast" \in VariantSuffixes
    BY <2>6 DEF Reportable, Names, VariantSuffixes, VariantSuffixes
  <2>8. family_base(Append(plain, "fast")) = family_base(plain)
    BY <2>7, BaseOfVariant
  <2> QED BY <1>0, <2>2, <2>4, <2>6, <2>8 DEF Family
<1>2. CASE ~(IsFast(m) /\ family_base(Front(m)) = Front(m))
  <2>1. r = ResolveBase(d, m, b, U, p)
    BY <1>0, <1>2 DEF resolve_smart_model
  <2> QED BY <2>1, BaseRouted
<1> QED BY <1>1, <1>2

\* The level asked for is the level used.
LEMMA RoutedAsAsked ==
    ASSUME Spelled, NEW d, Ruled(d), NEW U, Reportable(U), NEW p, Priced(p),
           NEW m \in Names, NEW b \in Bodies, m \notin U, family_base(m) = m,
           b.asked # NoLevel, Append(m, b.asked) \in U,
           b.asked \notin family_rule(d, RuleName(m)).blocked
    PROVE  resolve_smart_model(d, m, b, U, p) = Append(m, b.asked)
<1>1. ~IsFast(m) /\ U # {}
  BY FastName
<1>2. b.asked \in VariantSuffixes
  BY BodyLevels DEF Levels, VariantSuffixes, VariantSuffixes
<1>3. family_has_variants(m, U)
  BY <1>2, BaseOfVariant DEF family_has_variants
<1>4. ResolveBase(d, m, b, U, p) = FamilyVariant(d, m, b, U, p)
  BY <1>3 DEF ResolveBase
<1>5. FamilyVariant(d, m, b, U, p) = Append(m, b.asked)
  BY VariantOfFamily
<1> QED BY <1>1, <1>4, <1>5 DEF resolve_smart_model

------------------------------------------------------------------------------
(* Edits of the registry. *)

Entry == [enabled : BOOLEAN, hidden : BOOLEAN]
Table(t) == t \in [DOMAIN t -> Entry] /\ DOMAIN t \subseteq Names

\* What the registry, its file and its clones look like.
Shaped(d) ==
    /\ d = [models |-> d.models, rules |-> d.rules, groups |-> d.groups]
    /\ Table(d.models) /\ Ruled(d)

\* What an edit asks for.
Edit(j) ==
    /\ j.op \in {"upsert", "replace", "delete", "hide", "unhide", "mark", "rule", "unrule",
                 "group", "ungroup", "prune"}
    /\ j.op = "upsert" => j.model \in Names /\ j.entry \in Entry
    /\ j.op = "replace" => Table(j.table)
    /\ j.op = "hide" => j.model \in Names
    /\ j.op = "rule" => j.rule.tier \in Levels \cup {NoLevel}

\* Names that are to be hidden and whose entry no edit took away.
Flagged == hidden \ lost
FlaggedAfter(j) == HiddenAfter(j) \ LostAfter(j)

\* An edit brings the flag of what is hidden with it.
Carries(j) ==
    \A m \in Flagged :
        /\ j.op = "upsert" /\ j.model = m => j.entry.hidden
        /\ j.op = "replace" /\ m \in DOMAIN j.table => j.table[m].hidden

\* The entry of m in d is there and hidden.
HiddenIn(d, m) == m \in DOMAIN d.models /\ d.models[m].hidden

\* A handler has an edit, with a well-shaped clone once it has made one.
HandlerSound(h) ==
    /\ phase[h] \in {"idle", "load", "save", "store"}
    /\ phase[h] = "idle" <=> job[h] = Idle
    /\ phase[h] # "idle" => Edit(job[h])
    /\ phase[h] \in {"save", "store"} => Shaped(copy[h])

\* The invariant of shapes, which holds however edits overlap.
ShapeInv ==
    /\ Wellformed
    /\ Shaped(data) /\ Shaped(file)
    /\ Reportable(up) /\ Priced(prices)
    /\ DOMAIN job = Handlers /\ DOMAIN phase = Handlers /\ DOMAIN copy = Handlers
    /\ \A h \in Handlers : HandlerSound(h)
    /\ overlapped \in BOOLEAN

\* As long as edits do not overlap: one handler is busy, what is hidden is so in
\* the data and in the file, and the clone, which the file holds once it is saved,
\* has what will be hidden when it is stored.
HiddenInv ==
    ~overlapped =>
        /\ \A g, h \in Handlers : phase[g] # "idle" /\ phase[h] # "idle" => g = h
        /\ \A m \in Flagged : HiddenIn(data, m)
        /\ (\A h \in Handlers : phase[h] # "store") =>
              \A m \in Flagged : HiddenIn(file, m)
        /\ \A h \in Handlers :
              /\ phase[h] = "store" => file = copy[h]
              /\ phase[h] = "load" => Carries(job[h])
              /\ phase[h] \in {"save", "store"} =>
                    \A m \in FlaggedAfter(job[h]) : HiddenIn(copy[h], m)

\* The requests of the panel are edits, and carry the flag over.
LEMMA RequestIsEdit ==
    ASSUME ShapeInv, NEW j \in Edits
    PROVE  /\ Edit(j) /\ j # Idle
           /\ (\A m \in Flagged : HiddenIn(data, m)) => Carries(j)
<1>1. \A m : Hides(m) \in BOOLEAN /\ (Hides(m) <=> HiddenIn(data, m))
  <2>1. \A m \in DOMAIN data.models : data.models[m].hidden \in BOOLEAN
    BY DEF ShapeInv, Shaped, Table, Entry
  <2> QED BY <2>1 DEF Hides, HiddenIn
<1>2. ASSUME NEW m, NEW on, m \in Names, on \in BOOLEAN, j = Upsert(m, on)
      PROVE  Edit(j) /\ j.op # "idle"
             /\ ((\A k \in Flagged : HiddenIn(data, k)) => Carries(j))
  <2>1. /\ j.op = "upsert" /\ j.model = m /\ j.entry.hidden = Hides(m)
        /\ j.entry = [enabled |-> on, hidden |-> Hides(m)]
    BY <1>2 DEF Upsert
  <2>2. j.entry \in Entry
    BY <1>1, <1>2, <2>1 DEF Entry
  <2>3. Edit(j)
    BY <1>2, <2>1, <2>2 DEF Edit
  <2> QED BY <1>1, <2>1, <2>3 DEF Carries
<1>3. ASSUME j.op \in {"delete", "prune", "unhide", "mark", "unrule", "group", "ungroup"}
      PROVE  Edit(j) /\ j.op # "idle" /\ Carries(j)
  BY <1>3 DEF Edit, Carries
<1>4. ASSUME j.op = "hide", j.model \in Names PROVE Edit(j) /\ j.op # "idle" /\ Carries(j)
  BY <1>4 DEF Edit, Carries
<1>5. ASSUME j.op = "rule", j.rule.tier \in Levels \cup {NoLevel}
      PROVE  Edit(j) /\ j.op # "idle" /\ Carries(j)
  BY <1>5 DEF Edit, Carries
<1>6. /\ \A m \in Builtin \cup Managed \cup Seen \cup DOMAIN data.models : m \in Names
      /\ \A u \in up : u \in Names
      /\ \A r \in Rules : r.tier \in Levels \cup {NoLevel}
  BY DEF ShapeInv, Wellformed, Reportable, Shaped, Table, Names
<1>7. CASE j \in api_models_upsert
  BY <1>2, <1>6, <1>7 DEF api_models_upsert, Idle
<1>8. CASE j \in api_models_bulk
  <2>0. PICK T \in SUBSET Managed :
           \E on \in [T -> BOOLEAN] : j = [op |-> "replace", table |-> BulkTable(on)]
    BY <1>8 DEF api_models_bulk
  <2>1. PICK on \in [T -> BOOLEAN] : j = [op |-> "replace", table |-> BulkTable(on)]
    BY <2>0
  <2>2. j.op = "replace" /\ j.table = BulkTable(on) /\ DOMAIN on = T
    BY <2>1
  <2>3. j.table = [m \in T |-> [enabled |-> on[m], hidden |-> Hides(m)]]
    BY <2>2 DEF BulkTable
  <2>4. DOMAIN j.table = T
        /\ \A m \in T : j.table[m] \in Entry /\ j.table[m].hidden = Hides(m)
    BY <1>1, <2>1, <2>3 DEF Entry
  <2>5. Table(j.table)
    BY <1>6, <2>3, <2>4 DEF Table
  <2>6. Edit(j) /\ j.op # "idle"
    BY <2>2, <2>5 DEF Edit
  <2>7. (\A m \in Flagged : HiddenIn(data, m)) => Carries(j)
    BY <1>1, <2>2, <2>4 DEF Carries
  <2> QED BY <2>6, <2>7 DEF Idle
<1>9. CASE j \in api_models_import_builtin
  <2>1. PICK m \in Builtin : j = Upsert(m, TRUE)
    BY <1>9 DEF api_models_import_builtin
  <2>2. PICK on \in BOOLEAN : on = TRUE
    OBVIOUS
  <2>3. j = Upsert(m, on) /\ m \in Names
    BY <1>6, <2>1, <2>2
  <2> QED BY <1>2, <2>3 DEF Idle
<1>10. CASE j \in api_models_sync_from_upstream
  <2>1. PICK u \in up : j = Upsert(family_base(u), TRUE)
    BY <1>10 DEF api_models_sync_from_upstream
  <2>2. family_base(u) \in Names
    BY <1>6, BaseIsName
  <2>3. PICK on \in BOOLEAN : on = TRUE
    OBVIOUS
  <2>4. j = Upsert(family_base(u), on)
    BY <2>1, <2>3
  <2> QED BY <1>2, <2>2, <2>4 DEF Idle
<1>11. CASE j \in api_models_sync_litellm
  <2>1. PICK m \in Builtin \cup DOMAIN data.models \cup Seen :
           j = Upsert(m, m \in DOMAIN data.models => data.models[m].enabled)
    BY <1>11 DEF api_models_sync_litellm
  <2>2. PICK on \in BOOLEAN : on = (m \in DOMAIN data.models => data.models[m].enabled)
    OBVIOUS
  <2>3. j = Upsert(m, on) /\ m \in Names
    BY <1>6, <2>1, <2>2
  <2> QED BY <1>2, <2>3 DEF Idle
<1>12. CASE j \in api_models_delete
  BY <1>3, <1>4, <1>6, <1>12 DEF api_models_delete, Idle
<1>13. CASE j \in api_models_prune_variant_prices
  BY <1>3, <1>13 DEF api_models_prune_variant_prices, Idle
<1>14. CASE j \in api_models_unhide \cup api_models_mark_known
  BY <1>3, <1>14 DEF api_models_unhide, api_models_mark_known, Idle
<1>15. CASE j \in api_models_family_rule_set
  BY <1>5, <1>6, <1>15 DEF api_models_family_rule_set, Idle
<1>16. CASE j \in api_models_family_rule_delete
  BY <1>3, <1>16 DEF api_models_family_rule_delete, Idle
<1>17. CASE j \in api_groups_upsert \cup api_groups_delete
  BY <1>3, <1>17 DEF api_groups_upsert, api_groups_delete, Idle
<1> QED BY <1>7, <1>8, <1>9, <1>10, <1>11, <1>12, <1>13, <1>14, <1>15, <1>16, <1>17
        DEF Edits

\* An edit keeps the shape, and hides what it is to hide.
LEMMA EditSound ==
    ASSUME NEW d, Shaped(d), NEW j, Edit(j), ~Void(d, j), RuledFamily \in Names
    PROVE  /\ Shaped(Edited(d, j))
           /\ (\A m \in Flagged : HiddenIn(d, m)) /\ Carries(j) =>
                 \A m \in FlaggedAfter(j) : HiddenIn(Edited(d, j), m)
<1>1. PICK e : e = Edited(d, j)
  OBVIOUS
<1>2. /\ d = [models |-> d.models, rules |-> d.rules, groups |-> d.groups]
      /\ d.models \in [DOMAIN d.models -> Entry] /\ DOMAIN d.models \subseteq Names
      /\ Ruled(d)
  BY DEF Shaped, Table
<1>3. ASSUME NEW t, e = [d EXCEPT !.models = t], Table(t)
      PROVE  Shaped(e) /\ e.models = t
  <2>1. e = [models |-> t, rules |-> d.rules, groups |-> d.groups]
    BY <1>2, <1>3
  <2> QED BY <1>2, <1>3, <2>1 DEF Shaped, Ruled
<1>4. CASE j.op = "upsert"
  <2>1. PICK t : t = Put(d.models, j.model, j.entry)
    OBVIOUS
  <2>2. e = [d EXCEPT !.models = t]
    BY <1>1, <1>4, <2>1 DEF Edited
  <2>3. /\ t = [y \in DOMAIN d.models \cup {j.model} |->
                   IF y = j.model THEN j.entry ELSE d.models[y]]
        /\ j.model \in Names /\ j.entry \in Entry
    BY <1>4, <2>1 DEF Put, Edit
  <2>4. Table(t)
    BY <1>2, <2>3 DEF Table
  <2>5. Shaped(e) /\ e.models = t
    BY <1>3, <2>2, <2>4
  <2>6. FlaggedAfter(j) = Flagged
    BY <1>4 DEF FlaggedAfter, HiddenAfter, LostAfter, Flagged
  <2> QED BY <1>1, <1>4, <2>3, <2>5, <2>6 DEF HiddenIn, Carries
<1>5. CASE j.op = "replace"
  <2>1. e = [d EXCEPT !.models = j.table] /\ Table(j.table)
    BY <1>1, <1>5 DEF Edited, Edit
  <2>2. Shaped(e) /\ e.models = j.table
    BY <1>3, <2>1
  <2>3. FlaggedAfter(j) = Flagged \cap DOMAIN j.table
    BY <1>5 DEF FlaggedAfter, HiddenAfter, LostAfter, Flagged
  <2> QED BY <1>1, <1>5, <2>2, <2>3 DEF HiddenIn, Carries
<1>6. CASE j.op \in {"delete", "prune"}
  <2>1. PICK t : t = Without(d.models, j.model)
    OBVIOUS
  <2>2. e = [d EXCEPT !.models = t]
    BY <1>1, <1>6, <2>1 DEF Edited
  <2>3. t = [y \in DOMAIN d.models \ {j.model} |-> d.models[y]]
    BY <2>1 DEF Without
  <2>4. Table(t)
    BY <1>2, <2>3 DEF Table
  <2>5. Shaped(e) /\ e.models = t
    BY <1>3, <2>2, <2>4
  <2>6. FlaggedAfter(j) \subseteq Flagged \ {j.model}
    BY <1>6 DEF FlaggedAfter, HiddenAfter, LostAfter, Flagged
  <2> QED BY <1>1, <2>3, <2>5, <2>6 DEF HiddenIn
<1>7. CASE j.op = "hide"
  <2>1. PICK t : t = Hide(d, j.model)
    OBVIOUS
  <2>2. e = [d EXCEPT !.models = t]
    BY <1>1, <1>7, <2>1 DEF Edited
  <2>3. PICK n : n = IF j.model \in DOMAIN d.models
                     THEN [d.models[j.model] EXCEPT !.hidden = TRUE]
                     ELSE [enabled |-> TRUE, hidden |-> TRUE]
    OBVIOUS
  <2>4. n \in Entry /\ n.hidden
    BY <1>2, <2>3 DEF Entry
  <2>5. t = [y \in DOMAIN d.models \cup {j.model} |-> IF y = j.model THEN n ELSE d.models[y]]
    BY <2>1, <2>3 DEF Hide, Put
  <2>6. j.model \in Names
    BY <1>7 DEF Edit
  <2>7. Table(t)
    BY <1>2, <2>4, <2>5, <2>6 DEF Table
  <2>8. Shaped(e) /\ e.models = t
    BY <1>3, <2>2, <2>7
  <2>9. FlaggedAfter(j) = Flagged \cup {j.model}
    BY <1>7 DEF FlaggedAfter, HiddenAfter, LostAfter, Flagged
  <2> QED BY <1>1, <2>4, <2>5, <2>8, <2>9 DEF HiddenIn
<1>8. CASE j.op = "unhide"
  <2>1. j.model \in DOMAIN d.models
    BY <1>8 DEF Void
  <2>2. PICK t : t = [d.models EXCEPT ![j.model].hidden = FALSE]
    OBVIOUS
  <2>3. e = [d EXCEPT !.models = t]
    BY <1>1, <1>2, <1>8, <2>2 DEF Edited
  <2>4. /\ DOMAIN t = DOMAIN d.models
        /\ \A y \in DOMAIN t : y # j.model => t[y] = d.models[y]
        /\ t = [y \in DOMAIN d.models |->
                  IF y = j.model THEN [d.models[j.model] EXCEPT !.hidden = FALSE]
                  ELSE d.models[y]]
    BY <1>2, <2>2
  <2>5. [d.models[j.model] EXCEPT !.hidden = FALSE] \in Entry
    BY <1>2, <2>1 DEF Entry
  <2>6. Table(t)
    BY <1>2, <2>4, <2>5 DEF Table
  <2>7. Shaped(e) /\ e.models = t
    BY <1>3, <2>3, <2>6
  <2>8. FlaggedAfter(j) = Flagged \ {j.model}
    BY <1>8 DEF FlaggedAfter, HiddenAfter, LostAfter, Flagged
  <2> QED BY <1>1, <2>4, <2>7, <2>8 DEF HiddenIn
<1>9. CASE j.op \in {"mark", "rule", "unrule", "group", "ungroup"}
  <2>1. FlaggedAfter(j) = Flagged
    BY <1>9 DEF FlaggedAfter, HiddenAfter, LostAfter, Flagged
  <2>2. CASE j.op = "mark"
    <3>1. e = d
      BY <1>1, <2>2 DEF Edited
    <3> QED BY <1>1, <2>1, <3>1
  <2>3. ASSUME NEW r, e = [d EXCEPT !.rules = r],
               \A f \in DOMAIN r : r[f].tier \in Levels \cup {NoLevel}
        PROVE  Shaped(e) /\ e.models = d.models
    <3>1. e = [models |-> d.models, rules |-> r, groups |-> d.groups]
      BY <1>2, <2>3
    <3> QED BY <1>2, <2>3, <3>1 DEF Shaped, Ruled, Table
  <2>4. ASSUME NEW g, e = [d EXCEPT !.groups = g] PROVE Shaped(e) /\ e.models = d.models
    <3>1. e = [models |-> d.models, rules |-> d.rules, groups |-> g]
      BY <1>2, <2>4
    <3> QED BY <1>2, <3>1 DEF Shaped, Ruled, Table
  <2>5. CASE j.op = "rule"
    <3>1. e = [d EXCEPT !.rules = Put(d.rules, RuledFamily, j.rule)]
      BY <1>1, <2>5 DEF Edited
    <3>2. \A f \in DOMAIN Put(d.rules, RuledFamily, j.rule) :
             Put(d.rules, RuledFamily, j.rule)[f].tier
               \in Levels \cup {NoLevel}
      BY <1>2, <2>5 DEF Put, Ruled, Edit
    <3>3. Shaped(e) /\ e.models = d.models
      BY <2>3, <3>1, <3>2
    <3> QED BY <1>1, <2>1, <3>3 DEF HiddenIn
  <2>6. CASE j.op = "unrule"
    <3>1. e = [d EXCEPT !.rules = Without(d.rules, RuledFamily)]
      BY <1>1, <2>6 DEF Edited
    <3>2. \A f \in DOMAIN Without(d.rules, RuledFamily) :
             Without(d.rules, RuledFamily)[f].tier
               \in Levels \cup {NoLevel}
      BY <1>2 DEF Without, Ruled
    <3>3. Shaped(e) /\ e.models = d.models
      BY <2>3, <3>1, <3>2
    <3> QED BY <1>1, <2>1, <3>3 DEF HiddenIn
  <2>7. CASE j.op = "group"
    <3>1. e = [d EXCEPT !.groups = Put(d.groups, j.id, j.group)]
      BY <1>1, <2>7 DEF Edited
    <3>3. Shaped(e) /\ e.models = d.models
      BY <2>4, <3>1
    <3> QED BY <1>1, <2>1, <3>3 DEF HiddenIn
  <2>8. CASE j.op = "ungroup"
    <3>1. e = [d EXCEPT !.groups = Without(d.groups, j.id)]
      BY <1>1, <2>8 DEF Edited
    <3>3. Shaped(e) /\ e.models = d.models
      BY <2>4, <3>1
    <3> QED BY <1>1, <2>1, <3>3 DEF HiddenIn
  <2> QED BY <1>9, <2>2, <2>5, <2>6, <2>7, <2>8
<1> QED BY <1>4, <1>5, <1>6, <1>7, <1>8, <1>9 DEF Edit

------------------------------------------------------------------------------
(* The invariants of the registry. *)

\* The registry starts empty.
LEMMA RegistryStarts == RegistryInit => ShapeInv /\ HiddenInv
<1> SUFFICES ASSUME Wellformed, RegistryInit PROVE ShapeInv /\ HiddenInv
  BY RegistryAssumption
<1>1. Shaped(Empty)
  BY DEF Shaped, Empty, Table, Ruled
<1>2. Reportable({}) /\ \A p \in PriceMaps : Priced(p)
  BY DEF Reportable, Wellformed, Priced
<1>3. \A h \in Handlers : phase[h] = "idle" /\ job[h] = Idle
  BY DEF RegistryInit
<1>4. ShapeInv
  BY <1>1, <1>2, <1>3 DEF RegistryInit, ShapeInv, HandlerSound
<1>5. HiddenInv
  BY <1>3 DEF RegistryInit, HiddenInv, Flagged
<1> QED BY <1>4, <1>5

\* A handler takes a request: with another one under way edits overlap.
LEMMA AskStep ==
    ASSUME ShapeInv, HiddenInv, NEW h \in Handlers, NEW j \in Edits,
           Ask(h, j)
    PROVE  ShapeInv' /\ HiddenInv'
<1>1. /\ job[h] = Idle /\ job' = [job EXCEPT ![h] = j]
      /\ phase' = [phase EXCEPT ![h] = "load"]
      /\ overlapped' = (overlapped \/ ~Quiet)
      /\ UNCHANGED <<data, file, up, prices, copy, hidden, lost>>
  BY DEF Ask, store
<1>2. Edit(j) /\ j # Idle /\ ((\A m \in Flagged : HiddenIn(data, m)) => Carries(j))
  BY RequestIsEdit
<1>3. Edit(j)' /\ (Carries(j) => Carries(j)')
  BY <1>1, <1>2 DEF Edit, Carries, Table, Flagged
<1>4. /\ DOMAIN job = Handlers /\ DOMAIN phase = Handlers
      /\ \A g \in Handlers : HandlerSound(g)
  BY DEF ShapeInv
<1>5. /\ job'[h] = j /\ phase'[h] = "load"
      /\ \A g \in Handlers \ {h} : job'[g] = job[g] /\ phase'[g] = phase[g]
      /\ DOMAIN job' = Handlers /\ DOMAIN phase' = Handlers
  BY <1>1, <1>4
<1>6. ASSUME NEW g \in Handlers PROVE HandlerSound(g)'
  <2>1. CASE g = h
    BY <1>2, <1>5, <2>1 DEF HandlerSound
  <2>2. CASE g # h
    BY <1>1, <1>4, <1>5, <2>2 DEF HandlerSound
  <2> QED BY <2>1, <2>2
<1>7. overlapped' \in BOOLEAN
  BY <1>1 DEF ShapeInv, Quiet
<1>8. ShapeInv'
  BY <1>1, <1>5, <1>6, <1>7 DEF ShapeInv
<1>9. ASSUME ~overlapped' PROVE HiddenInv'
  <2>1. ~overlapped /\ \A g \in Handlers : job[g] = Idle
    BY <1>1, <1>9 DEF Quiet
  <2>2. \A g \in Handlers \ {h} : phase'[g] = "idle"
    BY <1>4, <1>5, <2>1 DEF HandlerSound
  <2>3. \A m \in Flagged : HiddenIn(data, m)
    BY <2>1 DEF HiddenInv
  <2>4. \A m \in Flagged' : HiddenIn(data, m)'
    BY <1>1, <2>3 DEF HiddenIn, Flagged
  <2>7. \A m \in Flagged' : HiddenIn(file, m)'
    <3>1. \A g \in Handlers : phase[g] # "store"
      BY <1>4, <2>1 DEF HandlerSound
    <3>2. \A m \in Flagged : HiddenIn(file, m)
      BY <2>1, <3>1 DEF HiddenInv
    <3> QED BY <1>1, <3>2 DEF HiddenIn, Flagged
  <2>5. Carries(j)'
    BY <1>2, <1>3, <2>3
  <2>6. Carries(job[h])'
    BY <1>5, <2>5
  <2> QED BY <1>5, <2>2, <2>4, <2>6, <2>7 DEF HiddenInv
<1>10. ASSUME overlapped' PROVE HiddenInv'
  BY <1>10 DEF HiddenInv
<1> QED BY <1>8, <1>9, <1>10

\* A handler is done with its request, whatever became of it.
LEMMA DoneStep ==
    ASSUME ShapeInv, HiddenInv, NEW h \in Handlers, Done(h),
           UNCHANGED <<file, up, prices, overlapped>>,
           Shaped(data'),
           ~overlapped => \A m \in Flagged' : HiddenIn(data', m) /\ HiddenIn(file, m),
           phase[h] # "idle"
    PROVE  ShapeInv' /\ HiddenInv'
<1>1. /\ job' = [job EXCEPT ![h] = Idle] /\ phase' = [phase EXCEPT ![h] = "idle"]
      /\ copy' = [copy EXCEPT ![h] = Empty]
  BY DEF Done
<1>2. /\ DOMAIN job = Handlers /\ DOMAIN phase = Handlers /\ DOMAIN copy = Handlers
      /\ \A g \in Handlers : HandlerSound(g)
  BY DEF ShapeInv
<1>3. /\ job'[h] = Idle /\ phase'[h] = "idle"
      /\ \A g \in Handlers \ {h} : job'[g] = job[g] /\ phase'[g] = phase[g] /\ copy'[g] = copy[g]
      /\ DOMAIN job' = Handlers /\ DOMAIN phase' = Handlers /\ DOMAIN copy' = Handlers
  BY <1>1, <1>2
<1>4. ASSUME NEW g \in Handlers PROVE HandlerSound(g)'
  <2>1. CASE g = h
    BY <1>3, <2>1 DEF HandlerSound
  <2>2. CASE g # h
    BY <1>2, <1>3, <2>2 DEF HandlerSound
  <2> QED BY <2>1, <2>2
<1>5. ShapeInv'
  BY <1>3, <1>4 DEF ShapeInv
<1>6. ASSUME ~overlapped' PROVE HiddenInv'
  <2>1. \A g \in Handlers : phase'[g] = "idle"
    BY <1>3, <1>6 DEF HiddenInv
  <2>2. \A m \in Flagged' : HiddenIn(data, m)' /\ HiddenIn(file, m)'
    BY <1>6 DEF HiddenIn
  <2> QED BY <2>1, <2>2 DEF HiddenInv
<1>7. ASSUME overlapped' PROVE HiddenInv'
  BY <1>7 DEF HiddenInv
<1> QED BY <1>5, <1>6, <1>7

\* A clone of the data is edited.
LEMMA LoadStep ==
    ASSUME ShapeInv, HiddenInv, NEW h \in Handlers, Load(h)
    PROVE  ShapeInv' /\ HiddenInv'
<1>1. /\ phase[h] = "load" /\ ~Void(data, job[h])
      /\ copy' = [copy EXCEPT ![h] = Edited(data, job[h])]
      /\ phase' = [phase EXCEPT ![h] = "save"]
      /\ UNCHANGED <<data, file, up, prices, job, hidden, lost, overlapped>>
  BY DEF Load, store, history
<1>2. /\ DOMAIN phase = Handlers /\ DOMAIN copy = Handlers
      /\ \A g \in Handlers : HandlerSound(g)
      /\ Shaped(data) /\ RuledFamily \in Names
  BY DEF ShapeInv, Wellformed, Names
<1>3. Edit(job[h]) /\ job[h] # Idle
  BY <1>1, <1>2 DEF HandlerSound
<1>4. PICK e : e = Edited(data, job[h])
  OBVIOUS
<1>5. /\ Shaped(e)
      /\ (\A m \in Flagged : HiddenIn(data, m)) /\ Carries(job[h]) =>
            \A m \in FlaggedAfter(job[h]) : HiddenIn(e, m)
  BY <1>1, <1>2, <1>3, <1>4, EditSound
<1>6. /\ copy'[h] = e /\ phase'[h] = "save"
      /\ \A g \in Handlers \ {h} : phase'[g] = phase[g] /\ copy'[g] = copy[g]
      /\ DOMAIN phase' = Handlers /\ DOMAIN copy' = Handlers
  BY <1>1, <1>2, <1>4
<1>7. ASSUME NEW g \in Handlers PROVE HandlerSound(g)'
  <2>1. CASE g = h
    BY <1>1, <1>3, <1>5, <1>6, <2>1 DEF HandlerSound
  <2>2. CASE g # h
    BY <1>1, <1>2, <1>6, <2>2 DEF HandlerSound
  <2> QED BY <2>1, <2>2
<1>8. ShapeInv'
  BY <1>1, <1>6, <1>7 DEF ShapeInv
<1>9. ASSUME ~overlapped' PROVE HiddenInv'
  <2>1. /\ \A g \in Handlers \ {h} : phase[g] = "idle"
        /\ \A m \in Flagged : HiddenIn(data, m) /\ HiddenIn(file, m)
        /\ Carries(job[h])
    BY <1>1, <1>9 DEF HiddenInv
  <2>2. \A m \in FlaggedAfter(job[h]) : HiddenIn(e, m)
    BY <1>5, <2>1
  <2>3. FlaggedAfter(job[h])' = FlaggedAfter(job[h])
    BY <1>1 DEF FlaggedAfter, HiddenAfter, LostAfter
  <2>4. \A m \in FlaggedAfter(job[h])' : HiddenIn(copy[h], m)'
    BY <1>6, <2>2, <2>3 DEF HiddenIn
  <2>5. \A m \in Flagged' : HiddenIn(data, m)' /\ HiddenIn(file, m)'
    BY <1>1, <2>1 DEF HiddenIn, Flagged
  <2>6. \A g \in Handlers \ {h} : phase'[g] = "idle"
    BY <1>6, <2>1
  <2> QED BY <1>6, <2>4, <2>5, <2>6 DEF HiddenInv
<1>10. ASSUME overlapped' PROVE HiddenInv'
  BY <1>10 DEF HiddenInv
<1> QED BY <1>8, <1>9, <1>10

\* models.json gets the clone.
LEMMA SaveStep ==
    ASSUME ShapeInv, HiddenInv, NEW h \in Handlers, Save(h)
    PROVE  ShapeInv' /\ HiddenInv'
<1>1. /\ phase[h] = "save" /\ file' = copy[h] /\ phase' = [phase EXCEPT ![h] = "store"]
      /\ UNCHANGED <<data, up, prices, job, copy, hidden, lost, overlapped>>
  BY DEF Save, history
<1>2. /\ DOMAIN phase = Handlers
      /\ \A g \in Handlers : HandlerSound(g)
  BY DEF ShapeInv
<1>3. /\ phase'[h] = "store" /\ DOMAIN phase' = Handlers
      /\ \A g \in Handlers \ {h} : phase'[g] = phase[g]
  BY <1>1, <1>2
<1>4. ASSUME NEW g \in Handlers PROVE HandlerSound(g)'
  BY <1>1, <1>2, <1>3 DEF HandlerSound
<1>5. Shaped(file')
  BY <1>1, <1>2 DEF HandlerSound
<1>6. ShapeInv'
  BY <1>1, <1>3, <1>4, <1>5 DEF ShapeInv
<1>7. ASSUME ~overlapped' PROVE HiddenInv'
  <2>1. /\ \A g \in Handlers \ {h} : phase[g] = "idle"
        /\ \A m \in Flagged : HiddenIn(data, m)
        /\ \A m \in FlaggedAfter(job[h]) : HiddenIn(copy[h], m)
    BY <1>1, <1>7 DEF HiddenInv
  <2>2. FlaggedAfter(job[h])' = FlaggedAfter(job[h])
    BY <1>1 DEF FlaggedAfter, HiddenAfter, LostAfter
  <2>3. \A m \in FlaggedAfter(job[h])' : HiddenIn(copy[h], m)'
    BY <1>1, <2>1, <2>2 DEF HiddenIn
  <2>4. \A m \in Flagged' : HiddenIn(data, m)'
    BY <1>1, <2>1 DEF HiddenIn, Flagged
  <2>5. file' = copy'[h]
    BY <1>1
  <2> QED BY <1>3, <2>1, <2>3, <2>4, <2>5 DEF HiddenInv
<1>8. ASSUME overlapped' PROVE HiddenInv'
  BY <1>8 DEF HiddenInv
<1> QED BY <1>6, <1>7, <1>8

\* An edit with nothing to change, or one that cannot be saved, changes nothing.
LEMMA GiveUpStep ==
    ASSUME ShapeInv, HiddenInv, NEW h \in Handlers,
           RefuseEdit(h) \/ SaveFails(h)
    PROVE  ShapeInv' /\ HiddenInv'
<1>1. /\ phase[h] # "idle" /\ Done(h)
      /\ UNCHANGED <<data, file, up, prices, hidden, lost, overlapped>>
      /\ phase[h] # "store"
  BY DEF RefuseEdit, SaveFails, store, history
<1>2. ASSUME ~overlapped
      PROVE  \A m \in Flagged' : HiddenIn(data', m) /\ HiddenIn(file, m)
  <2>1. \A g \in Handlers : phase[g] # "store"
    BY <1>1, <1>2 DEF HiddenInv
  <2>2. \A m \in Flagged : HiddenIn(data, m) /\ HiddenIn(file, m)
    BY <1>2, <2>1 DEF HiddenInv
  <2> QED BY <1>1, <2>2 DEF Flagged
<1>3. Shaped(data')
  BY <1>1 DEF ShapeInv
<1> QED BY <1>1, <1>2, <1>3, DoneStep

\* The clone becomes the data.
LEMMA StoreStep ==
    ASSUME ShapeInv, HiddenInv, NEW h \in Handlers, Store(h)
    PROVE  ShapeInv' /\ HiddenInv'
<1>1. /\ phase[h] = "store" /\ Done(h) /\ data' = copy[h]
      /\ Flagged' = FlaggedAfter(job[h])
      /\ UNCHANGED <<file, up, prices, overlapped>>
  BY DEF Store, Flagged, FlaggedAfter
<1>2. Shaped(data')
  BY <1>1 DEF ShapeInv, HandlerSound
<1>3. ~overlapped => \A m \in Flagged' : HiddenIn(data', m) /\ HiddenIn(file, m)
  BY <1>1 DEF HiddenInv
<1> QED BY <1>1, <1>2, <1>3, DoneStep

\* The upstream's list or the prices change, or nothing does.
LEMMA SurroundingsStep ==
    ASSUME ShapeInv, HiddenInv,
           refresh_upstream_names \/ analytics_price_map
             \/ UNCHANGED registryVars
    PROVE  ShapeInv' /\ HiddenInv'
<1>1. UNCHANGED <<data, file, job, phase, copy, hidden, lost, overlapped>>
  BY DEF refresh_upstream_names, analytics_price_map, registryVars,
         store, handlers, history
<1>2. Reportable(up')
  BY DEF refresh_upstream_names, analytics_price_map, registryVars, ShapeInv,
         Wellformed
<1>3. Priced(prices')
  <2>1. CASE analytics_price_map
    BY <2>1 DEF analytics_price_map, ShapeInv, Wellformed, Priced
  <2>2. CASE refresh_upstream_names \/ UNCHANGED registryVars
    BY <2>2 DEF refresh_upstream_names, registryVars, ShapeInv
  <2> QED BY <2>1, <2>2
<1>4. \A h \in Handlers : HandlerSound(h)'
  BY <1>1 DEF ShapeInv, HandlerSound
<1>5. ShapeInv'
  BY <1>1, <1>2, <1>3, <1>4 DEF ShapeInv
<1>6. \A h \in Handlers : /\ FlaggedAfter(job[h])' = FlaggedAfter(job[h])
                          /\ Carries(job[h])' = Carries(job[h])
  BY <1>1 DEF FlaggedAfter, HiddenAfter, LostAfter, Carries, Flagged
<1>7. HiddenInv'
  BY <1>1, <1>6 DEF HiddenInv, HiddenIn, Flagged
<1> QED BY <1>5, <1>7

\* After a restart the data is what the file holds.
LEMMA RestartStep ==
    ASSUME ShapeInv, HiddenInv, Restart
    PROVE  ShapeInv' /\ HiddenInv'
<1>1. /\ data' = file /\ job' = [h \in Handlers |-> Idle]
      /\ phase' = [h \in Handlers |-> "idle"] /\ copy' = [h \in Handlers |-> Empty]
      /\ UNCHANGED <<file, up, prices, overlapped>>
  BY DEF Restart
<1>2. \A h \in Handlers : HandlerSound(h)'
  BY <1>1 DEF HandlerSound
<1>3. ShapeInv'
  BY <1>1, <1>2 DEF ShapeInv
<1>4. ASSUME ~overlapped PROVE \A m \in Flagged' : HiddenIn(file, m)
  <2>1. CASE \A h \in Handlers : phase[h] # "store"
    <3>1. Flagged' = Flagged
      BY <2>1 DEF Restart, Flagged
    <3> QED BY <1>4, <2>1, <3>1 DEF HiddenInv
  <2>2. CASE \E h \in Handlers : phase[h] = "store"
    <3>1. PICK h \in Handlers : phase[h] = "store" /\ Flagged' = FlaggedAfter(job[h])
      BY <2>2 DEF Restart, Flagged, FlaggedAfter
    <3> QED BY <1>4, <3>1 DEF HiddenInv
  <2> QED BY <2>1, <2>2
<1>5. ASSUME ~overlapped' PROVE \A m \in Flagged' : HiddenIn(data, m)' /\ HiddenIn(file, m)'
  BY <1>1, <1>4, <1>5 DEF HiddenIn
<1>6. HiddenInv'
  BY <1>1, <1>5 DEF HiddenInv
<1> QED BY <1>3, <1>6

\* The invariants hold in every state.
LEMMA RegistryInvariant == RegistrySpec => [](ShapeInv /\ HiddenInv)
<1>1. ShapeInv /\ HiddenInv /\ [RegistryNext]_registryVars => (ShapeInv /\ HiddenInv)'
  BY AskStep, LoadStep, SaveStep, GiveUpStep, StoreStep, SurroundingsStep, RestartStep
     DEF RegistryNext
<1> QED BY <1>1, RegistryStarts, PTL DEF RegistrySpec

------------------------------------------------------------------------------
(* The theorems about the registry. *)

\* A name with a hidden entry is on the menu only as a variant of a family that
\* lists them all.
LEMMA HiddenOffMenu ==
    ASSUME NEW d, NEW m, HiddenIn(d, m), NEW U, NEW listed,
           m \in visible_models(d, U, listed)
    PROVE  family_rule(d, family_base(m)).menu = "all"
<1>1. is_hidden(d, m) /\ m \notin Published(d)
  BY DEF is_hidden, HiddenIn, Published
<1>2. PICK x \in U \cup listed : m \in FamilyMenu(d, x, U)
  BY <1>1 DEF visible_models
<1>3. m = x /\ family_rule(d, family_base(x)).menu = "all"
  <2>1. PICK base : base = family_base(x)
    OBVIOUS
  <2>2. PICK fast : fast = Append(base, "fast")
    OBVIOUS
  <2>3. PICK mode : mode = family_rule(d, base).menu
    OBVIOUS
  <2>4. FamilyMenu(d, x, U)
          = IF ~is_visible(d, base, U) \/ is_hidden(d, base) THEN {}
            ELSE {base}
                 \cup (IF mode = "all" THEN {x} \cap U ELSE {})
                 \cup (IF mode = "base_and_fast" /\ HasFast(base, U)
                          /\ ~is_hidden(d, fast)
                       THEN {fast} ELSE {})
    BY <2>1, <2>2, <2>3 DEF FamilyMenu
  <2>5. m # base /\ (m = fast => is_hidden(d, fast))
    BY <1>1, <1>2, <2>4
  <2> QED BY <1>2, <2>1, <2>3, <2>4, <2>5
<1> QED BY <1>3

\* However many edits there are, and with failed saves and restarts among them: a
\* name that has been hidden stays hidden and off the menu until it is brought
\* back or deleted, as long as no edit runs while another is under way and none
\* takes its entry away.
THEOREM HiddenStaysHidden == RegistrySpec => []HiddenKept
<1>1. ASSUME HiddenInv PROVE HiddenKept
  <2> SUFFICES ASSUME ~overlapped, NEW m \in hidden \ lost
               PROVE  /\ Hides(m)
                      /\ m \in visible_models(data, up, Seen) =>
                           family_rule(data, family_base(m)).menu = "all"
    BY DEF HiddenKept
  <2>1. HiddenIn(data, m)
    BY <1>1 DEF HiddenInv, Flagged
  <2>2. m \in visible_models(data, up, Seen) =>
           family_rule(data, family_base(m)).menu = "all"
    BY <2>1, HiddenOffMenu
  <2> QED BY <2>1, <2>2 DEF HiddenIn, Hides
<1> QED BY <1>1, RegistryInvariant, PTL

\* The constants spell names.
LEMMA SpelledConstants == ASSUME Wellformed PROVE Spelled
BY DEF Wellformed, Spelled, VariantSuffixes

\* Names asked for are names.
LEMMA AskedNames ==
    ASSUME ShapeInv, NEW m \in Asked
    PROVE  m \in Names
<1>1. Spelled /\ \A x \in up \cup Managed \cup Seen : x \in Names
  BY SpelledConstants DEF ShapeInv, Wellformed, Reportable, Names
<1>2. ASSUME NEW b \in Names PROVE RuleName(b) \in Names
  <2>1. CASE Len(b) > 1 /\ Head(b) = "cursor"
    <3>1. b \in Seq(Segments) /\ b # <<>> /\ Len(b) \in Nat
      BY <1>2, LenProperties DEF Names, Names
    <3>2. Tail(b) \in Seq(Segments) /\ Len(Tail(b)) = Len(b) - 1
      BY <3>1, HeadTailProperties
    <3>3. Len(Tail(b)) # 0
      BY <2>1, <3>1, <3>2
    <3>4. Tail(b) # <<>>
      BY <3>3, EmptySeq
    <3> QED BY <2>1, <3>2, <3>4 DEF RuleName, Names, Names
  <2>2. CASE ~(Len(b) > 1 /\ Head(b) = "cursor")
    BY <2>2 DEF RuleName
  <2> QED BY <2>1, <2>2
<1>3. PICK x \in up \cup Managed \cup Seen :
         m \in {x, family_base(x), Family(x), Append(Family(x), "fast")}
  BY DEF Asked
<1>4. x \in Names /\ family_base(x) \in Names /\ Family(x) \in Names
  BY <1>1, <1>2, BaseIsName DEF Family
<1>5. Append(Family(x), "fast") \in Names
  <2>1. "fast" \in VariantSuffixes
    BY DEF VariantSuffixes
  <2> QED BY <1>1, <1>4, <2>1, BaseOfVariant
<1> QED BY <1>3, <1>4, <1>5

\* For every list the upstream reports, all entries, rules and prices, and every
\* body: smart routing replaces only a name the upstream does not report, by one
\* that it does report and of the same family, and uses the level asked for where
\* there is such a variant and no rule blocks it.
THEOREM RoutingIsLawful == RegistrySpec => []RouteLawful
<1>1. ASSUME ShapeInv PROVE RouteLawful
  <2> SUFFICES ASSUME NEW m \in Asked, NEW b \in Bodies,
                      NEW r, r = resolve_smart_model(data, m, b, up, prices)
               PROVE  /\ r # <<>> =>
                           m \notin up /\ r \in up /\ Family(r) = Family(m)
                      /\ (/\ m \notin up /\ family_base(m) = m
                          /\ b.asked # NoLevel /\ Append(m, b.asked) \in up
                          /\ b.asked \notin
                               family_rule(data, RuleName(m)).blocked)
                         => r = Append(m, b.asked)
    BY DEF RouteLawful
  <2>1. /\ Spelled /\ m \in Names /\ Ruled(data) /\ Reportable(up) /\ Priced(prices)
    BY <1>1, AskedNames, SpelledConstants DEF ShapeInv, Shaped
  <2>2. r # <<>> => m \notin up /\ r \in up /\ Family(r) = Family(m)
    BY <2>1, Routed
  <2>3. ASSUME m \notin up, family_base(m) = m,
               b.asked # NoLevel, Append(m, b.asked) \in up,
               b.asked \notin family_rule(data, RuleName(m)).blocked
        PROVE  r = Append(m, b.asked)
    BY <2>1, <2>3, RoutedAsAsked
  <2> QED BY <2>2, <2>3
<1> QED BY <1>1, RegistryInvariant, PTL

\* What is on the menu is a name.
LEMMA MenuNames ==
    ASSUME ShapeInv, NEW holder, NEW m \in Menu(data, holder, Default, up, Seen)
    PROVE  /\ m \in Names
           /\ allowed_by_groups(data, holder.groups, m)
<1>1. /\ Spelled
      /\ \A x \in up \cup Builtin \cup Seen \cup {Default, Alias} \cup DOMAIN data.models :
            x \in Names
  BY SpelledConstants DEF ShapeInv, Wellformed, Reportable, Names, Shaped, Table
<1>2. ASSUME NEW x \in up \cup Seen, NEW y \in FamilyMenu(data, x, up)
      PROVE  y \in Names
  <2>1. PICK base : base = family_base(x)
    OBVIOUS
  <2>2. y \in {base, x, Append(base, "fast")}
    BY <2>1 DEF FamilyMenu
  <2>3. "fast" \in VariantSuffixes
    BY DEF VariantSuffixes
  <2>4. x \in Names /\ base \in Names
    BY <1>1, <2>1, BaseIsName
  <2>5. Append(base, "fast") \in Names
    BY <1>1, <2>3, <2>4, BaseOfVariant
  <2> QED BY <2>2, <2>4, <2>5
<1>3. \A y \in visible_models(data, up, Seen) : y \in Names
  BY <1>1, <1>2 DEF visible_models, Published
<1> QED BY <1>1, <1>3 DEF Menu

\* A family with a high and a lower variant is routed to one of its variants at
\* every level.
LEMMA BaseServed ==
    ASSUME Spelled, NEW d, Ruled(d), NEW U, Reportable(U), NEW p, Priced(p),
           NEW m \in Names, NEW b \in Bodies, m \notin U, family_base(m) = m,
           NEW f, f = IF family_has_variants(m, U) THEN m ELSE Cursor(m),
           family_has_variants(f, U), AllLevels(f, U)
    PROVE  ResolveBase(d, m, b, U, p) # <<>>
<1>1. f \in Names /\ family_base(f) = f
  BY FamilyIsBase
<1>2. ResolveBase(d, m, b, U, p) = FamilyVariant(d, f, b, U, p)
  BY DEF ResolveBase
<1>3. PICK v : v = FamilyVariant(d, f, b, U, p)
  OBVIOUS
<1>4. v # <<>>
  BY <1>1, <1>3, VariantOfFamily
<1> QED BY <1>2, <1>3, <1>4

\* The same for what a request is routed to.
LEMMA Served ==
    ASSUME Spelled, NEW d, Ruled(d), NEW U, Reportable(U), NEW p, Priced(p),
           NEW m \in Names, m # Alias, NEW b \in Bodies,
           \/ m \in U
           \/ family_base(m) = m
           \/ IsFast(m) /\ family_base(m) = Front(m),
           NEW base, base = family_base(m), base \notin U,
           NEW f, f = IF family_has_variants(base, U) THEN base
                      ELSE Cursor(base),
           family_has_variants(f, U), AllLevels(f, U)
    PROVE  /\ Route(d, m, b, U, p) \in U
           /\ Family(Route(d, m, b, U, p)) = Family(m)
<1>1. PICK r : r = resolve_smart_model(d, m, b, U, p)
  OBVIOUS
<1>2. Route(d, m, b, U, p) = IF r # <<>> THEN r ELSE m
  BY <1>1 DEF Route, OrElse
<1>3. U # {}
  BY DEF AllLevels
<1>4. CASE m \in U
  <2>1. r = <<>>
    BY <1>1, <1>4 DEF resolve_smart_model
  <2> QED BY <1>2, <1>4, <2>1
<1>5. ASSUME m \notin U, r # <<>>
      PROVE  /\ Route(d, m, b, U, p) \in U
             /\ Family(Route(d, m, b, U, p)) = Family(m)
  BY <1>1, <1>2, <1>5, Routed
<1>6. CASE m \notin U /\ family_base(m) = m
  <2>1. ~IsFast(m)
    BY <1>6, FastName
  <2>2. r = ResolveBase(d, m, b, U, p)
    BY <1>1, <1>3, <1>6, <2>1 DEF resolve_smart_model
  <2>3. r # <<>>
    BY <1>6, <2>2, BaseServed
  <2> QED BY <1>5, <1>6, <2>3
<1>7. CASE m \notin U /\ IsFast(m) /\ family_base(m) = Front(m)
  <2>1. base \in Names /\ base = Front(m) /\ family_base(base) = base
    BY <1>7, FastName
  <2>2. PICK plain : plain = ResolveBase(d, base, b, U, p)
    OBVIOUS
  <2>3. plain # <<>>
    BY <2>1, <2>2, BaseServed
  <2>4. r = IF plain # <<>> /\ Append(plain, "fast") \in U THEN Append(plain, "fast") ELSE plain
    BY <1>1, <1>3, <1>7, <2>1, <2>2 DEF resolve_smart_model
  <2>5. plain \in Names /\ "fast" \in VariantSuffixes
    BY <2>1, <2>2, <2>3, BaseRouted DEF Reportable, Names, VariantSuffixes,
                                        VariantSuffixes
  <2>6. Append(plain, "fast") # <<>>
    BY <2>5, BaseOfVariant DEF Names, Names
  <2>7. r # <<>>
    BY <2>3, <2>4, <2>6
  <2> QED BY <1>5, <1>7, <2>7
<1> QED BY <1>4, <1>6, <1>7

\* A name the upstream reports is known to the gate.
LEMMA ReportedIsKnown ==
    ASSUME NEW d, NEW U, Reportable(U), NEW m \in U
    PROVE  model_known(d, m, U)
<1>1. m \in Names /\ m \in Seq(Segments)
  BY DEF Reportable, Names, Names
<1>2. PICK k : Ends(m, k) /\ family_base(m) = SubSeq(m, 1, k)
  BY <1>1, BaseEnds
<1>3. k \in 1..Len(m) /\ Len(m) \in Nat
  BY <1>1, <1>2, LenProperties DEF Ends
<1>4. Len(family_base(m)) = k
  BY <1>1, <1>2, <1>3, Beginning
<1>5. Len(m) \in Len(family_base(m))..Len(m) /\ SubSeq(m, 1, Len(m)) = m
  BY <1>1, <1>3, <1>4, SubSeqFull
<1>6. m \in Stripped(m)
  BY <1>5 DEF Stripped
<1>7. upstream_present(m, U)
  BY <1>6 DEF upstream_present, Reported
<1> QED BY <1>7 DEF model_known

\* Menu, router and gate agree for every list, rule, entry, price and body: what a
\* client finds on its menu is served under a name of the same family that the
\* upstream reports, if that family has a high and a lower variant and none of
\* its variants is disabled.
THEOREM MenuIsServed == RegistrySpec => []ListedIsServed
<1>1. ASSUME ShapeInv PROVE ListedIsServed
  <2> SUFFICES ASSUME NEW holder \in KeyHolders,
                      NEW m \in Menu(data, holder, Default, up, Seen) \ {Alias},
                      m \in up \/ family_base(m) = m
                        \/ (IsFast(m) /\ family_base(m) = Front(m)),
                      OffersAllLevels(m),
                      \A v \in Variants(m) : ~is_disabled(data, v),
                      NEW b \in Bodies
               PROVE  /\ Gate(data, holder, m, b, up, prices) = "open"
                      /\ Route(data, m, b, up, prices) \in up
    BY DEF ListedIsServed
  <2>1. /\ Spelled /\ m \in Names /\ m # Alias /\ Ruled(data) /\ Reportable(up)
        /\ Priced(prices) /\ allowed_by_groups(data, holder.groups, m)
    BY <1>1, MenuNames, SpelledConstants DEF ShapeInv, Shaped
  <2>2. PICK base : base = family_base(m)
    OBVIOUS
  <2>3. PICK f : f = IF family_has_variants(base, up) THEN base ELSE Cursor(base)
    OBVIOUS
  <2>4. base \notin up /\ family_has_variants(f, up) /\ AllLevels(f, up)
    BY <2>2, <2>3 DEF OffersAllLevels, AllLevels
  <2>5. PICK r : r = Route(data, m, b, up, prices)
    OBVIOUS
  <2>6. r \in up /\ Family(r) = Family(m)
    BY <2>1, <2>2, <2>3, <2>4, <2>5, Served
  <2>7. ~is_disabled(data, r)
    BY <2>6 DEF Variants
  <2>8. model_known(data, r, up)
    BY <2>1, <2>6, ReportedIsKnown
  <2>9. ~holder.card => allowed_by_groups(data, holder.groups, r)
    BY DEF KeyHolders, allowed_by_groups
  <2>10. Gate(data, holder, m, b, up, prices) = "open"
    BY <2>1, <2>5, <2>7, <2>8, <2>9 DEF Gate
  <2> QED BY <2>5, <2>6, <2>10
<1> QED BY <1>1, RegistryInvariant, PTL

------------------------------------------------------------------------------
(* Induction, and flattening. *)

\* Induction, for a set of natural numbers.
LEMMA AllNat ==
    ASSUME NEW S, 0 \in S, \A n \in Nat : n \in S => n + 1 \in S
    PROVE  \A n \in Nat : n \in S
<1> SUFFICES ASSUME NEW k \in Nat, k \notin S PROVE FALSE
  OBVIOUS
<1> DEFINE T == {n \in Nat : n \notin S}
<1>1. PICK x \in T : \A y \in T : x <= y
  <2>1. k \in T /\ T \in SUBSET Nat
    OBVIOUS
  <2> HIDE DEF T
  <2> QED BY <2>1, LeastNat
<1>2. x # 0 /\ x \in Nat /\ x - 1 \in Nat /\ x - 1 \notin T
  BY <1>1
<1>3. x - 1 \in S
  BY <1>2
<1>4. (x - 1) + 1 \in S
  BY <1>2, <1>3
<1> QED BY <1>1, <1>2, <1>4

\* What FlattenSeq builds up.
Flattens(f, s) ==
    f = [i \in 1..Len(s) |-> IF i = 1 THEN s[i] ELSE f[i - 1] \o s[i]]

\* There is such a function.
LEMMA Flattening ==
    ASSUME NEW s
    PROVE  \A n \in Nat : \E f :
              f = [i \in 1..n |-> IF i = 1 THEN s[i] ELSE f[i - 1] \o s[i]]
<1> DEFINE P(n) == \E f : f = [i \in 1..n |-> IF i = 1 THEN s[i] ELSE f[i - 1] \o s[i]]
           S == {n \in Nat : P(n)}
<1>1. 0 \in S
  <2>1. 1..0 = {}
    OBVIOUS
  <2>2. PICK f : f = [i \in 1..0 |-> i]
    OBVIOUS
  <2>3. f = [i \in 1..0 |-> IF i = 1 THEN s[i] ELSE f[i - 1] \o s[i]]
    BY <2>1, <2>2
  <2> QED BY <2>3
<1>2. ASSUME NEW n \in Nat, n \in S PROVE n + 1 \in S
  <2>1. PICK f : f = [i \in 1..n |-> IF i = 1 THEN s[i] ELSE f[i - 1] \o s[i]]
    BY <1>2
  <2>2. PICK end : end = IF n = 0 THEN s[1] ELSE f[n] \o s[n + 1]
    OBVIOUS
  <2>3. PICK g : g = [i \in 1..(n + 1) |-> IF i = n + 1 THEN end ELSE f[i]]
    OBVIOUS
  <2>4. ASSUME NEW i \in 1..(n + 1)
        PROVE  g[i] = IF i = 1 THEN s[i] ELSE g[i - 1] \o s[i]
    <3>1. CASE i = n + 1 /\ n = 0
      BY <3>1, <2>2, <2>3
    <3>2. CASE i = n + 1 /\ n # 0
      <4>1. i - 1 = n /\ i - 1 \in 1..(n + 1) /\ i # 1 /\ i - 1 # n + 1
        BY <3>2
      <4>2. g[i - 1] = f[n] /\ g[i] = end
        BY <4>1, <3>2, <2>3
      <4>3. end = f[n] \o s[n + 1]
        BY <3>2, <2>2
      <4> QED BY <4>1, <4>2, <4>3, <3>2
    <3>3. CASE i # n + 1 /\ i = 1
      BY <3>3, <2>1, <2>3
    <3>4. CASE i # n + 1 /\ i # 1
      <4>1. i \in 1..n /\ i - 1 \in 1..(n + 1) /\ i - 1 # n + 1
        BY <3>4
      <4>2. g[i] = f[i] /\ g[i - 1] = f[i - 1]
        BY <4>1, <2>3
      <4>3. f[i] = f[i - 1] \o s[i]
        BY <4>1, <3>4, <2>1
      <4> QED BY <4>2, <4>3, <3>4
    <3> QED BY <3>1, <3>2, <3>3, <3>4
  <2>5. g = [i \in 1..(n + 1) |-> IF i = 1 THEN s[i] ELSE g[i - 1] \o s[i]]
    BY <2>3, <2>4
  <2>6. P(n + 1)
    BY <2>5
  <2> HIDE DEF P
  <2> QED BY <2>6
<1> HIDE DEF S
<1>3. \A n \in Nat : n \in S
  BY <1>1, <1>2, AllNat
<1> QED BY <1>3 DEF S

\* FlattenSeq is the end value of such a function.
LEMMA FlattenIs ==
    ASSUME NEW s, Len(s) \in Nat, Len(s) # 0
    PROVE  \E f : Flattens(f, s) /\ FlattenSeq(s) = f[Len(s)]
<1>1. \E f : Flattens(f, s)
  BY Flattening DEF Flattens
<1>2. PICK f : f = CHOOSE g : Flattens(g, s)
  OBVIOUS
<1>3. Flattens(f, s)
  BY <1>1, <1>2
<1>4. FlattenSeq(s) = f[Len(s)]
  BY <1>2 DEF FlattenSeq, Flattens
<1> QED BY <1>3, <1>4

\* Nothing flattens to nothing.
LEMMA FlattenNone == FlattenSeq(<<>>) = <<>>
<1>1. Len(<<>>) = 0
  OBVIOUS
<1> QED BY <1>1, ZenonT(30) DEF FlattenSeq

------------------------------------------------------------------------------
(* Lists: sequences, whatever their elements. *)

List(s) == \E S : s \in Seq(S)

\* A list has a length.
LEMMA ListLength ==
    ASSUME NEW s, List(s)
    PROVE  /\ Len(s) \in Nat /\ DOMAIN s = 1..Len(s) /\ s = [i \in 1..Len(s) |-> s[i]]
           /\ Len(s) = 0 <=> s = <<>>
<1>1. PICK S : s \in Seq(S)
  BY DEF List
<1>2. Len(s) \in Nat /\ DOMAIN s = 1..Len(s)
  BY <1>1
<1>3. s = [i \in 1..Len(s) |-> s[i]]
  BY <1>1, <1>2
<1>4. Len(s) = 0 <=> s = <<>>
  BY <1>1, EmptySeq
<1> QED BY <1>2, <1>3, <1>4

\* A function on the numbers up to some n is a list.
LEMMA ListOf ==
    ASSUME NEW n \in Nat, NEW s, s = [i \in 1..n |-> s[i]]
    PROVE  List(s) /\ Len(s) = n
<1>1. PICK S : S = {s[i] : i \in 1..n}
  OBVIOUS
<1>2. s \in [1..n -> S]
  BY <1>1
<1>3. s \in Seq(S)
  BY <1>2
<1> QED BY <1>2, <1>3 DEF List

\* Two lists with the same elements are the same.
LEMMA ListEqual ==
    ASSUME NEW s, NEW u, List(s), List(u), Len(s) = Len(u), \A i \in 1..Len(s) : s[i] = u[i]
    PROVE  s = u
<1>1. s = [i \in 1..Len(s) |-> s[i]] /\ u = [i \in 1..Len(s) |-> u[i]]
  BY ListLength
<1>2. [i \in 1..Len(s) |-> s[i]] = [i \in 1..Len(s) |-> u[i]]
  OBVIOUS
<1> QED BY <1>1, <1>2

\* One element more.
LEMMA ListAppend ==
    ASSUME NEW s, NEW x, List(s)
    PROVE  /\ List(Append(s, x)) /\ Len(Append(s, x)) = Len(s) + 1 /\ Len(s) \in Nat
           /\ Append(s, x)[Len(s) + 1] = x /\ \A i \in 1..Len(s) : Append(s, x)[i] = s[i]
           /\ Append(s, x) # <<>>
<1>1. PICK S : s \in Seq(S)
  BY DEF List
<1>2. PICK T : T = S \cup {x}
  OBVIOUS
<1>3. s \in Seq(T) /\ x \in T
  BY <1>1, <1>2, SeqMonotonic
<1>4. Append(s, x) \in Seq(T)
  BY <1>3, AppendProperties
<1>5. List(Append(s, x))
  BY <1>4 DEF List
<1>6. /\ Len(Append(s, x)) = Len(s) + 1 /\ Len(s) \in Nat
      /\ Append(s, x)[Len(s) + 1] = x /\ \A i \in 1..Len(s) : Append(s, x)[i] = s[i]
  BY <1>3, AppendProperties
<1>7. Append(s, x) # <<>>
  BY <1>5, <1>6, ListLength
<1> QED BY <1>5, <1>6, <1>7

\* Short lists.
LEMMA ListShort ==
    /\ List(<<>>) /\ Len(<<>>) = 0
    /\ \A x : List(<<x>>) /\ Len(<<x>>) = 1 /\ <<x>>[1] = x /\ <<x>> # <<>>
              /\ <<x>> = Append(<<>>, x)
    /\ \A x, y : List(<<x, y>>) /\ Len(<<x, y>>) = 2 /\ <<x, y>>[1] = x /\ <<x, y>>[2] = y
                 /\ <<x, y>> # <<>> /\ <<x, y>> = Append(<<x>>, y)
<1>1. List(<<>>) /\ Len(<<>>) = 0
  BY EmptySeq DEF List
<1>2. ASSUME NEW x
      PROVE  List(<<x>>) /\ Len(<<x>>) = 1 /\ <<x>>[1] = x /\ <<x>> = Append(<<>>, x)
  <2>1. <<x>> \in Seq({x}) /\ Len(<<x>>) = 1 /\ <<x>>[1] = x
    OBVIOUS
  <2>2. List(<<x>>)
    BY <2>1 DEF List
  <2>3. /\ List(Append(<<>>, x)) /\ Len(Append(<<>>, x)) = Len(<<>>) + 1
        /\ Append(<<>>, x)[Len(<<>>) + 1] = x
    BY <1>1, ListAppend
  <2>4. Len(Append(<<>>, x)) = 1 /\ Append(<<>>, x)[1] = x
    BY <2>3, <1>1
  <2>5. <<x>> = Append(<<>>, x)
    BY <2>1, <2>2, <2>3, <2>4, ListEqual
  <2> QED BY <2>1, <2>2, <2>5
<1>3. ASSUME NEW x, NEW y
      PROVE  /\ List(<<x, y>>) /\ Len(<<x, y>>) = 2 /\ <<x, y>>[1] = x /\ <<x, y>>[2] = y
             /\ <<x, y>> = Append(<<x>>, y)
  <2>1. <<x, y>> \in Seq({x, y}) /\ Len(<<x, y>>) = 2 /\ <<x, y>>[1] = x /\ <<x, y>>[2] = y
    OBVIOUS
  <2>2. List(<<x, y>>)
    BY <2>1 DEF List
  <2>3. /\ List(Append(<<x>>, y)) /\ Len(Append(<<x>>, y)) = 1 + 1
        /\ Append(<<x>>, y)[1 + 1] = y /\ \A i \in 1..1 : Append(<<x>>, y)[i] = <<x>>[i]
    BY <1>2, ListAppend
  <2>4. /\ Len(Append(<<x>>, y)) = 2 /\ Append(<<x>>, y)[2] = y /\ Append(<<x>>, y)[1] = x
    BY <2>3, <1>2
  <2>5. \A i \in 1..2 : <<x, y>>[i] = Append(<<x>>, y)[i]
    BY <2>1, <2>4
  <2>6. <<x, y>> = Append(<<x>>, y)
    BY <2>1, <2>2, <2>3, <2>4, <2>5, ListEqual
  <2> QED BY <2>1, <2>2, <2>6
<1> QED BY <1>1, <1>2, <1>3, ListLength

\* Two lists joined.
LEMMA ListConcat ==
    ASSUME NEW s, NEW u, List(s), List(u)
    PROVE  /\ List(s \o u) /\ Len(s \o u) = Len(s) + Len(u)
           /\ Len(s) \in Nat /\ Len(u) \in Nat
           /\ \A i \in 1..Len(s) : (s \o u)[i] = s[i]
           /\ \A i \in 1..Len(u) : (s \o u)[Len(s) + i] = u[i]
<1>1. PICK S : s \in Seq(S)
  BY DEF List
<1>2. PICK U : u \in Seq(U)
  BY DEF List
<1>3. PICK T : T = S \cup U
  OBVIOUS
<1>4. s \in Seq(T) /\ u \in Seq(T)
  BY <1>1, <1>2, <1>3, SeqMonotonic
<1>5. s \o u \in Seq(T)
  BY <1>4, ConcatProperties
<1>6. /\ Len(s \o u) = Len(s) + Len(u) /\ Len(s) \in Nat /\ Len(u) \in Nat
      /\ \A i \in 1..(Len(s) + Len(u)) :
            (s \o u)[i] = IF i <= Len(s) THEN s[i] ELSE u[i - Len(s)]
  BY <1>4, ConcatProperties
<1>7. \A i \in 1..Len(s) : (s \o u)[i] = s[i]
  BY <1>6
<1>8. ASSUME NEW i \in 1..Len(u) PROVE (s \o u)[Len(s) + i] = u[i]
  <2>1. Len(s) + i \in 1..(Len(s) + Len(u)) /\ ~(Len(s) + i <= Len(s))
        /\ (Len(s) + i) - Len(s) = i
    BY <1>6
  <2> QED BY <2>1, <1>6
<1> QED BY <1>5, <1>6, <1>7, <1>8 DEF List

\* Joining what has one element more.
LEMMA ConcatOne ==
    ASSUME NEW s, NEW u, NEW x, List(s), List(u)
    PROVE  /\ s \o <<>> = s /\ <<>> \o s = s /\ s \o <<x>> = Append(s, x)
           /\ s \o Append(u, x) = Append(s \o u, x)
<1>1. PICK S : s \in Seq(S)
  BY DEF List
<1>2. s \o <<>> = s /\ <<>> \o s = s
  BY <1>1, ConcatEmptySeq
<1>3. s \o Append(u, x) = Append(s \o u, x)
  <2>1. PICK v : v = Append(u, x)
    OBVIOUS
  <2>2. /\ List(v) /\ Len(v) = Len(u) + 1 /\ Len(u) \in Nat /\ v[Len(u) + 1] = x
        /\ \A i \in 1..Len(u) : v[i] = u[i]
    BY <2>1, ListAppend
  <2>20. /\ List(s \o v) /\ Len(s \o v) = Len(s) + Len(v) /\ Len(s) \in Nat
         /\ \A i \in 1..Len(s) : (s \o v)[i] = s[i]
         /\ \A i \in 1..Len(v) : (s \o v)[Len(s) + i] = v[i]
    <3>1. List(v)
      BY <2>2
    <3> QED BY <3>1, ListConcat
  <2>3. PICK a : a = s \o v
    OBVIOUS
  <2>4. /\ List(a) /\ Len(a) = Len(s) + Len(v) /\ Len(s) \in Nat
        /\ \A i \in 1..Len(s) : a[i] = s[i]
        /\ \A i \in 1..Len(v) : a[Len(s) + i] = v[i]
    BY <2>3, <2>20
  <2>5. PICK b : b = s \o u
    OBVIOUS
  <2>6. /\ List(b) /\ Len(b) = Len(s) + Len(u)
        /\ \A i \in 1..Len(s) : b[i] = s[i]
        /\ \A i \in 1..Len(u) : b[Len(s) + i] = u[i]
    BY <2>5, ListConcat
  <2>7. PICK c : c = Append(b, x)
    OBVIOUS
  <2>8. /\ List(c) /\ Len(c) = Len(b) + 1 /\ c[Len(b) + 1] = x
        /\ \A i \in 1..Len(b) : c[i] = b[i]
    BY <2>6, <2>7, ListAppend
  <2>9. Len(a) = Len(c)
    BY <2>2, <2>4, <2>6, <2>8
  <2>10. ASSUME NEW i \in 1..Len(a) PROVE a[i] = c[i]
    <3>1. CASE i <= Len(s)
      <4>1. i \in 1..Len(s) /\ i \in 1..Len(b)
        BY <3>1, <2>2, <2>4, <2>6
      <4> QED BY <4>1, <2>4, <2>6, <2>8
    <3>2. CASE i > Len(s) /\ i <= Len(s) + Len(u)
      <4>1. PICK j \in 1..Len(u) : i = Len(s) + j
        <5>1. i - Len(s) \in 1..Len(u) /\ i = Len(s) + (i - Len(s))
          BY <3>2, <2>2, <2>4
        <5> QED BY <5>1
      <4>2. j \in 1..Len(v) /\ i \in 1..Len(b)
        BY <4>1, <3>2, <2>2, <2>4, <2>6
      <4> QED BY <4>1, <4>2, <2>2, <2>4, <2>6, <2>8
    <3>3. CASE i > Len(s) + Len(u)
      <4>1. i = Len(s) + (Len(u) + 1) /\ Len(u) + 1 \in 1..Len(v) /\ i = Len(b) + 1
        <5>1. i <= Len(s) + (Len(u) + 1) /\ Len(a) = Len(s) + (Len(u) + 1) /\ i \in Nat
          BY <2>2, <2>4
        <5>2. Len(s) \in Nat /\ Len(u) \in Nat /\ Len(v) = Len(u) + 1 /\ Len(b) = Len(s) + Len(u)
          BY <2>2, <2>4, <2>6
        <5> QED BY <5>1, <5>2, <3>3
      <4> QED BY <4>1, <2>2, <2>4, <2>8
    <3> QED BY <3>1, <3>2, <3>3, <2>2, <2>4
  <2>11. a = c
    BY <2>4, <2>8, <2>9, <2>10, ListEqual
  <2> QED BY <2>1, <2>3, <2>5, <2>7, <2>11
<1>4. s \o <<x>> = Append(s, x)
  <2>1. PICK w : w = Append(s, x)
    OBVIOUS
  <2>2. /\ List(w) /\ Len(w) = Len(s) + 1 /\ Len(s) \in Nat /\ w[Len(s) + 1] = x
        /\ \A i \in 1..Len(s) : w[i] = s[i]
    BY <2>1, ListAppend
  <2>3. List(<<x>>) /\ Len(<<x>>) = 1 /\ <<x>>[1] = x
    BY ListShort
  <2>4. PICK a : a = s \o <<x>>
    OBVIOUS
  <2>5. /\ List(a) /\ Len(a) = Len(s) + 1
        /\ \A i \in 1..Len(s) : a[i] = s[i]
        /\ \A i \in 1..Len(<<x>>) : a[Len(s) + i] = <<x>>[i]
    BY <2>3, <2>4, ListConcat
  <2>6. a[Len(s) + 1] = x
    BY <2>3, <2>5
  <2>7. \A i \in 1..Len(a) : i \in 1..Len(s) \/ i = Len(s) + 1
    BY <2>2, <2>5
  <2>8. \A i \in 1..Len(a) : a[i] = w[i]
    BY <2>2, <2>5, <2>6, <2>7
  <2>9. a = w
    BY <2>2, <2>5, <2>8, ListEqual
  <2> QED BY <2>1, <2>4, <2>9
<1> QED BY <1>2, <1>3, <1>4

\* One more list at the end is joined to the result.
LEMMA FlattenList ==
    ASSUME NEW s, NEW x, List(s), List(x)
    PROVE  FlattenSeq(Append(s, x)) = FlattenSeq(s) \o x
<1>1. PICK n \in Nat : n = Len(s)
  BY ListLength
<1>2. PICK a : a = Append(s, x)
  OBVIOUS
<1>3. /\ Len(a) = n + 1 /\ a[n + 1] = x /\ \A i \in 1..n : a[i] = s[i]
  BY <1>1, <1>2, ListAppend
<1>4. PICK g : Flattens(g, a) /\ FlattenSeq(a) = g[n + 1]
  BY <1>3, FlattenIs
<1>5. CASE n = 0
  <2>1. s = <<>> /\ FlattenSeq(s) = <<>>
    BY <1>1, <1>5, ListLength, FlattenNone
  <2>2. g[n + 1] = x
    BY <1>3, <1>4, <1>5 DEF Flattens
  <2>3. <<>> \o x = x
    BY ConcatOne
  <2> QED BY <2>1, <2>2, <2>3, <1>2, <1>4
<1>6. CASE n # 0
  <2>1. PICK f : Flattens(f, s) /\ FlattenSeq(s) = f[n]
    BY <1>1, <1>6, FlattenIs
  <2> DEFINE S == {i \in Nat : i \in 1..n => g[i] = f[i]}
  <2>2. ASSUME NEW i \in Nat, i \in S PROVE i + 1 \in S
    <3> SUFFICES ASSUME i + 1 \in 1..n PROVE g[i + 1] = f[i + 1]
      OBVIOUS
    <3>1. CASE i = 0
      BY <3>1, <1>1, <1>3, <1>4, <2>1 DEF Flattens
    <3>2. CASE i # 0
      <4>1. i \in 1..n /\ i + 1 \in 1..(n + 1) /\ (i + 1) - 1 = i /\ i + 1 # 1
        BY <3>2
      <4>2. g[i + 1] = g[i] \o a[i + 1]
        BY <4>1, <1>3, <1>4 DEF Flattens
      <4>3. f[i + 1] = f[i] \o s[i + 1]
        BY <4>1, <1>1, <2>1 DEF Flattens
      <4> QED BY <4>1, <4>2, <4>3, <2>2, <1>3
    <3> QED BY <3>1, <3>2
  <2>3. 0 \in S
    OBVIOUS
  <2> HIDE DEF S
  <2>4. n \in S
    BY <2>2, <2>3, AllNat
  <2>5. g[n] = f[n]
    BY <2>4, <1>6 DEF S
  <2>6. g[n + 1] = g[n] \o a[n + 1]
    <3>1. n + 1 \in 1..(n + 1) /\ n + 1 # 1 /\ (n + 1) - 1 = n
      BY <1>6
    <3> QED BY <3>1, <1>3, <1>4 DEF Flattens
  <2> QED BY <2>1, <2>5, <2>6, <1>2, <1>3, <1>4
<1> QED BY <1>5, <1>6

------------------------------------------------------------------------------
(* Choosing from a list. *)

\* What Chosen builds up, T being the indexes it takes.
Picks(f, s, T, n) ==
    f = [k \in 0..n |-> IF k = 0 THEN <<>>
                        ELSE IF k \in T THEN Append(f[k - 1], s[k]) ELSE f[k - 1]]

\* There is such a function.
LEMMA Picking ==
    ASSUME NEW s, NEW T PROVE \A n \in Nat : \E f : Picks(f, s, T, n)
<1> DEFINE S == {n \in Nat : \E f : Picks(f, s, T, n)}
<1>1. 0 \in S
  <2>1. PICK f : f = [k \in 0..0 |-> <<>>]
    OBVIOUS
  <2>2. Picks(f, s, T, 0)
    BY <2>1 DEF Picks
  <2> QED BY <2>2
<1>2. ASSUME NEW n \in Nat, n \in S PROVE n + 1 \in S
  <2>1. PICK f : Picks(f, s, T, n)
    BY <1>2
  <2>2. PICK z : z = IF n + 1 \in T THEN Append(f[n], s[n + 1]) ELSE f[n]
    OBVIOUS
  <2>3. PICK g : g = [k \in 0..(n + 1) |-> IF k = n + 1 THEN z ELSE f[k]]
    OBVIOUS
  <2>4. ASSUME NEW k \in 0..(n + 1)
        PROVE  g[k] = IF k = 0 THEN <<>>
                      ELSE IF k \in T THEN Append(g[k - 1], s[k]) ELSE g[k - 1]
    <3>1. CASE k = n + 1
      <4>1. k - 1 = n /\ k # 0 /\ n \in 0..(n + 1) /\ n # n + 1
        BY <3>1
      <4>2. g[k] = z /\ g[k - 1] = f[n]
        BY <4>1, <3>1, <2>3
      <4> QED BY <4>1, <4>2, <3>1, <2>2
    <3>2. CASE k # n + 1 /\ k # 0
      <4>1. k \in 0..n /\ k - 1 \in 0..(n + 1) /\ k - 1 # n + 1
        BY <3>2
      <4>2. g[k] = f[k] /\ g[k - 1] = f[k - 1]
        BY <4>1, <3>2, <2>3
      <4>3. f[k] = IF k \in T THEN Append(f[k - 1], s[k]) ELSE f[k - 1]
        BY <4>1, <3>2, <2>1 DEF Picks
      <4> QED BY <4>2, <4>3, <3>2
    <3>3. CASE k = 0
      <4>1. g[0] = f[0] /\ f[0] = <<>>
        BY <3>3, <2>1, <2>3 DEF Picks
      <4> QED BY <4>1, <3>3
    <3> QED BY <3>1, <3>2, <3>3
  <2>5. Picks(g, s, T, n + 1)
    BY <2>3, <2>4 DEF Picks
  <2> QED BY <2>5
<1> HIDE DEF S
<1>3. \A n \in Nat : n \in S
  BY <1>1, <1>2, AllNat
<1> QED BY <1>3 DEF S

\* It is decided by the elements and the indexes.
LEMMA PicksSame ==
    ASSUME NEW s, NEW u, NEW T, NEW U, NEW n \in Nat, NEW m \in Nat, n <= m,
           NEW f, NEW g, Picks(f, s, T, n), Picks(g, u, U, m),
           \A i \in 1..n : s[i] = u[i] /\ (i \in T <=> i \in U)
    PROVE  f[n] = g[n]
<1> DEFINE S == {k \in Nat : k \in 0..n => f[k] = g[k]}
<1>1. 0 \in S
  BY DEF Picks
<1>2. ASSUME NEW k \in Nat, k \in S PROVE k + 1 \in S
  <2> SUFFICES ASSUME k + 1 \in 0..n PROVE f[k + 1] = g[k + 1]
    OBVIOUS
  <2>1. /\ k + 1 # 0 /\ (k + 1) - 1 = k /\ k + 1 \in 1..n /\ k + 1 \in 0..m /\ k \in 0..n
    OBVIOUS
  <2>2. f[k + 1] = IF k + 1 \in T THEN Append(f[k], s[k + 1]) ELSE f[k]
    BY <2>1 DEF Picks
  <2>3. g[k + 1] = IF k + 1 \in U THEN Append(g[k], u[k + 1]) ELSE g[k]
    BY <2>1 DEF Picks
  <2> QED BY <1>2, <2>1, <2>2, <2>3
<1> HIDE DEF S
<1>3. n \in S
  BY <1>1, <1>2, AllNat
<1> QED BY <1>3 DEF S

\* The elements of s with an index in T.
PickedOut(s, T) == (CHOOSE f : Picks(f, s, T, Len(s)))[Len(s)]

\* It is the last value of such a function.
LEMMA PickedIs ==
    ASSUME NEW s, NEW T, Len(s) \in Nat, NEW f, Picks(f, s, T, Len(s))
    PROVE  PickedOut(s, T) = f[Len(s)]
<1>1. PICK g : g = CHOOSE h : Picks(h, s, T, Len(s))
  OBVIOUS
<1>2. Picks(g, s, T, Len(s))
  BY <1>1
<1>3. f[Len(s)] = g[Len(s)]
  BY <1>2, PicksSame
<1> QED BY <1>1, <1>3 DEF PickedOut

\* Nothing is chosen from nothing.
LEMMA PickedNone == ASSUME NEW T PROVE PickedOut(<<>>, T) = <<>>
<1>1. PICK f : Picks(f, <<>>, T, 0)
  BY Picking
<1>2. f[0] = <<>>
  BY <1>1 DEF Picks
<1>3. Len(<<>>) = 0
  BY ListShort
<1> QED BY <1>1, <1>2, <1>3, PickedIs

\* One more element is chosen or not.
LEMMA PickedAppend ==
    ASSUME NEW s, NEW x, List(s), NEW T, NEW U, \A i \in 1..Len(s) : i \in T <=> i \in U
    PROVE  PickedOut(Append(s, x), U) =
             IF Len(s) + 1 \in U THEN Append(PickedOut(s, T), x) ELSE PickedOut(s, T)
<1>1. PICK n \in Nat : n = Len(s)
  BY ListLength
<1>2. PICK a : a = Append(s, x)
  OBVIOUS
<1>3. Len(a) = n + 1 /\ a[n + 1] = x /\ \A i \in 1..n : a[i] = s[i]
  BY <1>1, <1>2, ListAppend
<1>4. PICK f : Picks(f, s, T, n)
  BY Picking
<1>5. PICK g : Picks(g, a, U, n + 1)
  BY Picking
<1>6. PickedOut(s, T) = f[n] /\ PickedOut(a, U) = g[n + 1]
  <2>1. PickedOut(s, T) = f[n]
    BY <1>1, <1>4, PickedIs
  <2>2. Len(a) \in Nat /\ Picks(g, a, U, Len(a))
    BY <1>3, <1>5
  <2> QED BY <2>1, <2>2, <1>3, PickedIs
<1>7. f[n] = g[n]
  <2>1. n + 1 \in Nat /\ n <= n + 1 /\ \A i \in 1..n : s[i] = a[i] /\ (i \in T <=> i \in U)
    BY <1>1, <1>3
  <2> QED BY <2>1, <1>4, <1>5, PicksSame
<1>8. g[n + 1] = IF n + 1 \in U THEN Append(g[n], a[n + 1]) ELSE g[n]
  <2>1. n + 1 \in 0..(n + 1) /\ n + 1 # 0 /\ (n + 1) - 1 = n
    OBVIOUS
  <2> QED BY <2>1, <1>5 DEF Picks
<1> QED BY <1>1, <1>2, <1>3, <1>6, <1>7, <1>8

\* The blocks of a type.
LEMMA OfTypeIs ==
    ASSUME NEW s, List(s), NEW type
    PROVE  OfType(s, type) = PickedOut(s, {i \in 1..Len(s) : s[i].type = type})
<1>1. PICK n \in Nat : n = Len(s)
  BY ListLength
<1>2. PICK T : T = {i \in 1..n : s[i].type = type}
  OBVIOUS
<1> DEFINE C(f) == f = [k \in 0..n |-> IF k = 0 THEN <<>>
                          ELSE IF s[k].type = type THEN Append(f[k - 1], s[k]) ELSE f[k - 1]]
<1>3. ASSUME NEW f PROVE C(f) <=> Picks(f, s, T, n)
  <2>1. \A k \in 0..n : k # 0 => (k \in T <=> s[k].type = type)
    BY <1>2
  <2>2. [k \in 0..n |-> IF k = 0 THEN <<>>
            ELSE IF s[k].type = type THEN Append(f[k - 1], s[k]) ELSE f[k - 1]]
        = [k \in 0..n |-> IF k = 0 THEN <<>>
            ELSE IF k \in T THEN Append(f[k - 1], s[k]) ELSE f[k - 1]]
    BY <2>1
  <2> QED BY <2>2 DEF Picks
<1>4. PICK g : Picks(g, s, T, n)
  BY Picking
<1>5. PICK f : f = CHOOSE h : C(h)
  OBVIOUS
<1>6. \E h : C(h)
  <2>1. C(g)
    BY <1>3, <1>4
  <2> HIDE DEF C
  <2> QED BY <2>1
<1>7. C(f)
  BY <1>5, <1>6
<1>8. OfType(s, type) = f[n]
  BY <1>1, <1>5 DEF Chosen, OfType
<1>9. Picks(f, s, T, n)
  BY <1>3, <1>7
<1> QED BY <1>1, <1>2, <1>8, <1>9, PickedIs

\* The images that have data.
WithData(s) == Chosen(LAMBDA b : b.data # "empty", s)
\* The messages that remain without images.
Spoken(s) == Chosen(LAMBDA m : m.role = "USER" => m.text # <<>>, s)

\* The images that have data, by their indexes.
LEMMA WithDataIs ==
    ASSUME NEW s, List(s)
    PROVE  WithData(s) = PickedOut(s, {i \in 1..Len(s) : s[i].data # "empty"})
<1>1. PICK n \in Nat : n = Len(s)
  BY ListLength
<1>2. PICK T : T = {i \in 1..n : s[i].data # "empty"}
  OBVIOUS
<1> DEFINE C(f) == f = [k \in 0..n |-> IF k = 0 THEN <<>>
                          ELSE IF s[k].data # "empty" THEN Append(f[k - 1], s[k]) ELSE f[k - 1]]
<1>3. ASSUME NEW f PROVE C(f) <=> Picks(f, s, T, n)
  <2>1. \A k \in 0..n : k # 0 => (k \in T <=> s[k].data # "empty")
    BY <1>2
  <2>2. [k \in 0..n |-> IF k = 0 THEN <<>>
            ELSE IF s[k].data # "empty" THEN Append(f[k - 1], s[k]) ELSE f[k - 1]]
        = [k \in 0..n |-> IF k = 0 THEN <<>>
            ELSE IF k \in T THEN Append(f[k - 1], s[k]) ELSE f[k - 1]]
    BY <2>1
  <2> QED BY <2>2 DEF Picks
<1>4. PICK g : Picks(g, s, T, n)
  BY Picking
<1>5. PICK f : f = CHOOSE h : C(h)
  OBVIOUS
<1>6. \E h : C(h)
  <2>1. C(g)
    BY <1>3, <1>4
  <2> HIDE DEF C
  <2> QED BY <2>1
<1>7. C(f)
  BY <1>5, <1>6
<1>8. WithData(s) = f[n]
  BY <1>1, <1>5 DEF Chosen, WithData
<1>9. Picks(f, s, T, n)
  BY <1>3, <1>7
<1> QED BY <1>1, <1>2, <1>8, <1>9, PickedIs

\* The messages that remain without images, by their indexes.
LEMMA SpokenIs ==
    ASSUME NEW s, List(s)
    PROVE  Spoken(s) = PickedOut(s, {i \in 1..Len(s) : (s[i].role = "USER" => s[i].text # <<>>)})
<1>1. PICK n \in Nat : n = Len(s)
  BY ListLength
<1>2. PICK T : T = {i \in 1..n : (s[i].role = "USER" => s[i].text # <<>>)}
  OBVIOUS
<1> DEFINE C(f) == f = [k \in 0..n |-> IF k = 0 THEN <<>>
                          ELSE IF (s[k].role = "USER" => s[k].text # <<>>) THEN Append(f[k - 1], s[k]) ELSE f[k - 1]]
<1>3. ASSUME NEW f PROVE C(f) <=> Picks(f, s, T, n)
  <2>1. \A k \in 0..n : k # 0 => (k \in T <=> (s[k].role = "USER" => s[k].text # <<>>))
    BY <1>2
  <2>2. [k \in 0..n |-> IF k = 0 THEN <<>>
            ELSE IF (s[k].role = "USER" => s[k].text # <<>>) THEN Append(f[k - 1], s[k]) ELSE f[k - 1]]
        = [k \in 0..n |-> IF k = 0 THEN <<>>
            ELSE IF k \in T THEN Append(f[k - 1], s[k]) ELSE f[k - 1]]
    BY <2>1
  <2> QED BY <2>2 DEF Picks
<1>4. PICK g : Picks(g, s, T, n)
  BY Picking
<1>5. PICK f : f = CHOOSE h : C(h)
  OBVIOUS
<1>6. \E h : C(h)
  <2>1. C(g)
    BY <1>3, <1>4
  <2> HIDE DEF C
  <2> QED BY <2>1
<1>7. C(f)
  BY <1>5, <1>6
<1>8. Spoken(s) = f[n]
  BY <1>1, <1>5 DEF Chosen, Spoken
<1>9. Picks(f, s, T, n)
  BY <1>3, <1>7
<1> QED BY <1>1, <1>2, <1>8, <1>9, PickedIs

\* OfType, with one element more.
LEMMA OfTypeAppend ==
    ASSUME NEW s, NEW x, List(s), NEW type
    PROVE  /\ OfType(<<>>, type) = <<>>
           /\ OfType(Append(s, x), type) =
                IF x.type = type THEN Append(OfType(s, type), x) ELSE OfType(s, type)
<1>1. PICK a : a = Append(s, x)
  OBVIOUS
<1>2. /\ List(a) /\ Len(a) = Len(s) + 1 /\ a[Len(s) + 1] = x /\ Len(s) \in Nat
      /\ \A i \in 1..Len(s) : a[i] = s[i]
  BY <1>1, ListAppend
<1>3. PICK T : T = {i \in 1..Len(s) : s[i].type = type}
  OBVIOUS
<1>4. PICK U : U = {i \in 1..Len(a) : a[i].type = type}
  OBVIOUS
<1>5. OfType(s, type) = PickedOut(s, T) /\ OfType(a, type) = PickedOut(a, U)
  BY <1>2, <1>3, <1>4, OfTypeIs
<1>6. \A i \in 1..Len(s) : i \in T <=> i \in U
  BY <1>2, <1>3, <1>4
<1>7. Len(s) + 1 \in U <=> x.type = type
  BY <1>2, <1>4
<1>8. PickedOut(a, U) = IF Len(s) + 1 \in U THEN Append(PickedOut(s, T), x) ELSE PickedOut(s, T)
  BY <1>1, <1>6, PickedAppend
<1>9. OfType(<<>>, type) = <<>>
  BY ListShort, OfTypeIs, PickedNone
<1> QED BY <1>1, <1>5, <1>7, <1>8, <1>9

\* WithData, with one element more.
LEMMA WithDataAppend ==
    ASSUME NEW s, NEW x, List(s)
    PROVE  /\ WithData(<<>>) = <<>>
           /\ WithData(Append(s, x)) =
                IF x.data # "empty" THEN Append(WithData(s), x) ELSE WithData(s)
<1>1. PICK a : a = Append(s, x)
  OBVIOUS
<1>2. /\ List(a) /\ Len(a) = Len(s) + 1 /\ a[Len(s) + 1] = x /\ Len(s) \in Nat
      /\ \A i \in 1..Len(s) : a[i] = s[i]
  BY <1>1, ListAppend
<1>3. PICK T : T = {i \in 1..Len(s) : s[i].data # "empty"}
  OBVIOUS
<1>4. PICK U : U = {i \in 1..Len(a) : a[i].data # "empty"}
  OBVIOUS
<1>5. WithData(s) = PickedOut(s, T) /\ WithData(a) = PickedOut(a, U)
  BY <1>2, <1>3, <1>4, WithDataIs
<1>6. \A i \in 1..Len(s) : i \in T <=> i \in U
  BY <1>2, <1>3, <1>4
<1>7. Len(s) + 1 \in U <=> x.data # "empty"
  BY <1>2, <1>4
<1>8. PickedOut(a, U) = IF Len(s) + 1 \in U THEN Append(PickedOut(s, T), x) ELSE PickedOut(s, T)
  BY <1>1, <1>6, PickedAppend
<1>9. WithData(<<>>) = <<>>
  BY ListShort, WithDataIs, PickedNone
<1> QED BY <1>1, <1>5, <1>7, <1>8, <1>9

\* Spoken, with one element more.
LEMMA SpokenAppend ==
    ASSUME NEW s, NEW x, List(s)
    PROVE  /\ Spoken(<<>>) = <<>>
           /\ Spoken(Append(s, x)) =
                IF (x.role = "USER" => x.text # <<>>) THEN Append(Spoken(s), x) ELSE Spoken(s)
<1>1. PICK a : a = Append(s, x)
  OBVIOUS
<1>2. /\ List(a) /\ Len(a) = Len(s) + 1 /\ a[Len(s) + 1] = x /\ Len(s) \in Nat
      /\ \A i \in 1..Len(s) : a[i] = s[i]
  BY <1>1, ListAppend
<1>3. PICK T : T = {i \in 1..Len(s) : (s[i].role = "USER" => s[i].text # <<>>)}
  OBVIOUS
<1>4. PICK U : U = {i \in 1..Len(a) : (a[i].role = "USER" => a[i].text # <<>>)}
  OBVIOUS
<1>5. Spoken(s) = PickedOut(s, T) /\ Spoken(a) = PickedOut(a, U)
  BY <1>2, <1>3, <1>4, SpokenIs
<1>6. \A i \in 1..Len(s) : i \in T <=> i \in U
  BY <1>2, <1>3, <1>4
<1>7. Len(s) + 1 \in U <=> (x.role = "USER" => x.text # <<>>)
  BY <1>2, <1>4
<1>8. PickedOut(a, U) = IF Len(s) + 1 \in U THEN Append(PickedOut(s, T), x) ELSE PickedOut(s, T)
  BY <1>1, <1>6, PickedAppend
<1>9. Spoken(<<>>) = <<>>
  BY ListShort, SpokenIs, PickedNone
<1> QED BY <1>1, <1>5, <1>7, <1>8, <1>9

------------------------------------------------------------------------------
(* Folding over a list, for the two operators that are folded. *)

\* The largest of the first n numbers, and of a set with the last of them.
LEMMA MaxOf ==
    ASSUME NEW n \in Nat
    PROVE  /\ Max(1..(n + 1)) = n + 1 /\ (1..(n + 1)) \ {n + 1} = 1..n
           /\ \A S \in SUBSET (1..(n + 1)) : n + 1 \in S => Max(S) = n + 1
<1>1. ASSUME NEW S \in SUBSET (1..(n + 1)), n + 1 \in S PROVE Max(S) = n + 1
  <2>1. \A y \in S : n + 1 >= y
    OBVIOUS
  <2>2. PICK x : x = Max(S)
    OBVIOUS
  <2>3. x \in S /\ \A y \in S : x >= y
    BY <2>1, <2>2, <1>1 DEF Max
  <2>4. x \in 1..(n + 1) /\ x >= n + 1
    BY <2>3, <1>1
  <2>5. x = n + 1
    BY <2>4
  <2> QED BY <2>2, <2>5
<1>2. n + 1 \in 1..(n + 1) /\ (1..(n + 1)) \ {n + 1} = 1..n
  OBVIOUS
<1>3. Max(1..(n + 1)) = n + 1
  BY <1>1, <1>2
<1> QED BY <1>1, <1>2, <1>3

\* Where the translation to Cursor messages starts, and what it has made of messages.
Start == [out |-> <<>>, names |-> {}, pending |-> <<>>]
Trans(messages) == FoldLeft(Translate, Start, messages)

\* There is the function that the fold of Translate is a value of.
LEMMA TranslateFolding ==
    ASSUME NEW s
    PROVE  \A n \in Nat : \E f : f = [S \in SUBSET (1..n) |->
              IF S = {} THEN Start ELSE Translate(f[S \ {Max(S)}], s[Max(S)])]
<1> DEFINE P(f, n) == f = [S \in SUBSET (1..n) |->
                             IF S = {} THEN Start ELSE Translate(f[S \ {Max(S)}], s[Max(S)])]
           H == {n \in Nat : \E f : P(f, n)}
<1>1. 0 \in H
  <2>1. SUBSET (1..0) = {{}}
    OBVIOUS
  <2>2. PICK f : f = [S \in SUBSET (1..0) |-> Start]
    OBVIOUS
  <2>3. [S \in SUBSET (1..0) |-> Start] = [S \in SUBSET (1..0) |->
            IF S = {} THEN Start ELSE Translate(f[S \ {Max(S)}], s[Max(S)])]
    BY <2>1
  <2>4. P(f, 0)
    BY <2>2, <2>3
  <2> HIDE DEF P
  <2> QED BY <2>4
<1>2. ASSUME NEW n \in Nat, n \in H PROVE n + 1 \in H
  <2>1. PICK f : P(f, n)
    BY <1>2
  <2>2. \A S \in SUBSET (1..n) :
            f[S] = IF S = {} THEN Start ELSE Translate(f[S \ {Max(S)}], s[Max(S)])
    BY <2>1
  <2>3. PICK g : g = [S \in SUBSET (1..(n + 1)) |->
                       IF n + 1 \in S THEN Translate(f[S \ {n + 1}], s[n + 1]) ELSE f[S]]
    OBVIOUS
  <2>4. ASSUME NEW S \in SUBSET (1..(n + 1))
        PROVE  g[S] = IF S = {} THEN Start ELSE Translate(g[S \ {Max(S)}], s[Max(S)])
    <3>1. CASE n + 1 \in S
      <4>1. Max(S) = n + 1 /\ S # {}
        BY <3>1, MaxOf
      <4>2. S \ {n + 1} \in SUBSET (1..(n + 1)) /\ n + 1 \notin S \ {n + 1}
        OBVIOUS
      <4>3. g[S \ {n + 1}] = f[S \ {n + 1}]
        BY <4>2, <2>3
      <4>4. g[S] = Translate(f[S \ {n + 1}], s[n + 1])
        BY <3>1, <2>3
      <4> QED BY <4>1, <4>3, <4>4
    <3>2. CASE n + 1 \notin S
      <4>1. S \in SUBSET (1..n)
        BY <3>2
      <4>2. g[S] = f[S]
        BY <3>2, <2>3
      <4>3. S \ {Max(S)} \in SUBSET (1..(n + 1)) /\ n + 1 \notin S \ {Max(S)}
        BY <3>2
      <4>4. g[S \ {Max(S)}] = f[S \ {Max(S)}]
        BY <4>3, <2>3
      <4>5. f[S] = IF S = {} THEN Start ELSE Translate(f[S \ {Max(S)}], s[Max(S)])
        BY <4>1, <2>2
      <4> QED BY <4>2, <4>4, <4>5
    <3> QED BY <3>1, <3>2
  <2>5. P(g, n + 1)
    BY <2>3, <2>4
  <2> HIDE DEF P
  <2> QED BY <2>5
<1> HIDE DEF H
<1>3. \A n \in Nat : n \in H
  BY <1>1, <1>2, AllNat
<1> QED BY <1>3 DEF H

\* It is the value for all indexes.
LEMMA TranslateFoldIs ==
    ASSUME NEW s, List(s)
    PROVE  \E f : /\ f = [S \in SUBSET (1..Len(s)) |->
                        IF S = {} THEN Start ELSE Translate(f[S \ {Max(S)}], s[Max(S)])]
                  /\ Trans(s) = f[1..Len(s)]
<1>1. Len(s) \in Nat /\ DOMAIN s = 1..Len(s)
  BY ListLength
<1> DEFINE P(f) == f = [S \in SUBSET (1..Len(s)) |->
                          IF S = {} THEN Start ELSE Translate(f[S \ {Max(S)}], s[Max(S)])]
<1>2. \E f : P(f)
  BY <1>1, TranslateFolding
<1>3. PICK f : f = CHOOSE h : P(h)
  OBVIOUS
<1>4. P(f)
  <2> HIDE DEF P
  <2> QED BY <1>2, <1>3
<1>5. Trans(s) = f[1..Len(s)]
  BY <1>1, <1>3 DEF Trans, FoldLeft, MapThenFoldSet
<1> QED BY <1>4, <1>5

\* One element more.
LEMMA TranslateAppend ==
    ASSUME NEW s, NEW x, List(s)
    PROVE  Trans(<<>>) = Start /\ Trans(Append(s, x)) = Translate(Trans(s), x)
<1>1. PICK n \in Nat : n = Len(s)
  BY ListLength
<1>2. PICK a : a = Append(s, x)
  OBVIOUS
<1>3. List(a) /\ Len(a) = n + 1 /\ a[n + 1] = x /\ \A i \in 1..n : a[i] = s[i]
  BY <1>1, <1>2, ListAppend
<1>4. PICK f : /\ f = [S \in SUBSET (1..n) |->
                     IF S = {} THEN Start ELSE Translate(f[S \ {Max(S)}], s[Max(S)])]
               /\ Trans(s) = f[1..n]
  BY <1>1, TranslateFoldIs
<1>5. PICK g : /\ g = [S \in SUBSET (1..(n + 1)) |->
                     IF S = {} THEN Start ELSE Translate(g[S \ {Max(S)}], a[Max(S)])]
               /\ Trans(a) = g[1..(n + 1)]
  BY <1>3, TranslateFoldIs
<1>6. ASSUME NEW i \in Nat, i <= n
      PROVE  /\ g[1..(i + 1)] = Translate(g[1..i], a[i + 1])
             /\ i < n => f[1..(i + 1)] = Translate(f[1..i], s[i + 1])
  <2>1. Max(1..(i + 1)) = i + 1 /\ (1..(i + 1)) \ {i + 1} = 1..i /\ 1..(i + 1) # {}
    <3>1. i + 1 \in 1..(i + 1)
      OBVIOUS
    <3> QED BY <3>1, MaxOf
  <2>2. 1..(i + 1) \in SUBSET (1..(n + 1)) /\ (i < n => 1..(i + 1) \in SUBSET (1..n))
    BY <1>6
  <2>3. g[1..(i + 1)] = Translate(g[1..i], a[i + 1])
    BY <2>1, <2>2, <1>5
  <2>4. i < n => f[1..(i + 1)] = Translate(f[1..i], s[i + 1])
    BY <2>1, <2>2, <1>4
  <2> QED BY <2>3, <2>4
<1> DEFINE H == {i \in Nat : i <= n => g[1..i] = f[1..i]}
<1>7. 0 \in H
  <2>1. 1..0 = {}
    OBVIOUS
  <2>2. g[{}] = Start /\ f[{}] = Start
    BY <1>4, <1>5
  <2> QED BY <2>1, <2>2
<1>8. ASSUME NEW i \in Nat, i \in H PROVE i + 1 \in H
  <2> SUFFICES ASSUME i + 1 <= n PROVE g[1..(i + 1)] = f[1..(i + 1)]
    OBVIOUS
  <2>1. i <= n /\ i < n /\ i + 1 \in 1..n
    OBVIOUS
  <2>2. g[1..i] = f[1..i]
    BY <1>8, <2>1
  <2> QED BY <2>1, <2>2, <1>3, <1>6
<1> HIDE DEF H
<1>9. n \in H
  BY <1>7, <1>8, AllNat
<1>10. g[1..n] = f[1..n]
  BY <1>9 DEF H
<1>11. g[1..(n + 1)] = Translate(g[1..n], a[n + 1])
  BY <1>6
<1>12. Trans(<<>>) = Start
  <2>1. PICK h : /\ h = [S \in SUBSET (1..0) |->
                       IF S = {} THEN Start ELSE Translate(h[S \ {Max(S)}], (<<>>)[Max(S)])]
                 /\ Trans(<<>>) = h[1..0]
    BY ListShort, TranslateFoldIs
  <2>2. 1..0 = {}
    OBVIOUS
  <2>3. h[{}] = Start
    BY <2>1
  <2> QED BY <2>1, <2>2, <2>3
<1> QED BY <1>2, <1>3, <1>4, <1>5, <1>10, <1>11, <1>12

\* What Merged does with one message more.
Combine(acc, m) ==
    IF acc # <<>> /\ m.role = "ASSISTANT" /\ acc[Len(acc)].role = "ASSISTANT"
    THEN [acc EXCEPT ![Len(acc)].text = @ \o m.text,
                     ![Len(acc)].toolCalls = @ \o m.toolCalls]
    ELSE Append(acc, m)

\* There is the function that what Merged makes is a value of.
LEMMA MergedFolding ==
    ASSUME NEW s
    PROVE  \A n \in Nat : \E f : f = [S \in SUBSET (1..n) |->
              IF S = {} THEN <<>> ELSE Combine(f[S \ {Max(S)}], s[Max(S)])]
<1> DEFINE P(f, n) == f = [S \in SUBSET (1..n) |->
                             IF S = {} THEN <<>> ELSE Combine(f[S \ {Max(S)}], s[Max(S)])]
           H == {n \in Nat : \E f : P(f, n)}
<1>1. 0 \in H
  <2>1. SUBSET (1..0) = {{}}
    OBVIOUS
  <2>2. PICK f : f = [S \in SUBSET (1..0) |-> <<>>]
    OBVIOUS
  <2>3. [S \in SUBSET (1..0) |-> <<>>] = [S \in SUBSET (1..0) |->
            IF S = {} THEN <<>> ELSE Combine(f[S \ {Max(S)}], s[Max(S)])]
    BY <2>1
  <2>4. P(f, 0)
    BY <2>2, <2>3
  <2> HIDE DEF P
  <2> QED BY <2>4
<1>2. ASSUME NEW n \in Nat, n \in H PROVE n + 1 \in H
  <2>1. PICK f : P(f, n)
    BY <1>2
  <2>2. \A S \in SUBSET (1..n) :
            f[S] = IF S = {} THEN <<>> ELSE Combine(f[S \ {Max(S)}], s[Max(S)])
    BY <2>1
  <2>3. PICK g : g = [S \in SUBSET (1..(n + 1)) |->
                       IF n + 1 \in S THEN Combine(f[S \ {n + 1}], s[n + 1]) ELSE f[S]]
    OBVIOUS
  <2>4. ASSUME NEW S \in SUBSET (1..(n + 1))
        PROVE  g[S] = IF S = {} THEN <<>> ELSE Combine(g[S \ {Max(S)}], s[Max(S)])
    <3>1. CASE n + 1 \in S
      <4>1. Max(S) = n + 1 /\ S # {}
        BY <3>1, MaxOf
      <4>2. S \ {n + 1} \in SUBSET (1..(n + 1)) /\ n + 1 \notin S \ {n + 1}
        OBVIOUS
      <4>3. g[S \ {n + 1}] = f[S \ {n + 1}]
        BY <4>2, <2>3
      <4>4. g[S] = Combine(f[S \ {n + 1}], s[n + 1])
        BY <3>1, <2>3
      <4> QED BY <4>1, <4>3, <4>4
    <3>2. CASE n + 1 \notin S
      <4>1. S \in SUBSET (1..n)
        BY <3>2
      <4>2. g[S] = f[S]
        BY <3>2, <2>3
      <4>3. S \ {Max(S)} \in SUBSET (1..(n + 1)) /\ n + 1 \notin S \ {Max(S)}
        BY <3>2
      <4>4. g[S \ {Max(S)}] = f[S \ {Max(S)}]
        BY <4>3, <2>3
      <4>5. f[S] = IF S = {} THEN <<>> ELSE Combine(f[S \ {Max(S)}], s[Max(S)])
        BY <4>1, <2>2
      <4> QED BY <4>2, <4>4, <4>5
    <3> QED BY <3>1, <3>2
  <2>5. P(g, n + 1)
    BY <2>3, <2>4
  <2> HIDE DEF P
  <2> QED BY <2>5
<1> HIDE DEF H
<1>3. \A n \in Nat : n \in H
  BY <1>1, <1>2, AllNat
<1> QED BY <1>3 DEF H

\* It is the value for all indexes.
LEMMA MergedFoldIs ==
    ASSUME NEW s, List(s)
    PROVE  \E f : /\ f = [S \in SUBSET (1..Len(s)) |->
                        IF S = {} THEN <<>> ELSE Combine(f[S \ {Max(S)}], s[Max(S)])]
                  /\ Merged(s) = f[1..Len(s)]
<1>1. Len(s) \in Nat /\ DOMAIN s = 1..Len(s)
  BY ListLength
<1> DEFINE P(f) == f = [S \in SUBSET (1..Len(s)) |->
                          IF S = {} THEN <<>> ELSE Combine(f[S \ {Max(S)}], s[Max(S)])]
<1>2. \E f : P(f)
  BY <1>1, MergedFolding
<1>3. PICK f : f = CHOOSE h : P(h)
  OBVIOUS
<1>4. P(f)
  <2> HIDE DEF P
  <2> QED BY <1>2, <1>3
<1>5. Merged(s) = f[1..Len(s)]
  BY <1>1, <1>3 DEF Merged, Combine, FoldLeft, MapThenFoldSet
<1> QED BY <1>4, <1>5

\* One element more.
LEMMA MergedAppend ==
    ASSUME NEW s, NEW x, List(s)
    PROVE  Merged(<<>>) = <<>> /\ Merged(Append(s, x)) = Combine(Merged(s), x)
<1>1. PICK n \in Nat : n = Len(s)
  BY ListLength
<1>2. PICK a : a = Append(s, x)
  OBVIOUS
<1>3. List(a) /\ Len(a) = n + 1 /\ a[n + 1] = x /\ \A i \in 1..n : a[i] = s[i]
  BY <1>1, <1>2, ListAppend
<1>4. PICK f : /\ f = [S \in SUBSET (1..n) |->
                     IF S = {} THEN <<>> ELSE Combine(f[S \ {Max(S)}], s[Max(S)])]
               /\ Merged(s) = f[1..n]
  BY <1>1, MergedFoldIs
<1>5. PICK g : /\ g = [S \in SUBSET (1..(n + 1)) |->
                     IF S = {} THEN <<>> ELSE Combine(g[S \ {Max(S)}], a[Max(S)])]
               /\ Merged(a) = g[1..(n + 1)]
  BY <1>3, MergedFoldIs
<1>6. ASSUME NEW i \in Nat, i <= n
      PROVE  /\ g[1..(i + 1)] = Combine(g[1..i], a[i + 1])
             /\ i < n => f[1..(i + 1)] = Combine(f[1..i], s[i + 1])
  <2>1. Max(1..(i + 1)) = i + 1 /\ (1..(i + 1)) \ {i + 1} = 1..i /\ 1..(i + 1) # {}
    <3>1. i + 1 \in 1..(i + 1)
      OBVIOUS
    <3> QED BY <3>1, MaxOf
  <2>2. 1..(i + 1) \in SUBSET (1..(n + 1)) /\ (i < n => 1..(i + 1) \in SUBSET (1..n))
    BY <1>6
  <2>3. g[1..(i + 1)] = Combine(g[1..i], a[i + 1])
    BY <2>1, <2>2, <1>5
  <2>4. i < n => f[1..(i + 1)] = Combine(f[1..i], s[i + 1])
    BY <2>1, <2>2, <1>4
  <2> QED BY <2>3, <2>4
<1> DEFINE H == {i \in Nat : i <= n => g[1..i] = f[1..i]}
<1>7. 0 \in H
  <2>1. 1..0 = {}
    OBVIOUS
  <2>2. g[{}] = <<>> /\ f[{}] = <<>>
    BY <1>4, <1>5
  <2> QED BY <2>1, <2>2
<1>8. ASSUME NEW i \in Nat, i \in H PROVE i + 1 \in H
  <2> SUFFICES ASSUME i + 1 <= n PROVE g[1..(i + 1)] = f[1..(i + 1)]
    OBVIOUS
  <2>1. i <= n /\ i < n /\ i + 1 \in 1..n
    OBVIOUS
  <2>2. g[1..i] = f[1..i]
    BY <1>8, <2>1
  <2> QED BY <2>1, <2>2, <1>3, <1>6
<1> HIDE DEF H
<1>9. n \in H
  BY <1>7, <1>8, AllNat
<1>10. g[1..n] = f[1..n]
  BY <1>9 DEF H
<1>11. g[1..(n + 1)] = Combine(g[1..n], a[n + 1])
  BY <1>6
<1>12. Merged(<<>>) = <<>>
  <2>1. PICK h : /\ h = [S \in SUBSET (1..0) |->
                       IF S = {} THEN <<>> ELSE Combine(h[S \ {Max(S)}], (<<>>)[Max(S)])]
                 /\ Merged(<<>>) = h[1..0]
    BY ListShort, MergedFoldIs
  <2>2. 1..0 = {}
    OBVIOUS
  <2>3. h[{}] = <<>>
    BY <2>1
  <2> QED BY <2>1, <2>2, <2>3
<1> QED BY <1>2, <1>3, <1>4, <1>5, <1>10, <1>11, <1>12

------------------------------------------------------------------------------
(* The blocks of a turn. *)

\* At most one, and at most two elements.
OneText(x) == x = <<>> \/ \E w : x = <<w>>
UpToTwo(s) == s = <<>> \/ (\E x : s = <<x>>) \/ (\E x, y : s = <<x, y>>)

\* Such lists are lists.
LEMMA ShortIsList == \A s : (OneText(s) => UpToTwo(s)) /\ (UpToTwo(s) => List(s))
BY ListShort DEF OneText, UpToTwo

\* A list as long as a short one is short.
LEMMA ShortImage ==
    ASSUME NEW s, UpToTwo(s), NEW u, List(u), Len(u) = Len(s)
    PROVE  UpToTwo(u) /\ (u = <<>> <=> s = <<>>)
<1>1. List(s) /\ Len(s) \in Nat
  BY ShortIsList, ListLength
<1>2. List(u) /\ Len(u) = Len(s)
  OBVIOUS
<1>3. CASE s = <<>>
  BY <1>1, <1>2, <1>3, ListLength DEF UpToTwo
<1>4. CASE \E x : s = <<x>>
  <2>1. Len(u) = 1 /\ s # <<>>
    BY <1>2, <1>4, ListShort
  <2>2. PICK a : a = u[1]
    OBVIOUS
  <2>3. PICK v : v = <<a>>
    OBVIOUS
  <2>5. List(v) /\ Len(v) = 1 /\ v[1] = a
    BY <2>3, ListShort
  <2>6. \A i \in 1..Len(u) : u[i] = v[i]
    <3>1. \A i \in 1..Len(u) : i = 1
      BY <2>1
    <3> QED BY <3>1, <2>2, <2>5
  <2>7. u = v
    BY <2>1, <2>5, <2>6, <1>2, ListEqual
  <2>4. u = <<a>>
    BY <2>3, <2>7
  <2> QED BY <2>1, <2>4, <1>2, ListShort DEF UpToTwo
<1>5. CASE \E x, y : s = <<x, y>>
  <2>1. Len(u) = 2 /\ s # <<>>
    BY <1>2, <1>5, ListShort
  <2>2. PICK a : a = u[1]
    OBVIOUS
  <2>3. PICK b : b = u[2]
    OBVIOUS
  <2>7. PICK v : v = <<a, b>>
    OBVIOUS
  <2>4. List(v) /\ Len(v) = 2 /\ v[1] = a /\ v[2] = b
    BY <2>7, ListShort
  <2>5. \A i \in 1..Len(u) : u[i] = v[i]
    <3>1. \A i \in 1..Len(u) : i = 1 \/ i = 2
      BY <2>1
    <3> QED BY <3>1, <2>2, <2>3, <2>4
  <2>8. u = v
    BY <2>1, <2>4, <2>5, <1>2, ListEqual
  <2>6. u = <<a, b>>
    BY <2>7, <2>8
  <2> QED BY <2>1, <2>6, <1>2, ListShort DEF UpToTwo
<1> QED BY <1>3, <1>4, <1>5 DEF UpToTwo

\* Short lists of blocks that have the type k.
Blocks(u, k) == UpToTwo(u) /\ \A i \in 1..Len(u) : u[i].type = k
Only(u, k, type) == IF k = type THEN u ELSE <<>>

\* Blocks of one type behind others.
LEMMA OfTypeConcat ==
    ASSUME NEW s, NEW u, NEW k, NEW type, List(s), Blocks(u, k), List(OfType(s, type))
    PROVE  /\ OfType(s \o u, type) = OfType(s, type) \o Only(u, k, type)
           /\ List(s \o u) /\ List(OfType(s \o u, type))
<1>1. PICK o : o = OfType(s, type)
  OBVIOUS
<1>2. List(o) /\ o \o <<>> = o /\ s \o <<>> = s
  BY <1>1, ConcatOne
<1>3. CASE u = <<>>
  BY <1>1, <1>2, <1>3 DEF Only
<1>4. ASSUME NEW a, u = <<a>> PROVE OfType(s \o u, type) = o \o Only(u, k, type)
  <2>1. s \o u = Append(s, a) /\ o \o <<a>> = Append(o, a)
    BY <1>2, <1>4, ConcatOne
  <2>2. a.type = k
    BY <1>4, ListShort DEF Blocks
  <2>3. OfType(Append(s, a), type) = IF a.type = type THEN Append(o, a) ELSE o
    BY <1>1, OfTypeAppend
  <2> QED BY <2>1, <2>2, <2>3, <1>2, <1>4 DEF Only
<1>5. ASSUME NEW a, NEW b, u = <<a, b>> PROVE OfType(s \o u, type) = o \o Only(u, k, type)
  <2>1. <<a, b>> = Append(<<a>>, b) /\ List(<<a>>)
    BY ListShort
  <2>2. s \o u = Append(s \o <<a>>, b) /\ s \o <<a>> = Append(s, a)
    BY <2>1, <1>5, ConcatOne
  <2>3. o \o u = Append(o \o <<a>>, b) /\ o \o <<a>> = Append(o, a)
    BY <2>1, <1>2, <1>5, ConcatOne
  <2>4. a.type = k /\ b.type = k
    <3>1. Len(u) = 2 /\ u[1] = a /\ u[2] = b
      BY <1>5, ListShort
    <3> QED BY <3>1 DEF Blocks
  <2>5. OfType(Append(s, a), type) = IF a.type = type THEN Append(o, a) ELSE o
    BY <1>1, OfTypeAppend
  <2>6. List(Append(s, a))
    BY ListAppend
  <2>7. OfType(Append(Append(s, a), b), type) =
          IF b.type = type THEN Append(OfType(Append(s, a), type), b)
          ELSE OfType(Append(s, a), type)
    BY <2>6, OfTypeAppend
  <2> QED BY <2>2, <2>3, <2>4, <2>5, <2>7, <1>2 DEF Only
<1>6. OfType(s \o u, type) = o \o Only(u, k, type)
  BY <1>1, <1>3, <1>4, <1>5 DEF Blocks, UpToTwo
<1>7. List(u) /\ List(Only(u, k, type))
  BY ShortIsList, ListShort DEF Blocks, Only
<1>8. List(s \o u) /\ List(o \o Only(u, k, type))
  BY <1>2, <1>7, ListConcat
<1> QED BY <1>1, <1>6, <1>8

\* Blocks of one type.
LEMMA OfTypeOne ==
    ASSUME NEW a, NEW k, NEW type, Blocks(a, k)
    PROVE  OfType(a, type) = Only(a, k, type) /\ List(OfType(a, type)) /\ List(a)
<1>1. PICK e : e = <<>>
  OBVIOUS
<1>2. List(e) /\ OfType(e, type) = e /\ List(OfType(e, type))
  BY <1>1, ListShort, OfTypeAppend
<1>3. List(a) /\ List(Only(a, k, type))
  BY ShortIsList, ListShort DEF Blocks, Only
<1>4. e \o a = a /\ e \o Only(a, k, type) = Only(a, k, type)
  BY <1>1, <1>3, ConcatOne
<1>6. List(e) /\ List(OfType(e, type))
  BY <1>2
<1>5. /\ OfType(e \o a, type) = OfType(e, type) \o Only(a, k, type)
      /\ List(OfType(e \o a, type))
  BY <1>6, OfTypeConcat
<1> QED BY <1>2, <1>3, <1>4, <1>5

\* Two groups of blocks.
LEMMA OfTypePair ==
    ASSUME NEW a, NEW b, NEW k, NEW l, NEW type, Blocks(a, k), Blocks(b, l)
    PROVE  /\ OfType(a \o b, type) = Only(a, k, type) \o Only(b, l, type)
           /\ List(a \o b) /\ List(OfType(a \o b, type))
<1>1. OfType(a, type) = Only(a, k, type) /\ List(OfType(a, type)) /\ List(a)
  BY OfTypeOne
<1>2. /\ OfType(a \o b, type) = OfType(a, type) \o Only(b, l, type)
      /\ List(a \o b) /\ List(OfType(a \o b, type))
  BY <1>1, OfTypeConcat
<1> QED BY <1>1, <1>2

\* Three groups of blocks.
LEMMA OfTypeTriple ==
    ASSUME NEW a, NEW b, NEW c, NEW k, NEW l, NEW m, NEW type,
           Blocks(a, k), Blocks(b, l), Blocks(c, m)
    PROVE  OfType((a \o b) \o c, type) =
                (Only(a, k, type) \o Only(b, l, type)) \o Only(c, m, type)
<1>1. PICK ab : ab = a \o b
  OBVIOUS
<1>2. /\ OfType(ab, type) = Only(a, k, type) \o Only(b, l, type)
      /\ List(ab) /\ List(OfType(ab, type))
  BY <1>1, OfTypePair
<1>4. List(ab) /\ List(OfType(ab, type))
  BY <1>2
<1>3. OfType(ab \o c, type) = OfType(ab, type) \o Only(c, m, type)
  BY <1>4, OfTypeConcat
<1> QED BY <1>1, <1>2, <1>3

------------------------------------------------------------------------------
(* What each dialect makes of a turn. *)

\* The images that are sent on, and the calls and results of a turn in each form.
Pics(image) == IF image \in {"none", "empty"} THEN <<>>
               ELSE <<[type |-> "image", data |-> image]>>
CallAsked(id) == [id |-> id, name |-> ToolOf(id), arguments |-> Serialised(Input(id))]
AskedAll(ids) == [i \in 1..Len(ids) |-> CallAsked(ids[i])]
Uses(ids) == [i \in 1..Len(ids) |-> [type |-> "tool_use", id |-> ids[i],
                                     name |-> ToolOf(ids[i]), input |-> Input(ids[i])]]
Returned(ids) == [i \in 1..Len(ids) |-> [type |-> "tool_result", id |-> ids[i],
                                         output |-> Output(ids[i])]]
Told(ids) == [i \in 1..Len(ids) |-> ChatResult(ids[i], Output(ids[i]))]

\* Lists made element by element.
LEMMA MadeOf ==
    ASSUME NEW s, UpToTwo(s)
    PROVE  /\ Len(s) \in Nat
           /\ UpToTwo(AskedAll(s)) /\ Len(AskedAll(s)) = Len(s)
           /\ (AskedAll(s) = <<>> <=> s = <<>>)
           /\ UpToTwo(Told(s)) /\ Len(Told(s)) = Len(s)
           /\ Blocks(Uses(s), "tool_use") /\ Len(Uses(s)) = Len(s) /\ (Uses(s) = <<>> <=> s = <<>>)
           /\ Blocks(Returned(s), "tool_result") /\ Len(Returned(s)) = Len(s)
           /\ Blocks(TextBlocks(s), "text") /\ Len(TextBlocks(s)) = Len(s)
<1>1. List(s) /\ Len(s) \in Nat
  BY ShortIsList, ListLength
<1>2. UpToTwo(AskedAll(s)) /\ Len(AskedAll(s)) = Len(s) /\ (AskedAll(s) = <<>> <=> s = <<>>)
  <2>1. PICK u : u = AskedAll(s)
    OBVIOUS
  <2>2. u = [i \in 1..Len(s) |-> u[i]]
    BY <2>1 DEF AskedAll
  <2>3. List(u) /\ Len(u) = Len(s)
    BY <2>2, <1>1, ListOf
  <2> QED BY <2>1, <2>3, ShortImage
<1>3. UpToTwo(Told(s)) /\ Len(Told(s)) = Len(s)
  <2>1. PICK u : u = Told(s)
    OBVIOUS
  <2>2. u = [i \in 1..Len(s) |-> u[i]]
    BY <2>1 DEF Told
  <2>3. List(u) /\ Len(u) = Len(s)
    BY <2>2, <1>1, ListOf
  <2> QED BY <2>1, <2>3, ShortImage
<1>4. Blocks(Uses(s), "tool_use") /\ Len(Uses(s)) = Len(s) /\ (Uses(s) = <<>> <=> s = <<>>)
  <2>1. PICK u : u = Uses(s)
    OBVIOUS
  <2>2. u = [i \in 1..Len(s) |-> u[i]] /\ \A i \in 1..Len(s) : u[i].type = "tool_use"
    BY <2>1 DEF Uses
  <2>3. List(u) /\ Len(u) = Len(s)
    BY <2>2, <1>1, ListOf
  <2>4. UpToTwo(u) /\ (u = <<>> <=> s = <<>>)
    BY <2>3, ShortImage
  <2> QED BY <2>1, <2>2, <2>3, <2>4 DEF Blocks
<1>5. Blocks(Returned(s), "tool_result") /\ Len(Returned(s)) = Len(s)
  <2>1. PICK u : u = Returned(s)
    OBVIOUS
  <2>2. u = [i \in 1..Len(s) |-> u[i]] /\ \A i \in 1..Len(s) : u[i].type = "tool_result"
    BY <2>1 DEF Returned
  <2>3. List(u) /\ Len(u) = Len(s)
    BY <2>2, <1>1, ListOf
  <2>4. UpToTwo(u)
    BY <2>3, ShortImage
  <2> QED BY <2>1, <2>2, <2>3, <2>4 DEF Blocks
<1>6. Blocks(TextBlocks(s), "text") /\ Len(TextBlocks(s)) = Len(s)
  <2>1. PICK u : u = TextBlocks(s)
    OBVIOUS
  <2>2. u = [i \in 1..Len(s) |-> u[i]] /\ \A i \in 1..Len(s) : u[i].type = "text"
    BY <2>1 DEF TextBlocks
  <2>3. List(u) /\ Len(u) = Len(s)
    BY <2>2, <1>1, ListOf
  <2>4. UpToTwo(u)
    BY <2>3, ShortImage
  <2> QED BY <2>1, <2>2, <2>3, <2>4 DEF Blocks
<1> QED BY <1>1, <1>2, <1>3, <1>4, <1>5, <1>6

\* The pieces of text blocks are the text.
LEMMA PiecesAre == ASSUME NEW x, OneText(x) PROVE Pieces(TextBlocks(x)) = x
<1>1. UpToTwo(x) /\ List(x)
  BY ShortIsList
<1>2. Len(TextBlocks(x)) = Len(x) /\ Len(x) \in Nat /\ x = [i \in 1..Len(x) |-> x[i]]
  BY <1>1, MadeOf, ListLength
<1>3. \A i \in 1..Len(x) : TextBlocks(x)[i].piece = x[i]
  BY DEF TextBlocks
<1>4. [i \in 1..Len(x) |-> TextBlocks(x)[i].piece] = [i \in 1..Len(x) |-> x[i]]
  BY <1>3
<1> QED BY <1>2, <1>4 DEF Pieces

\* The blocks of an image, and what is sent on of them.
LEMMA ImageBlocksAre ==
    ASSUME NEW image
    PROVE  Blocks(ImageBlocks(image), "image") /\ WithData(ImageBlocks(image)) = Pics(image)
           /\ WithData(<<>>) = <<>>
<1>1. WithData(<<>>) = <<>>
  BY ListShort, WithDataAppend
<1>2. CASE image = "none"
  <2>1. ImageBlocks(image) = <<>> /\ Pics(image) = <<>>
    BY <1>2 DEF ImageBlocks, Pics
  <2>2. Blocks(<<>>, "image")
    BY ListShort DEF Blocks, UpToTwo
  <2> QED BY <1>1, <2>1, <2>2
<1>3. CASE image # "none"
  <2>1. PICK b : b = [type |-> "image", data |-> image]
    OBVIOUS
  <2>2. ImageBlocks(image) = <<b>> /\ b.type = "image" /\ b.data = image
    BY <1>3, <2>1 DEF ImageBlocks
  <2>3. Blocks(<<b>>, "image")
    BY <2>2, ListShort DEF Blocks, UpToTwo
  <2>4. List(<<>>) /\ <<b>> = Append(<<>>, b)
    BY ListShort
  <2>5. WithData(Append(<<>>, b)) = IF b.data # "empty" THEN Append(WithData(<<>>), b)
                                   ELSE WithData(<<>>)
    BY <2>4, WithDataAppend
  <2>6. Pics(image) = IF image # "empty" THEN <<b>> ELSE <<>>
    BY <1>3, <2>1 DEF Pics
  <2> QED BY <1>1, <2>2, <2>3, <2>4, <2>5, <2>6
<1> QED BY <1>2, <1>3

\* The content of a turn with a text and an image, and of one with a text.
LEMMA ContentIs ==
    ASSUME NEW x, OneText(x), NEW image
    PROVE  /\ Content(TextBlocks(x) \o ImageBlocks(image)) = [text |-> x, images |-> Pics(image)]
           /\ content_to_text(ImageBlocks(image) \o TextBlocks(x)) = x
           /\ Content(TextBlocks(x)) = PlainContent(x)
<1>1. PICK a : a = TextBlocks(x)
  OBVIOUS
<1>2. PICK b : b = ImageBlocks(image)
  OBVIOUS
<1>3. UpToTwo(x)
  BY ShortIsList
<1>4. Blocks(a, "text") /\ Blocks(b, "image") /\ Pieces(a) = x /\ List(a) /\ List(b)
  BY <1>1, <1>2, <1>3, MadeOf, PiecesAre, ImageBlocksAre, ShortIsList DEF Blocks
<1>5. WithData(b) = Pics(image) /\ WithData(<<>>) = <<>>
  BY <1>2, ImageBlocksAre
<1>6. /\ OfType(a \o b, "text") = Only(a, "text", "text") \o Only(b, "image", "text")
      /\ OfType(a \o b, "image") = Only(a, "text", "image") \o Only(b, "image", "image")
      /\ OfType(b \o a, "text") = Only(b, "image", "text") \o Only(a, "text", "text")
      /\ OfType(a, "text") = Only(a, "text", "text")
      /\ OfType(a, "image") = Only(a, "text", "image")
  <2>0. Blocks(a, "text") /\ Blocks(b, "image")
    BY <1>4
  <2>1. OfType(a \o b, "text") = Only(a, "text", "text") \o Only(b, "image", "text")
    BY <2>0, OfTypePair
  <2>2. OfType(a \o b, "image") = Only(a, "text", "image") \o Only(b, "image", "image")
    BY <2>0, OfTypePair
  <2>3. OfType(b \o a, "text") = Only(b, "image", "text") \o Only(a, "text", "text")
    BY <2>0, OfTypePair
  <2>4. /\ OfType(a, "text") = Only(a, "text", "text")
        /\ OfType(a, "image") = Only(a, "text", "image")
    BY <2>0, OfTypeOne
  <2> QED BY <2>1, <2>2, <2>3, <2>4
<1>7. /\ Only(a, "text", "text") = a /\ Only(b, "image", "image") = b
      /\ Only(a, "text", "image") = <<>> /\ Only(b, "image", "text") = <<>>
  BY DEF Only
<1>8. a \o <<>> = a /\ <<>> \o b = b /\ <<>> \o a = a
  BY <1>4, ConcatOne
<1>9. /\ OfType(a \o b, "text") = a /\ OfType(a \o b, "image") = b /\ OfType(b \o a, "text") = a
      /\ OfType(a, "text") = a /\ OfType(a, "image") = <<>>
  BY <1>6, <1>7, <1>8
<1>10. \A s : content_images(s) = WithData(OfType(s, "image"))
  BY DEF content_images, WithData
<1> QED BY <1>1, <1>2, <1>4, <1>5, <1>9, <1>10 DEF Content, PlainContent, content_to_text

------------------------------------------------------------------------------
(* The messages of a turn. *)

\* Chat messages and Responses items of a turn.
Says(x, images) == ChatMessage("user", [text |-> x, images |-> images])
Items(s) == [i \in 1..Len(s) |-> ResponsesItem(s[i])]
CallItems(ids) == [i \in 1..Len(ids) |->
                     [type |-> "function_call", id |-> ids[i], name |-> ToolOf(ids[i]),
                      arguments |-> Serialised(Input(ids[i]))]]
ResultItems(ids) == [i \in 1..Len(ids) |->
                       [type |-> "function_call_output", id |-> ids[i],
                        output |-> Output(ids[i])]]
OneByOne(ids) == [i \in 1..Len(ids) |-> ChatCalls(<<>>, <<CallAsked(ids[i])>>)]

\* A turn in the Chat form.
LEMMA ChatTurns ==
    ASSUME NEW x, OneText(x), NEW image, NEW ids, NEW first
    PROVE  /\ ChatTurn(User(x, image)) = <<Says(x, Pics(image))>>
           /\ ChatTurn(Answer(x, ids)) = <<ChatCalls(x, AskedAll(ids))>>
           /\ ChatTurn(Results(ids, x, first)) = Told(ids) \o TextMessage("user", x)
<1>1. ChatTurn(User(x, image)) = <<Says(x, Pics(image))>>
  <2>1. ChatTurn(User(x, image)) =
          <<ChatMessage("user", Content(TextBlocks(x) \o ImageBlocks(image)))>>
    BY DEF ChatTurn, User
  <2> QED BY <2>1, ContentIs DEF Says
<1>2. ChatTurn(Answer(x, ids)) = <<ChatCalls(x, AskedAll(ids))>>
  BY DEF ChatTurn, Answer, AskedAll, CallAsked
<1>3. ChatTurn(Results(ids, x, first)) = Told(ids) \o TextMessage("user", x)
  BY DEF ChatTurn, Results, Told
<1> QED BY <1>1, <1>2, <1>3

\* The calls and the results among the blocks of a message.
LEMMA CallsAmong ==
    ASSUME NEW blocks, NEW ids, UpToTwo(ids)
    PROVE  /\ OfType(blocks, "tool_use") = Uses(ids) => ToolUses(blocks) = AskedAll(ids)
           /\ OfType(blocks, "tool_result") = Returned(ids) => ToolResults(blocks) = Told(ids)
           /\ OfType(blocks, "tool_result") = <<>> => ToolResults(blocks) = <<>>
<1>1. Len(Uses(ids)) = Len(ids) /\ Len(Returned(ids)) = Len(ids)
  BY MadeOf
<1>2. ASSUME OfType(blocks, "tool_use") = Uses(ids) PROVE ToolUses(blocks) = AskedAll(ids)
  <2>1. \A i \in 1..Len(ids) : /\ Uses(ids)[i].id = ids[i] /\ Uses(ids)[i].name = ToolOf(ids[i])
                               /\ Uses(ids)[i].input = Input(ids[i])
    BY DEF Uses
  <2>2. [i \in 1..Len(ids) |-> [id |-> Uses(ids)[i].id, name |-> Uses(ids)[i].name,
                                arguments |-> Serialised(Uses(ids)[i].input)]]
          = [i \in 1..Len(ids) |-> [id |-> ids[i], name |-> ToolOf(ids[i]),
                                    arguments |-> Serialised(Input(ids[i]))]]
    BY <2>1
  <2> QED BY <1>1, <1>2, <2>2 DEF ToolUses, AskedAll, CallAsked
<1>3. ASSUME OfType(blocks, "tool_result") = Returned(ids) PROVE ToolResults(blocks) = Told(ids)
  <2>1. \A i \in 1..Len(ids) : /\ Returned(ids)[i].id = ids[i]
                               /\ Returned(ids)[i].output = Output(ids[i])
    BY DEF Returned
  <2>2. [i \in 1..Len(ids) |-> ChatResult(Returned(ids)[i].id, Returned(ids)[i].output)]
          = [i \in 1..Len(ids) |-> ChatResult(ids[i], Output(ids[i]))]
    BY <2>1
  <2> QED BY <1>1, <1>3, <2>2 DEF ToolResults, Told
<1>4. ASSUME OfType(blocks, "tool_result") = <<>> PROVE ToolResults(blocks) = <<>>
  <2>1. PICK u : u = ToolResults(blocks)
    OBVIOUS
  <2>2. u = [i \in 1..0 |-> u[i]]
    BY <1>4, <2>1, ListShort DEF ToolResults
  <2>3. List(u) /\ Len(u) = 0
    BY <2>2, ListOf
  <2> QED BY <2>1, <2>3, ListLength
<1> QED BY <1>2, <1>3, <1>4

\* A user turn of the Anthropic form.
LEMMA AnthropicUser ==
    ASSUME NEW x, OneText(x), NEW image
    PROVE  AnthropicMessage(AnthropicTurn(User(x, image))) = TextMessage("user", x)
<1>1. PICK m : m = AnthropicTurn(User(x, image))
  OBVIOUS
<1>2. m.role = "user" /\ m.blocks = ImageBlocks(image) \o TextBlocks(x)
  BY <1>1 DEF AnthropicTurn, User
<1>3. UpToTwo(x) /\ UpToTwo(<<>>)
  BY ShortIsList DEF UpToTwo
<1>4. Blocks(ImageBlocks(image), "image") /\ Blocks(TextBlocks(x), "text")
  BY <1>3, ImageBlocksAre, MadeOf
<1>5. OfType(m.blocks, "tool_result") =
        Only(ImageBlocks(image), "image", "tool_result") \o Only(TextBlocks(x), "text", "tool_result")
  BY <1>2, <1>4, OfTypePair
<1>6. OfType(m.blocks, "tool_result") = <<>>
  BY <1>5, ConcatOne, ListShort DEF Only
<1>7. ToolResults(m.blocks) = <<>>
  BY <1>3, <1>6, CallsAmong
<1>8. content_to_text(m.blocks) = x
  BY <1>2, ContentIs
<1>9. List(TextMessage("user", x))
  BY ListShort DEF TextMessage
<1>10. <<>> \o TextMessage("user", x) = TextMessage("user", x)
  BY <1>9, ConcatOne
<1> QED BY <1>1, <1>2, <1>7, <1>8, <1>10 DEF AnthropicMessage

\* An answer of the Anthropic form.
LEMMA AnthropicAnswer ==
    ASSUME NEW x, OneText(x), NEW ids, UpToTwo(ids), x # <<>> \/ ids # <<>>
    PROVE  AnthropicMessage(AnthropicTurn(Answer(x, ids))) = <<ChatCalls(x, AskedAll(ids))>>
<1>1. PICK m : m = AnthropicTurn(Answer(x, ids))
  OBVIOUS
<1>10. PICK h : h = [type |-> "thinking"]
  OBVIOUS
<1>2. m.role = "assistant" /\ m.blocks = (<<h>> \o TextBlocks(x)) \o Uses(ids)
  BY <1>1, <1>10 DEF AnthropicTurn, Answer, Uses
<1>3. UpToTwo(x) /\ UpToTwo(<<>>) /\ UpToTwo(<<h>>)
  BY ShortIsList DEF UpToTwo
<1>4. Blocks(<<h>>, "thinking") /\ Blocks(TextBlocks(x), "text") /\ Blocks(Uses(ids), "tool_use")
  <2>1. Len(<<h>>) = 1 /\ <<h>>[1].type = "thinking"
    BY <1>10, ListShort
  <2>2. \A i \in 1..1 : i = 1
    OBVIOUS
  <2>3. Blocks(<<h>>, "thinking")
    BY <2>1, <2>2, <1>3 DEF Blocks
  <2> QED BY <2>3, <1>3, MadeOf
<1>5. ASSUME NEW type
      PROVE  OfType(m.blocks, type) = (Only(<<h>>, "thinking", type) \o Only(TextBlocks(x), "text", type))
                                         \o Only(Uses(ids), "tool_use", type)
  <2>1. PICK a : a = <<h>>
    OBVIOUS
  <2>2. PICK b : b = TextBlocks(x)
    OBVIOUS
  <2>3. PICK c : c = Uses(ids)
    OBVIOUS
  <2>4. Blocks(a, "thinking") /\ Blocks(b, "text") /\ Blocks(c, "tool_use")
    BY <1>4, <2>1, <2>2, <2>3
  <2>5. OfType((a \o b) \o c, type) =
          (Only(a, "thinking", type) \o Only(b, "text", type)) \o Only(c, "tool_use", type)
    BY <2>4, OfTypeTriple
  <2> QED BY <1>2, <2>1, <2>2, <2>3, <2>5
<1>6. List(TextBlocks(x)) /\ List(Uses(ids)) /\ List(<<>>)
  BY <1>4, ShortIsList, ListShort DEF Blocks
<1>7. /\ <<>> \o TextBlocks(x) = TextBlocks(x) /\ TextBlocks(x) \o <<>> = TextBlocks(x)
      /\ <<>> \o Uses(ids) = Uses(ids) /\ <<>> \o <<>> = <<>>
  BY <1>6, ConcatOne
<1>8. /\ OfType(m.blocks, "text") = TextBlocks(x) /\ OfType(m.blocks, "tool_use") = Uses(ids)
      /\ OfType(m.blocks, "tool_result") = <<>>
  <2>1. OfType(m.blocks, "text") = (<<>> \o TextBlocks(x)) \o <<>>
    BY <1>5 DEF Only
  <2>2. OfType(m.blocks, "tool_use") = (<<>> \o <<>>) \o Uses(ids)
    BY <1>5 DEF Only
  <2>3. OfType(m.blocks, "tool_result") = (<<>> \o <<>>) \o <<>>
    BY <1>5 DEF Only
  <2> QED BY <1>7, <2>1, <2>2, <2>3
<1>9. /\ content_to_text(m.blocks) = x /\ ToolUses(m.blocks) = AskedAll(ids)
      /\ ToolResults(m.blocks) = <<>>
  BY <1>8, PiecesAre, CallsAmong DEF content_to_text
<1>11. AskedAll(ids) = <<>> <=> ids = <<>>
  BY MadeOf
<1>12. \A u : <<u>> \o <<>> = <<u>> /\ <<>> \o <<u>> = <<u>>
  BY ListShort, ConcatOne
<1>13. CASE ids # <<>>
  BY <1>1, <1>2, <1>9, <1>11, <1>12, <1>13 DEF AnthropicMessage
<1>14. CASE ids = <<>>
  <2>1. AnthropicMessage(m) = <<>> \o TextMessage("assistant", x)
    BY <1>2, <1>9, <1>11, <1>14 DEF AnthropicMessage
  <2>2. TextMessage("assistant", x) = <<ChatCalls(x, AskedAll(ids))>>
    BY <1>11, <1>14 DEF TextMessage, ChatCalls, ChatMessage
  <2> QED BY <1>1, <1>12, <2>1, <2>2
<1> QED BY <1>13, <1>14

\* The results of a turn in the Anthropic form, wherever its text is.
LEMMA AnthropicResults ==
    ASSUME NEW x, OneText(x), NEW ids, UpToTwo(ids), NEW first
    PROVE  AnthropicMessage(AnthropicTurn(Results(ids, x, first))) =
                Told(ids) \o TextMessage("user", x)
<1>1. PICK m : m = AnthropicTurn(Results(ids, x, first))
  OBVIOUS
<1>2. m.role = "user" /\ m.blocks = IF first THEN TextBlocks(x) \o Returned(ids)
                                   ELSE Returned(ids) \o TextBlocks(x)
  BY <1>1 DEF AnthropicTurn, Results, Returned
<1>3. UpToTwo(x)
  BY ShortIsList
<1>4. Blocks(TextBlocks(x), "text") /\ Blocks(Returned(ids), "tool_result")
  BY <1>3, MadeOf
<1>5. List(TextBlocks(x)) /\ List(Returned(ids)) /\ List(<<>>)
  BY <1>4, ShortIsList, ListShort DEF Blocks
<1>6. /\ <<>> \o TextBlocks(x) = TextBlocks(x) /\ TextBlocks(x) \o <<>> = TextBlocks(x)
      /\ <<>> \o Returned(ids) = Returned(ids) /\ Returned(ids) \o <<>> = Returned(ids)
  BY <1>5, ConcatOne
<1>7. ASSUME NEW type
      PROVE  OfType(m.blocks, type) =
               IF first THEN Only(TextBlocks(x), "text", type) \o Only(Returned(ids), "tool_result", type)
               ELSE Only(Returned(ids), "tool_result", type) \o Only(TextBlocks(x), "text", type)
  <2>1. CASE first
    BY <2>1, <1>2, <1>4, OfTypePair
  <2>2. CASE ~first
    BY <2>2, <1>2, <1>4, OfTypePair
  <2> QED BY <2>1, <2>2
<1>8. OfType(m.blocks, "text") = TextBlocks(x) /\ OfType(m.blocks, "tool_result") = Returned(ids)
  BY <1>6, <1>7 DEF Only
<1>9. content_to_text(m.blocks) = x /\ ToolResults(m.blocks) = Told(ids)
  BY <1>8, PiecesAre, CallsAmong DEF content_to_text
<1> QED BY <1>1, <1>2, <1>9 DEF AnthropicMessage

\* The items of one list after those of another.
LEMMA ItemsConcat ==
    ASSUME NEW s, NEW u, List(s), List(u)
    PROVE  /\ Items(s \o u) = Items(s) \o Items(u)
           /\ List(Items(s)) /\ Len(Items(s)) = Len(s)
<1>1. ASSUME NEW v, List(v) PROVE List(Items(v)) /\ Len(Items(v)) = Len(v) /\ Len(v) \in Nat
  <2>1. PICK w : w = Items(v)
    OBVIOUS
  <2>2. Len(v) \in Nat
    BY <1>1, ListLength
  <2>3. w = [i \in 1..Len(v) |-> w[i]]
    BY <2>1 DEF Items
  <2> QED BY <2>1, <2>2, <2>3, ListOf
<1>2. PICK a : a = s \o u
  OBVIOUS
<1>3. /\ List(a) /\ Len(a) = Len(s) + Len(u) /\ Len(s) \in Nat /\ Len(u) \in Nat
      /\ \A i \in 1..Len(s) : a[i] = s[i]
      /\ \A i \in 1..Len(u) : a[Len(s) + i] = u[i]
  BY <1>2, ListConcat
<1>4. /\ List(Items(a)) /\ Len(Items(a)) = Len(a) /\ List(Items(s)) /\ Len(Items(s)) = Len(s)
      /\ List(Items(u)) /\ Len(Items(u)) = Len(u)
  BY <1>1, <1>3
<1>5. PICK b : b = Items(s) \o Items(u)
  OBVIOUS
<1>6. List(Items(s)) /\ List(Items(u))
  BY <1>4
<1>7. /\ List(b) /\ Len(b) = Len(s) + Len(u)
      /\ \A i \in 1..Len(s) : b[i] = Items(s)[i]
      /\ \A i \in 1..Len(u) : b[Len(s) + i] = Items(u)[i]
  <2>1. PICK p : p = Items(s)
    OBVIOUS
  <2>2. PICK q : q = Items(u)
    OBVIOUS
  <2>3. List(p) /\ List(q)
    BY <1>6, <2>1, <2>2
  <2>4. /\ List(p \o q) /\ Len(p \o q) = Len(p) + Len(q)
        /\ \A i \in 1..Len(p) : (p \o q)[i] = p[i]
        /\ \A i \in 1..Len(q) : (p \o q)[Len(p) + i] = q[i]
    BY <2>3, ListConcat
  <2> QED BY <1>4, <1>5, <2>1, <2>2, <2>4
<1>8. ASSUME NEW i \in 1..Len(a) PROVE Items(a)[i] = b[i]
  <2>1. Items(a)[i] = ResponsesItem(a[i])
    BY DEF Items
  <2>2. CASE i \in 1..Len(s)
    <3>1. Items(s)[i] = ResponsesItem(s[i])
      BY <2>2 DEF Items
    <3> QED BY <2>1, <2>2, <3>1, <1>3, <1>7
  <2>3. CASE i \notin 1..Len(s)
    <3>1. PICK k \in 1..Len(u) : i = Len(s) + k
      <4>1. i - Len(s) \in 1..Len(u) /\ i = Len(s) + (i - Len(s))
        BY <2>3, <1>3
      <4> QED BY <4>1
    <3>2. Items(u)[k] = ResponsesItem(u[k])
      BY DEF Items
    <3> QED BY <2>1, <3>1, <3>2, <1>3, <1>7
  <2> QED BY <2>2, <2>3
<1>9. Items(a) = b
  <2>1. PICK p : p = Items(a)
    OBVIOUS
  <2>2. List(p) /\ List(b) /\ Len(p) = Len(b)
    BY <1>3, <1>4, <1>7, <2>1
  <2>3. \A i \in 1..Len(p) : p[i] = b[i]
    BY <1>4, <1>8, <2>1
  <2>4. p = b
    BY <2>2, <2>3, ListEqual
  <2> QED BY <2>1, <2>4
<1> QED BY <1>2, <1>4, <1>5, <1>9

\* The items of a message, of calls and of results.
LEMMA ItemsAre ==
    ASSUME NEW x, OneText(x), NEW ids, UpToTwo(ids), NEW image
    PROVE  /\ Items(<<Item("user", TextBlocks(x) \o ImageBlocks(image))>>) = <<Says(x, Pics(image))>>
           /\ Items(ItemOf("user", x)) = TextMessage("user", x)
           /\ Items(ItemOf("assistant", x)) = TextMessage("assistant", x)
           /\ Items(CallItems(ids)) = OneByOne(ids) /\ Items(ResultItems(ids)) = Told(ids)
           /\ List(CallItems(ids)) /\ List(ResultItems(ids)) /\ UpToTwo(OneByOne(ids))
           /\ Len(OneByOne(ids)) = Len(ids) /\ Len(ids) \in Nat
<1>0. List(ids) /\ Len(ids) \in Nat
  BY ShortIsList, ListLength
<1>1. ASSUME NEW it PROVE Items(<<it>>) = <<ResponsesItem(it)>>
  <2>1. PICK u : u = Items(<<it>>)
    OBVIOUS
  <2>2. Len(<<it>>) = 1 /\ <<it>>[1] = it /\ List(<<it>>)
    BY ListShort
  <2>3. List(u) /\ Len(u) = 1
    BY <2>1, <2>2, ItemsConcat
  <2>4. u[1] = ResponsesItem(it)
    BY <2>1, <2>2 DEF Items
  <2>5. PICK v : v = <<ResponsesItem(it)>>
    OBVIOUS
  <2>6. List(v) /\ Len(v) = 1 /\ v[1] = ResponsesItem(it)
    BY <2>5, ListShort
  <2>7. \A i \in 1..Len(u) : u[i] = v[i]
    <3>1. \A i \in 1..Len(u) : i = 1
      BY <2>3
    <3> QED BY <3>1, <2>4, <2>6
  <2>8. u = v
    BY <2>3, <2>6, <2>7, ListEqual
  <2> QED BY <2>1, <2>5, <2>8
<1>2. Items(<<>>) = <<>>
  <2>1. List(<<>>) /\ Len(<<>>) = 0
    BY ListShort
  <2>2. List(Items(<<>>)) /\ Len(Items(<<>>)) = 0
    BY <2>1, ItemsConcat
  <2> QED BY <2>2, ListLength
<1>3. \A role, blocks : ResponsesItem(Item(role, blocks)) = ChatMessage(role, Content(blocks))
  BY DEF ResponsesItem, Item
<1>4. Items(<<Item("user", TextBlocks(x) \o ImageBlocks(image))>>) = <<Says(x, Pics(image))>>
  BY <1>1, <1>3, ContentIs DEF Says
<1>5. \A role : Items(ItemOf(role, x)) = TextMessage(role, x)
  <2>1. Content(TextBlocks(x)) = PlainContent(x)
    BY ContentIs
  <2> QED BY <1>1, <1>2, <1>3, <2>1 DEF ItemOf, TextMessage
<1>6. /\ List(CallItems(ids)) /\ Len(CallItems(ids)) = Len(ids)
      /\ List(ResultItems(ids)) /\ Len(ResultItems(ids)) = Len(ids)
      /\ List(OneByOne(ids)) /\ Len(OneByOne(ids)) = Len(ids)
  <2>1. PICK u : u = CallItems(ids)
    OBVIOUS
  <2>2. u = [i \in 1..Len(ids) |-> u[i]]
    BY <2>1 DEF CallItems
  <2>3. List(u) /\ Len(u) = Len(ids)
    BY <2>2, <1>0, ListOf
  <2>4. PICK v : v = ResultItems(ids)
    OBVIOUS
  <2>5. v = [i \in 1..Len(ids) |-> v[i]]
    BY <2>4 DEF ResultItems
  <2>6. List(v) /\ Len(v) = Len(ids)
    BY <2>5, <1>0, ListOf
  <2>7. PICK w : w = OneByOne(ids)
    OBVIOUS
  <2>8. w = [i \in 1..Len(ids) |-> w[i]]
    BY <2>7 DEF OneByOne
  <2>9. List(w) /\ Len(w) = Len(ids)
    BY <2>8, <1>0, ListOf
  <2> QED BY <2>1, <2>3, <2>4, <2>6, <2>7, <2>9
<1>7. Items(CallItems(ids)) = OneByOne(ids)
  <2>1. \A i \in 1..Len(ids) : ResponsesItem(CallItems(ids)[i]) = ChatCalls(<<>>, <<CallAsked(ids[i])>>)
    BY DEF CallItems, ResponsesItem, CallAsked
  <2>2. [i \in 1..Len(ids) |-> ResponsesItem(CallItems(ids)[i])] =
          [i \in 1..Len(ids) |-> ChatCalls(<<>>, <<CallAsked(ids[i])>>)]
    BY <2>1
  <2> QED BY <1>6, <2>2 DEF Items, OneByOne
<1>8. Items(ResultItems(ids)) = Told(ids)
  <2>1. \A i \in 1..Len(ids) : ResponsesItem(ResultItems(ids)[i]) = ChatResult(ids[i], Output(ids[i]))
    BY DEF ResultItems, ResponsesItem
  <2>2. [i \in 1..Len(ids) |-> ResponsesItem(ResultItems(ids)[i])] =
          [i \in 1..Len(ids) |-> ChatResult(ids[i], Output(ids[i]))]
    BY <2>1
  <2> QED BY <1>6, <2>2 DEF Items, Told
<1>9. UpToTwo(OneByOne(ids))
  BY <1>6, ShortImage
<1> QED BY <1>0, <1>4, <1>5, <1>6, <1>7, <1>8, <1>9

\* A turn in the Responses form.
LEMMA ResponsesTurns ==
    ASSUME NEW x, OneText(x), NEW ids, UpToTwo(ids), NEW image, NEW first
    PROVE  /\ List(ResponsesTurn(User(x, image))) /\ List(ResponsesTurn(Answer(x, ids)))
           /\ List(ResponsesTurn(Results(ids, x, first)))
           /\ Items(ResponsesTurn(User(x, image))) = <<Says(x, Pics(image))>>
           /\ Items(ResponsesTurn(Answer(x, ids))) = TextMessage("assistant", x) \o OneByOne(ids)
           /\ Items(ResponsesTurn(Results(ids, x, first))) = Told(ids) \o TextMessage("user", x)
<1>1. ResponsesTurn(User(x, image)) = <<Item("user", TextBlocks(x) \o ImageBlocks(image))>>
  BY DEF ResponsesTurn, User
<1>2. ResponsesTurn(Answer(x, ids)) = ItemOf("assistant", x) \o CallItems(ids)
  BY DEF ResponsesTurn, Answer, CallItems
<1>3. ResponsesTurn(Results(ids, x, first)) = ResultItems(ids) \o ItemOf("user", x)
  BY DEF ResponsesTurn, Results, ResultItems
<1>4. \A role : List(ItemOf(role, x))
  BY ListShort DEF ItemOf
<1>5. List(CallItems(ids)) /\ List(ResultItems(ids))
  BY ItemsAre
<1>6. /\ List(ItemOf("assistant", x) \o CallItems(ids))
      /\ Items(ItemOf("assistant", x) \o CallItems(ids)) =
            Items(ItemOf("assistant", x)) \o Items(CallItems(ids))
  BY <1>4, <1>5, ListConcat, ItemsConcat
<1>7. /\ List(ResultItems(ids) \o ItemOf("user", x))
      /\ Items(ResultItems(ids) \o ItemOf("user", x)) =
            Items(ResultItems(ids)) \o Items(ItemOf("user", x))
  BY <1>4, <1>5, ListConcat, ItemsConcat
<1>8. List(<<Item("user", TextBlocks(x) \o ImageBlocks(image))>>)
  BY ListShort
<1> QED BY <1>1, <1>2, <1>3, <1>6, <1>7, <1>8, ItemsAre

------------------------------------------------------------------------------
(* Results next to their calls, message after message. *)

\* The answers directly in front of message k begin at j.
IsStart(ms, k, j) == /\ \A i \in j..(k - 1) : ms[i].role = "ASSISTANT"
                     /\ j = 1 \/ ms[j - 1].role # "ASSISTANT"

\* A run of assistant messages has one start.
LEMMA StartIs ==
    ASSUME NEW ms, NEW k \in Nat \ {0}
    PROVE  /\ RunStart(ms, k) \in 1..k /\ IsStart(ms, k, RunStart(ms, k))
           /\ \A j \in 1..k : IsStart(ms, k, j) => RunStart(ms, k) = j
<1>1. \E j \in 1..k : IsStart(ms, k, j)
  <2>1. PICK T : T = {j \in 1..k : \A i \in j..(k - 1) : ms[i].role = "ASSISTANT"}
    OBVIOUS
  <2>2. k \in T /\ T \in SUBSET Nat
    BY <2>1
  <2>3. PICK j \in T : \A y \in T : j <= y
    BY <2>2, LeastNat
  <2>4. j \in 1..k /\ \A i \in j..(k - 1) : ms[i].role = "ASSISTANT"
    BY <2>1, <2>3
  <2>5. ASSUME j # 1, ms[j - 1].role = "ASSISTANT" PROVE FALSE
    <3>1. j - 1 \in 1..k /\ j - 1 < j
      BY <2>4, <2>5
    <3>2. \A i \in (j - 1)..(k - 1) : i = j - 1 \/ i \in j..(k - 1)
      BY <2>4
    <3>3. j - 1 \in T
      BY <2>1, <2>4, <2>5, <3>1, <3>2
    <3> QED BY <2>3, <2>4, <3>1, <3>3
  <2> QED BY <2>4, <2>5 DEF IsStart
<1>2. PICK r : r = RunStart(ms, k)
  OBVIOUS
<1>3. r \in 1..k /\ IsStart(ms, k, r)
  BY <1>1, <1>2 DEF RunStart, IsStart
<1>4. ASSUME NEW a \in 1..k, NEW b \in 1..k, IsStart(ms, k, a), IsStart(ms, k, b), a < b
      PROVE  FALSE
  <2>1. b # 1 /\ b - 1 \in a..(k - 1)
    BY <1>4
  <2> QED BY <1>4, <2>1 DEF IsStart
<1>5. ASSUME NEW j \in 1..k, IsStart(ms, k, j) PROVE r = j
  <2>1. ~(r < j) /\ ~(j < r)
    BY <1>3, <1>4, <1>5
  <2> QED BY <2>1, <1>3
<1> QED BY <1>2, <1>3, <1>5

\* The start of a run is where it was when a message is added, and the message
\* belongs to the run or ends it.
LEMMA StartAppend ==
    ASSUME NEW ms, List(ms), NEW m
    PROVE  /\ Len(ms) \in Nat
           /\ \A k \in 1..(Len(ms) + 1) : RunStart(Append(ms, m), k) = RunStart(ms, k)
           /\ RunStart(Append(ms, m), Len(ms) + 2) =
                IF m.role = "ASSISTANT" THEN RunStart(ms, Len(ms) + 1) ELSE Len(ms) + 2
<1>1. PICK n \in Nat : n = Len(ms)
  BY ListLength
<1>2. PICK a : a = Append(ms, m)
  OBVIOUS
<1>3. a[n + 1] = m /\ \A i \in 1..n : a[i] = ms[i]
  BY <1>1, <1>2, ListAppend
<1>4. ASSUME NEW k \in 1..(n + 1) PROVE RunStart(a, k) = RunStart(ms, k)
  <2>1. PICK r : r = RunStart(ms, k)
    OBVIOUS
  <2>2. r \in 1..k /\ IsStart(ms, k, r)
    BY <2>1, StartIs
  <2>3. \A i \in r..(k - 1) : i \in 1..n
    BY <2>2
  <2>4. r # 1 => r - 1 \in 1..n
    BY <2>2
  <2>5. IsStart(a, k, r)
    BY <2>2, <2>3, <2>4, <1>3 DEF IsStart
  <2> QED BY <2>1, <2>2, <2>5, StartIs
<1>5. RunStart(a, n + 2) = IF m.role = "ASSISTANT" THEN RunStart(ms, n + 1) ELSE n + 2
  <2>1. PICK r : r = IF m.role = "ASSISTANT" THEN RunStart(ms, n + 1) ELSE n + 2
    OBVIOUS
  <2>2. n + 2 \in Nat \ {0} /\ n + 1 \in Nat \ {0} /\ (n + 2) - 1 = n + 1 /\ (n + 1) - 1 = n
    OBVIOUS
  <2>3. CASE m.role = "ASSISTANT"
    <3>1. r \in 1..(n + 1) /\ IsStart(ms, n + 1, r)
      BY <2>1, <2>2, <2>3, StartIs
    <3>2. \A i \in r..(n + 1) : i = n + 1 \/ (i \in r..n /\ i \in 1..n)
      BY <3>1
    <3>3. \A i \in r..n : ms[i].role = "ASSISTANT"
      BY <3>1, <2>2 DEF IsStart
    <3>4. \A i \in r..((n + 2) - 1) : a[i].role = "ASSISTANT"
      BY <3>2, <3>3, <2>2, <2>3, <1>3
    <3>5. r # 1 => r - 1 \in 1..n
      BY <3>1
    <3>6. r = 1 \/ a[r - 1].role # "ASSISTANT"
      BY <3>1, <3>5, <1>3 DEF IsStart
    <3>7. IsStart(a, n + 2, r) /\ r \in 1..(n + 2)
      BY <3>1, <3>4, <3>6 DEF IsStart
    <3> QED BY <2>1, <2>2, <3>7, StartIs
  <2>4. CASE m.role # "ASSISTANT"
    <3>1. r = n + 2 /\ r \in 1..(n + 2)
      BY <2>1, <2>4
    <3>2. IsStart(a, n + 2, n + 2)
      <4>1. \A i \in (n + 2)..((n + 2) - 1) : FALSE
        OBVIOUS
      <4> QED BY <4>1, <2>2, <2>4, <1>3 DEF IsStart
    <3> QED BY <2>1, <2>2, <3>1, <3>2, StartIs
  <2> QED BY <2>1, <2>3, <2>4
<1> QED BY <1>1, <1>2, <1>4, <1>5

\* The calls made in the assistant messages before message k, and at the end.
CallsBefore(ms, k) == UNION {Ids(ms[j].toolCalls) : j \in RunStart(ms, k)..(k - 1)}
OpenCalls(ms) == CallsBefore(ms, Len(ms) + 1)
Answers(m, open) == /\ Ids(m.parts) = open
                    /\ \A i \in 1..Len(m.parts) :
                          m.parts[i].toolName = ToolOf(m.parts[i].toolCallId)
Follow(ms) == \A k \in 1..Len(ms) : ms[k].role = "TOOL" => Answers(ms[k], CallsBefore(ms, k))

\* A message that is added keeps the results next to their calls.
LEMMA FollowAppend ==
    ASSUME NEW ms, List(ms), Follow(ms), NEW m,
           m.role = "TOOL" => Answers(m, OpenCalls(ms))
    PROVE  /\ Follow(Append(ms, m))
           /\ OpenCalls(Append(ms, m)) = IF m.role = "ASSISTANT"
                                         THEN OpenCalls(ms) \cup Ids(m.toolCalls) ELSE {}
<1>1. PICK n \in Nat : n = Len(ms)
  BY ListLength
<1>2. PICK a : a = Append(ms, m)
  OBVIOUS
<1>3. Len(a) = n + 1 /\ a[n + 1] = m /\ \A i \in 1..n : a[i] = ms[i]
  BY <1>1, <1>2, ListAppend
<1>4. /\ \A k \in 1..(n + 1) : RunStart(a, k) = RunStart(ms, k)
      /\ RunStart(a, n + 2) = IF m.role = "ASSISTANT" THEN RunStart(ms, n + 1) ELSE n + 2
  BY <1>1, <1>2, StartAppend
<1>5. \A k \in 1..(n + 1) : RunStart(ms, k) \in 1..k
  <2>1. \A k \in 1..(n + 1) : k \in Nat \ {0}
    OBVIOUS
  <2> QED BY <2>1, StartIs
<1>6. ASSUME NEW k \in 1..(n + 1) PROVE CallsBefore(a, k) = CallsBefore(ms, k)
  <2>1. PICK r : r = RunStart(ms, k)
    OBVIOUS
  <2>2. r \in 1..k /\ RunStart(a, k) = r
    BY <2>1, <1>4, <1>5
  <2>3. \A j \in r..(k - 1) : j \in 1..n
    BY <2>2
  <2>4. \A j \in r..(k - 1) : a[j] = ms[j]
    BY <2>3, <1>3
  <2>5. {Ids(a[j].toolCalls) : j \in r..(k - 1)} = {Ids(ms[j].toolCalls) : j \in r..(k - 1)}
    BY <2>4
  <2> QED BY <2>1, <2>2, <2>5 DEF CallsBefore
<1>7. Follow(a)
  <2> SUFFICES ASSUME NEW k \in 1..(n + 1), a[k].role = "TOOL"
               PROVE  Answers(a[k], CallsBefore(a, k))
    BY <1>3 DEF Follow
  <2>1. CallsBefore(a, k) = CallsBefore(ms, k)
    BY <1>6
  <2>2. CASE k \in 1..n
    <3>1. a[k] = ms[k]
      BY <1>3, <2>2
    <3> QED BY <2>1, <2>2, <3>1, <1>1 DEF Follow
  <2>3. CASE k = n + 1
    BY <2>1, <2>3, <1>1, <1>3 DEF OpenCalls
  <2> QED BY <2>2, <2>3
<1>8. OpenCalls(a) = CallsBefore(a, n + 2) /\ (n + 2) - 1 = n + 1 /\ (n + 1) - 1 = n
  <2>1. (n + 1) + 1 = n + 2
    OBVIOUS
  <2> QED BY <2>1, <1>3 DEF OpenCalls
<1>9. CASE m.role = "ASSISTANT"
  <2>1. PICK r : r = RunStart(ms, n + 1)
    OBVIOUS
  <2>2. r \in 1..(n + 1) /\ RunStart(a, n + 2) = r /\ RunStart(a, n + 1) = r
    BY <2>1, <1>4, <1>5, <1>9
  <2>3. r..(n + 1) = (r..n) \cup {n + 1}
    BY <2>2
  <2>4. UNION {Ids(a[j].toolCalls) : j \in r..(n + 1)} =
          (UNION {Ids(a[j].toolCalls) : j \in r..n}) \cup Ids(a[n + 1].toolCalls)
    <3>1. PICK A : A = {Ids(a[j].toolCalls) : j \in r..(n + 1)}
      OBVIOUS
    <3>2. PICK B : B = {Ids(a[j].toolCalls) : j \in r..n}
      OBVIOUS
    <3>3. PICK x : x = Ids(a[n + 1].toolCalls)
      OBVIOUS
    <3>4. A = B \cup {x}
      BY <2>3, <3>1, <3>2, <3>3
    <3>5. UNION A = (UNION B) \cup x
      BY <3>4
    <3> QED BY <3>1, <3>2, <3>3, <3>5
  <2>5. CallsBefore(a, n + 2) = UNION {Ids(a[j].toolCalls) : j \in r..(n + 1)}
    BY <1>8, <2>2 DEF CallsBefore
  <2>6. CallsBefore(a, n + 1) = UNION {Ids(a[j].toolCalls) : j \in r..n}
    BY <1>8, <2>2 DEF CallsBefore
  <2>7. CallsBefore(a, n + 1) = OpenCalls(ms)
    BY <1>1, <1>6 DEF OpenCalls
  <2>8. OpenCalls(a) = OpenCalls(ms) \cup Ids(m.toolCalls)
    <3>1. a[n + 1] = m /\ OpenCalls(a) = CallsBefore(a, n + 2)
      BY <1>3, <1>8
    <3> QED BY <3>1, <2>4, <2>5, <2>6, <2>7
  <2> QED BY <1>2, <1>7, <1>9, <2>8
<1>10. CASE m.role # "ASSISTANT"
  <2>1. RunStart(a, n + 2) = n + 2 /\ (n + 2)..(n + 1) = {}
    BY <1>4, <1>10
  <2>2. CallsBefore(a, n + 2) = UNION {Ids(a[j].toolCalls) : j \in {}}
    BY <1>8, <2>1 DEF CallsBefore
  <2>3. UNION {Ids(a[j].toolCalls) : j \in {}} = {}
    OBVIOUS
  <2> QED BY <1>2, <1>7, <1>8, <1>10, <2>2, <2>3
<1> QED BY <1>9, <1>10

\* No message leaves nothing open.
LEMMA FollowNone == Follow(<<>>) /\ OpenCalls(<<>>) = {}
<1>1. Len(<<>>) = 0 /\ 1..0 = {}
  BY ListShort
<1>2. Follow(<<>>)
  BY <1>1 DEF Follow
<1>3. RunStart(<<>>, 1) \in 1..1
  BY StartIs
<1>4. 0 + 1 = 1 /\ 1 - 1 = 0 /\ RunStart(<<>>, 1)..0 = {}
  BY <1>3
<1>5. OpenCalls(<<>>) = UNION {Ids(<<>>[j].toolCalls) : j \in {}}
  BY <1>1, <1>4 DEF OpenCalls, CallsBefore
<1>6. UNION {Ids(<<>>[j].toolCalls) : j \in {}} = {}
  OBVIOUS
<1> QED BY <1>2, <1>5, <1>6

------------------------------------------------------------------------------
(* What a message adds to the translation. *)

\* The accumulator of Translate, and the messages the turns become.
Acc(o, n, p) == [out |-> o, names |-> n, pending |-> p]
Flushed(o, p) == IF p = <<>> THEN o
                 ELSE Append(o, CursorMessage("TOOL", <<>>, <<>>, <<>>, p))
Part(id) == [toolCallId |-> id, toolName |-> ToolOf(id), result |-> tool_result_value(Output(id))]
Parts(ids) == [i \in 1..Len(ids) |-> Part(ids[i])]
Calls(ids) == [i \in 1..Len(ids) |-> CursorCall(CallAsked(ids[i]))]
Set(ids) == {ids[i] : i \in 1..Len(ids)}
UserSays(x, images) == CursorMessage("USER", x, images, <<>>, <<>>)
Speaks(x, calls) == CursorMessage("ASSISTANT", x, <<>>, calls, <<>>)
Reports(ids) == CursorMessage("TOOL", <<>>, <<>>, <<>>, Parts(ids))

\* A list of one or two elements.
LEMMA ShortLists ==
    ASSUME NEW u, List(u)
    PROVE  /\ Len(u) = 1 => u = <<u[1]>>
           /\ Len(u) = 2 => u = <<u[1], u[2]>>
<1>1. ASSUME Len(u) = 1 PROVE u = <<u[1]>>
  <2>1. PICK a : a = u[1]
    OBVIOUS
  <2>2. PICK v : v = <<a>>
    OBVIOUS
  <2>3. List(v) /\ Len(v) = 1 /\ v[1] = a
    BY <2>2, ListShort
  <2>4. \A i \in 1..Len(u) : u[i] = v[i]
    <3>1. \A i \in 1..Len(u) : i = 1
      BY <1>1
    <3> QED BY <3>1, <2>1, <2>3
  <2>5. u = v
    BY <1>1, <2>3, <2>4, ListEqual
  <2> QED BY <2>1, <2>2, <2>5
<1>2. ASSUME Len(u) = 2 PROVE u = <<u[1], u[2]>>
  <2>1. PICK a : a = u[1]
    OBVIOUS
  <2>2. PICK b : b = u[2]
    OBVIOUS
  <2>3. PICK v : v = <<a, b>>
    OBVIOUS
  <2>4. List(v) /\ Len(v) = 2 /\ v[1] = a /\ v[2] = b
    BY <2>3, ListShort
  <2>5. \A i \in 1..Len(u) : u[i] = v[i]
    <3>1. \A i \in 1..Len(u) : i = 1 \/ i = 2
      BY <1>2
    <3> QED BY <3>1, <2>1, <2>2, <2>4
  <2>6. u = v
    BY <1>2, <2>4, <2>5, ListEqual
  <2> QED BY <2>1, <2>2, <2>3, <2>6
<1> QED BY <1>1, <1>2

\* The results, the parts and the calls of at most two ids.
LEMMA OfShort ==
    /\ Told(<<>>) = <<>> /\ Parts(<<>>) = <<>> /\ Calls(<<>>) = <<>> /\ AskedAll(<<>>) = <<>>
    /\ OneByOne(<<>>) = <<>>
    /\ \A a : /\ Told(<<a>>) = <<ChatResult(a, Output(a))>> /\ Parts(<<a>>) = <<Part(a)>>
              /\ Calls(<<a>>) = <<CursorCall(CallAsked(a))>> /\ AskedAll(<<a>>) = <<CallAsked(a)>>
              /\ OneByOne(<<a>>) = <<ChatCalls(<<>>, <<CallAsked(a)>>)>>
    /\ \A a, b : /\ Told(<<a, b>>) = <<ChatResult(a, Output(a)), ChatResult(b, Output(b))>>
                 /\ Parts(<<a, b>>) = <<Part(a), Part(b)>>
                 /\ Calls(<<a, b>>) = <<CursorCall(CallAsked(a)), CursorCall(CallAsked(b))>>
                 /\ AskedAll(<<a, b>>) = <<CallAsked(a), CallAsked(b)>>
                 /\ OneByOne(<<a, b>>) = <<ChatCalls(<<>>, <<CallAsked(a)>>), ChatCalls(<<>>, <<CallAsked(b)>>)>>
<1>1. ASSUME NEW ids, List(ids)
      PROVE  /\ Len(ids) \in Nat
             /\ List(Told(ids)) /\ Len(Told(ids)) = Len(ids)
             /\ List(Parts(ids)) /\ Len(Parts(ids)) = Len(ids)
             /\ List(Calls(ids)) /\ Len(Calls(ids)) = Len(ids)
             /\ List(AskedAll(ids)) /\ Len(AskedAll(ids)) = Len(ids)
             /\ List(OneByOne(ids)) /\ Len(OneByOne(ids)) = Len(ids)
  <2>0. Len(ids) \in Nat
    BY <1>1, ListLength
  <2>1. ASSUME NEW u, u = Told(ids) PROVE List(u) /\ Len(u) = Len(ids)
    <3>1. u = [i \in 1..Len(ids) |-> u[i]]
      BY <2>1 DEF Told
    <3> QED BY <3>1, <2>0, ListOf
  <2>2. ASSUME NEW u, u = Parts(ids) PROVE List(u) /\ Len(u) = Len(ids)
    <3>1. u = [i \in 1..Len(ids) |-> u[i]]
      BY <2>2 DEF Parts
    <3> QED BY <3>1, <2>0, ListOf
  <2>3. ASSUME NEW u, u = Calls(ids) PROVE List(u) /\ Len(u) = Len(ids)
    <3>1. u = [i \in 1..Len(ids) |-> u[i]]
      BY <2>3 DEF Calls
    <3> QED BY <3>1, <2>0, ListOf
  <2>4. ASSUME NEW u, u = AskedAll(ids) PROVE List(u) /\ Len(u) = Len(ids)
    <3>1. u = [i \in 1..Len(ids) |-> u[i]]
      BY <2>4 DEF AskedAll
    <3> QED BY <3>1, <2>0, ListOf
  <2>5. ASSUME NEW u, u = OneByOne(ids) PROVE List(u) /\ Len(u) = Len(ids)
    <3>1. u = [i \in 1..Len(ids) |-> u[i]]
      BY <2>5 DEF OneByOne
    <3> QED BY <3>1, <2>0, ListOf
  <2> QED BY <2>0, <2>1, <2>2, <2>3, <2>4, <2>5
<1>2. ASSUME NEW ids, NEW i \in 1..Len(ids)
      PROVE  /\ Told(ids)[i] = ChatResult(ids[i], Output(ids[i])) /\ Parts(ids)[i] = Part(ids[i])
             /\ Calls(ids)[i] = CursorCall(CallAsked(ids[i])) /\ AskedAll(ids)[i] = CallAsked(ids[i])
             /\ OneByOne(ids)[i] = ChatCalls(<<>>, <<CallAsked(ids[i])>>)
  BY DEF Told, Parts, Calls, AskedAll, OneByOne
<1>3. /\ Told(<<>>) = <<>> /\ Parts(<<>>) = <<>> /\ Calls(<<>>) = <<>> /\ AskedAll(<<>>) = <<>>
      /\ OneByOne(<<>>) = <<>>
  <2>1. PICK e : e = <<>>
    OBVIOUS
  <2>2. List(e) /\ Len(e) = 0
    BY <2>1, ListShort
  <2>3. \A u : List(u) /\ Len(u) = 0 => u = e
    BY <2>1, ListLength
  <2>4. /\ Told(e) = e /\ Parts(e) = e /\ Calls(e) = e /\ AskedAll(e) = e
        /\ OneByOne(e) = e
    BY <2>2, <2>3, <1>1
  <2> QED BY <2>1, <2>4
<1>4. ASSUME NEW a
      PROVE  /\ Told(<<a>>) = <<ChatResult(a, Output(a))>> /\ Parts(<<a>>) = <<Part(a)>>
             /\ Calls(<<a>>) = <<CursorCall(CallAsked(a))>> /\ AskedAll(<<a>>) = <<CallAsked(a)>>
             /\ OneByOne(<<a>>) = <<ChatCalls(<<>>, <<CallAsked(a)>>)>>
  <2>1. PICK e : e = <<a>>
    OBVIOUS
  <2>2. List(e) /\ Len(e) = 1 /\ e[1] = a /\ 1 \in 1..Len(e)
    BY <2>1, ListShort
  <2>3. /\ Told(e)[1] = ChatResult(a, Output(a)) /\ Parts(e)[1] = Part(a)
        /\ Calls(e)[1] = CursorCall(CallAsked(a)) /\ AskedAll(e)[1] = CallAsked(a)
        /\ OneByOne(e)[1] = ChatCalls(<<>>, <<CallAsked(a)>>)
    BY <1>2, <2>2
  <2>4. /\ List(Told(e)) /\ Len(Told(e)) = 1 /\ List(Parts(e)) /\ Len(Parts(e)) = 1
        /\ List(Calls(e)) /\ Len(Calls(e)) = 1 /\ List(AskedAll(e)) /\ Len(AskedAll(e)) = 1
        /\ List(OneByOne(e)) /\ Len(OneByOne(e)) = 1
    BY <1>1, <2>2
  <2> QED BY <2>1, <2>3, <2>4, ShortLists
<1>5. ASSUME NEW a, NEW b
      PROVE  /\ Told(<<a, b>>) = <<ChatResult(a, Output(a)), ChatResult(b, Output(b))>>
             /\ Parts(<<a, b>>) = <<Part(a), Part(b)>>
             /\ Calls(<<a, b>>) = <<CursorCall(CallAsked(a)), CursorCall(CallAsked(b))>>
             /\ AskedAll(<<a, b>>) = <<CallAsked(a), CallAsked(b)>>
             /\ OneByOne(<<a, b>>) = <<ChatCalls(<<>>, <<CallAsked(a)>>), ChatCalls(<<>>, <<CallAsked(b)>>)>>
  <2>1. PICK e : e = <<a, b>>
    OBVIOUS
  <2>2. List(e) /\ Len(e) = 2 /\ e[1] = a /\ e[2] = b /\ 1 \in 1..Len(e) /\ 2 \in 1..Len(e)
    BY <2>1, ListShort
  <2>3. /\ Told(e)[1] = ChatResult(a, Output(a)) /\ Parts(e)[1] = Part(a)
        /\ Calls(e)[1] = CursorCall(CallAsked(a)) /\ AskedAll(e)[1] = CallAsked(a)
        /\ OneByOne(e)[1] = ChatCalls(<<>>, <<CallAsked(a)>>)
    BY <1>2, <2>2
  <2>4. /\ Told(e)[2] = ChatResult(b, Output(b)) /\ Parts(e)[2] = Part(b)
        /\ Calls(e)[2] = CursorCall(CallAsked(b)) /\ AskedAll(e)[2] = CallAsked(b)
        /\ OneByOne(e)[2] = ChatCalls(<<>>, <<CallAsked(b)>>)
    BY <1>2, <2>2
  <2>5. /\ List(Told(e)) /\ Len(Told(e)) = 2 /\ List(Parts(e)) /\ Len(Parts(e)) = 2
        /\ List(Calls(e)) /\ Len(Calls(e)) = 2 /\ List(AskedAll(e)) /\ Len(AskedAll(e)) = 2
        /\ List(OneByOne(e)) /\ Len(OneByOne(e)) = 2
    BY <1>1, <2>2
  <2> QED BY <2>1, <2>3, <2>4, <2>5, ShortLists
<1> QED BY <1>3, <1>4, <1>5

\* The names of tools that were collected are right, and include a call's.
Known(n) == \A c \in n : c.name = ToolOf(c.id)
HasCall(n, id) == \E c \in n : c.id = id
\* What a translation has reached: its results follow their calls, "open" are the
\* calls at its end, their tools are known, and no result waits in front of them.
Good(o, n, p, open) ==
    /\ List(o) /\ List(p) /\ Known(n)
    /\ Follow(Flushed(o, p)) /\ OpenCalls(Flushed(o, p)) = open
    /\ \A id \in open : HasCall(n, id)
    /\ open # {} => p = <<>>

\* The updates of the accumulator.
PutOut(r, q, k) == [r EXCEPT !.out = q, !.pending = k]
PutNames(r, q, k) == [r EXCEPT !.names = k, !.out = q]
PutPending(r, k) == [r EXCEPT !.pending = k]

\* The fields of an accumulator are replaced one by one.
LEMMA AccSets ==
    ASSUME NEW o, NEW n, NEW p, NEW q, NEW k
    PROVE  /\ PutOut(Acc(o, n, p), q, k) = Acc(q, n, k)
           /\ PutNames(Acc(o, n, p), q, k) = Acc(q, k, p)
           /\ PutPending(Acc(o, n, p), k) = Acc(o, n, k)
<1>1. PICK r : r = Acc(o, n, p)
  OBVIOUS
<1>2. r \in [out : {o}, names : {n}, pending : {p}]
  BY <1>1 DEF Acc
<1>3. \A a, b, c : \A s \in [out : {a}, names : {b}, pending : {c}] :
        s = [out |-> a, names |-> b, pending |-> c]
  OBVIOUS
<1>4. [r EXCEPT !.out = q, !.pending = k] \in [out : {q}, names : {n}, pending : {k}]
  BY <1>2
<1>5. [r EXCEPT !.names = k, !.out = q] \in [out : {q}, names : {k}, pending : {p}]
  BY <1>2
<1>6. [r EXCEPT !.pending = k] \in [out : {o}, names : {n}, pending : {k}]
  BY <1>2
<1> QED BY <1>1, <1>3, <1>4, <1>5, <1>6 DEF Acc, PutOut, PutNames, PutPending

\* The results so far are handed over.
LEMMA FlushIs ==
    ASSUME NEW o, NEW n, NEW p
    PROVE  /\ flush_results(Acc(o, n, p)) = Acc(Flushed(o, p), n, <<>>)
           /\ Acc(o, n, p).out = o /\ Acc(o, n, p).names = n /\ Acc(o, n, p).pending = p
<1>1. Acc(o, n, p).out = o /\ Acc(o, n, p).names = n /\ Acc(o, n, p).pending = p
  BY DEF Acc
<1>2. flush_results(Acc(o, n, p)) =
        PutOut(Acc(o, n, p), Flushed(o, p), <<>>)
  BY <1>1 DEF flush_results, Flushed, PutOut
<1> QED BY <1>1, <1>2, AccSets

\* A message with neither calls nor results.
LEMMA TranslateText ==
    ASSUME NEW o, NEW n, NEW p, NEW x, NEW images
    PROVE  /\ Translate(Acc(o, n, p), Says(x, images)) =
                Acc(Append(Flushed(o, p), UserSays(x, images)), n, <<>>)
           /\ Translate(Acc(o, n, p), ChatMessage("system", PlainContent(x))) =
                Acc(Append(Flushed(o, p), CursorMessage("SYSTEM", x, <<>>, <<>>, <<>>)), n, <<>>)
<1>1. flush_results(Acc(o, n, p)) = Acc(Flushed(o, p), n, <<>>)
  BY FlushIs
<1>2. Len(<<>>) = 0 /\ ToSet(<<>>) = {}
  BY ListShort DEF ToSet
<1>3. [i \in 1..Len(<<>>) |-> CursorCall(<<>>[i])] = <<>>
  <2>1. PICK u : u = [i \in 1..0 |-> CursorCall(<<>>[i])]
    OBVIOUS
  <2>2. u = [i \in 1..0 |-> u[i]]
    BY <2>1
  <2>3. List(u) /\ Len(u) = 0
    BY <2>2, ListOf
  <2>4. u = <<>>
    BY <2>3, ListLength
  <2> QED BY <2>1, <2>4, <1>2
<1>4. ASSUME NEW role, NEW content, role # "tool"
      PROVE  Translate(Acc(o, n, p), ChatMessage(role, content)) =
               LET as == CASE role = "assistant" -> "ASSISTANT"
                           [] role \in {"system", "developer"} -> "SYSTEM"
                           [] OTHER -> "USER"
               IN Acc(Append(Flushed(o, p),
                             CursorMessage(as, content.text,
                                IF as = "USER" THEN content.images ELSE <<>>, <<>>, <<>>)), n, <<>>)
  <2>1. PICK m : m = ChatMessage(role, content)
    OBVIOUS
  <2>2. m.role = role /\ m.content = content /\ m.tool_calls = <<>>
    BY <2>1 DEF ChatMessage
  <2>3. n \cup ToSet(m.tool_calls) = n
    BY <1>2, <2>2
  <2>4. [i \in 1..Len(m.tool_calls) |-> CursorCall(m.tool_calls[i])] = <<>>
    BY <1>3, <2>2
  <2>5. \A q, k : PutNames(Acc(Flushed(o, p), n, <<>>), q, k) = Acc(q, k, <<>>)
    BY AccSets
  <2>6. Acc(Flushed(o, p), n, <<>>).names = n /\ Acc(Flushed(o, p), n, <<>>).out = Flushed(o, p)
    BY FlushIs
  <2>7. PICK f : f = Acc(Flushed(o, p), n, <<>>)
    OBVIOUS
  <2>8. PICK as : as = CASE role = "assistant" -> "ASSISTANT"
                         [] role \in {"system", "developer"} -> "SYSTEM"
                         [] OTHER -> "USER"
    OBVIOUS
  <2>9. Translate(Acc(o, n, p), m) =
          PutNames(f, Append(Flushed(o, p),
                             CursorMessage(as, content.text,
                                IF as = "USER" THEN content.images ELSE <<>>, <<>>, <<>>)), n)
    BY <1>1, <1>4, <2>2, <2>3, <2>4, <2>6, <2>7, <2>8 DEF Translate, PutNames
  <2> QED BY <2>1, <2>5, <2>7, <2>8, <2>9
<1>5. /\ Says(x, images) = ChatMessage("user", [text |-> x, images |-> images])
      /\ PlainContent(x).text = x
  BY DEF Says, PlainContent
<1> QED BY <1>4, <1>5 DEF UserSays

\* An assistant message.
LEMMA TranslateCalls ==
    ASSUME NEW o, NEW n, NEW p, NEW x, NEW ids, UpToTwo(ids)
    PROVE  Translate(Acc(o, n, p), ChatCalls(x, AskedAll(ids))) =
             Acc(Append(Flushed(o, p), Speaks(x, Calls(ids))),
                 n \cup {CallAsked(id) : id \in Set(ids)}, <<>>)
<1>1. flush_results(Acc(o, n, p)) = Acc(Flushed(o, p), n, <<>>)
  BY FlushIs
<1>2. PICK m : m = ChatCalls(x, AskedAll(ids))
  OBVIOUS
<1>3. /\ m.role = "assistant" /\ m.content = PlainContent(x) /\ m.tool_calls = AskedAll(ids)
      /\ m.content.text = x
  BY <1>2 DEF ChatCalls, PlainContent
<1>4. /\ Len(AskedAll(ids)) = Len(ids)
      /\ \A i \in 1..Len(ids) : AskedAll(ids)[i] = CallAsked(ids[i])
      /\ DOMAIN AskedAll(ids) = 1..Len(ids)
  BY MadeOf DEF AskedAll
<1>5. ToSet(m.tool_calls) = {CallAsked(id) : id \in Set(ids)}
  BY <1>3, <1>4 DEF ToSet, Set
<1>6. [i \in 1..Len(m.tool_calls) |-> CursorCall(m.tool_calls[i])] = Calls(ids)
  BY <1>3, <1>4 DEF Calls
<1>7. \A q, k : PutNames(Acc(Flushed(o, p), n, <<>>), q, k) = Acc(q, k, <<>>)
  BY AccSets
<1>8. Acc(Flushed(o, p), n, <<>>).names = n /\ Acc(Flushed(o, p), n, <<>>).out = Flushed(o, p)
  BY FlushIs
<1>9. PICK f : f = Acc(Flushed(o, p), n, <<>>)
  OBVIOUS
<1>10. Translate(Acc(o, n, p), m) =
         PutNames(f, Append(Flushed(o, p), Speaks(x, Calls(ids))),
                  n \cup {CallAsked(id) : id \in Set(ids)})
  BY <1>1, <1>3, <1>5, <1>6, <1>8, <1>9 DEF Translate, Speaks, PutNames
<1> QED BY <1>2, <1>7, <1>9, <1>10

\* A result takes the name of the call it answers.
LEMMA TranslateResult ==
    ASSUME NEW o, NEW n, NEW p, NEW id, Known(n), HasCall(n, id)
    PROVE  Translate(Acc(o, n, p), ChatResult(id, Output(id))) = Acc(o, n, Append(p, Part(id)))
<1>1. PICK m : m = ChatResult(id, Output(id))
  OBVIOUS
<1>2. m.role = "tool" /\ m.tool_call_id = id /\ m.content = Output(id)
  BY <1>1 DEF ChatResult
<1>3. NameOf(Acc(o, n, p), id) = ToolOf(id)
  <2>1. PICK c : c = CHOOSE d \in n : d.id = id
    OBVIOUS
  <2>2. c \in n /\ c.id = id
    BY <2>1 DEF HasCall
  <2> QED BY <2>1, <2>2, FlushIs DEF NameOf, HasCall, Known
<1>4. \A q : PutPending(Acc(o, n, p), q) = Acc(o, n, q)
  BY AccSets
<1>5. PICK f : f = Acc(o, n, p)
  OBVIOUS
<1>6. Translate(f, m) = PutPending(f, Append(p, Part(id)))
  BY <1>2, <1>3, <1>5, FlushIs DEF Translate, Part, PutPending
<1> QED BY <1>1, <1>4, <1>5, <1>6

\* Chat messages that translate well and end with the open calls.
Sound(messages, open) ==
    /\ List(messages)
    /\ \E o, n, p : Trans(messages) = Acc(o, n, p) /\ Good(o, n, p, open)

\* What is sent for the messages, from what they were translated to.
LEMMA SentIs ==
    ASSUME NEW s, NEW o, NEW n, NEW p, Trans(s) = Acc(o, n, p)
    PROVE  openai_messages_to_cursor(s) = Flushed(o, p)
<1>1. openai_messages_to_cursor(s) = flush_results(Trans(s)).out
  BY DEF openai_messages_to_cursor, Trans, Start
<1>2. flush_results(Acc(o, n, p)) = Acc(Flushed(o, p), n, <<>>)
  BY FlushIs
<1>3. Acc(Flushed(o, p), n, <<>>).out = Flushed(o, p)
  BY FlushIs
<1> QED BY <1>1, <1>2, <1>3

\* Lists stay lists when they are handed over.
LEMMA FlushedList == ASSUME NEW o, NEW p, List(o) PROVE List(Flushed(o, p)) /\ Flushed(o, <<>>) = o
BY ListAppend DEF Flushed

\* The messages sent are a list, whose results follow their calls.
LEMMA SoundSent ==
    ASSUME NEW s, NEW open, Sound(s, open)
    PROVE  /\ List(s) /\ List(openai_messages_to_cursor(s))
           /\ Follow(openai_messages_to_cursor(s))
<1>1. PICK o, n, p : Trans(s) = Acc(o, n, p) /\ Good(o, n, p, open)
  BY DEF Sound
<1>2. openai_messages_to_cursor(s) = Flushed(o, p)
  BY <1>1, SentIs
<1> QED BY <1>1, <1>2, FlushedList DEF Sound, Good

\* Nothing was said.
LEMMA SoundNone == Sound(<<>>, {}) /\ openai_messages_to_cursor(<<>>) = <<>>
<1>1. Trans(<<>>) = Acc(<<>>, {}, <<>>)
  BY TranslateAppend, ListShort DEF Acc, Start
<1>2. openai_messages_to_cursor(<<>>) = Flushed(<<>>, <<>>) /\ Flushed(<<>>, <<>>) = <<>>
  BY <1>1, SentIs DEF Flushed
<1>3. Good(<<>>, {}, <<>>, {})
  BY <1>2, ListShort, FollowNone DEF Good, Known
<1> QED BY <1>1, <1>2, <1>3, ListShort DEF Sound

\* A text of the user or of the system ends the run of calls.
LEMMA SoundText ==
    ASSUME NEW s, NEW open, Sound(s, open), NEW x, NEW images
    PROVE  /\ Sound(Append(s, Says(x, images)), {})
           /\ openai_messages_to_cursor(Append(s, Says(x, images))) =
                Append(openai_messages_to_cursor(s), UserSays(x, images))
           /\ Sound(Append(s, ChatMessage("system", PlainContent(x))), {})
           /\ openai_messages_to_cursor(Append(s, ChatMessage("system", PlainContent(x)))) =
                Append(openai_messages_to_cursor(s), CursorMessage("SYSTEM", x, <<>>, <<>>, <<>>))
<1>1. PICK o, n, p : Trans(s) = Acc(o, n, p) /\ Good(o, n, p, open)
  BY DEF Sound
<1>2. List(s)
  BY DEF Sound
<1>3. PICK f : f = Flushed(o, p)
  OBVIOUS
<1>4. openai_messages_to_cursor(s) = f /\ List(f) /\ Follow(f)
  BY <1>1, <1>3, SentIs, FlushedList DEF Good
<1>5. ASSUME NEW m, NEW u, Translate(Acc(o, n, p), m) = Acc(Append(f, u), n, <<>>),
             u.role \in {"USER", "SYSTEM"}
      PROVE  /\ Sound(Append(s, m), {})
             /\ openai_messages_to_cursor(Append(s, m)) = Append(openai_messages_to_cursor(s), u)
  <2>1. Trans(Append(s, m)) = Acc(Append(f, u), n, <<>>)
    BY <1>1, <1>2, <1>5, TranslateAppend
  <2>2. List(Append(f, u)) /\ Flushed(Append(f, u), <<>>) = Append(f, u)
    BY <1>4, ListAppend, FlushedList
  <2>3. u.role # "TOOL" /\ u.role # "ASSISTANT"
    BY <1>5
  <2>4. Follow(Append(f, u)) /\ OpenCalls(Append(f, u)) = {}
    BY <1>4, <2>3, FollowAppend
  <2>5. Good(Append(f, u), n, <<>>, {})
    BY <1>1, <2>2, <2>4, ListShort DEF Good
  <2>6. List(Append(s, m))
    BY <1>2, ListAppend
  <2> QED BY <1>4, <2>1, <2>2, <2>5, <2>6, SentIs DEF Sound
<1>6. \A y : UserSays(x, images).role = "USER" /\ CursorMessage("SYSTEM", y, <<>>, <<>>, <<>>).role = "SYSTEM"
  BY DEF UserSays, CursorMessage
<1> QED BY <1>3, <1>5, <1>6, TranslateText

\* The ids of the calls of an answer.
LEMMA IdsAre ==
    ASSUME NEW ids, UpToTwo(ids)
    PROVE  /\ Ids(Calls(ids)) = Set(ids) /\ Ids(Parts(ids)) = Set(ids)
           /\ (ids = <<>> <=> Set(ids) = {}) /\ (Parts(ids) = <<>> <=> ids = <<>>)
           /\ List(Parts(ids)) /\ List(Calls(ids))
           /\ Len(Parts(ids)) = Len(ids)
<1>1. List(ids) /\ Len(ids) \in Nat /\ (Len(ids) = 0 <=> ids = <<>>)
  BY ShortIsList, ListLength
<1>2. List(Parts(ids)) /\ Len(Parts(ids)) = Len(ids)
  <2>1. PICK u : u = Parts(ids)
    OBVIOUS
  <2>2. u = [i \in 1..Len(ids) |-> u[i]]
    BY <2>1 DEF Parts
  <2> QED BY <1>1, <2>1, <2>2, ListOf
<1>3. List(Calls(ids)) /\ Len(Calls(ids)) = Len(ids)
  <2>1. PICK u : u = Calls(ids)
    OBVIOUS
  <2>2. u = [i \in 1..Len(ids) |-> u[i]]
    BY <2>1 DEF Calls
  <2> QED BY <1>1, <2>1, <2>2, ListOf
<1>4. \A i \in 1..Len(ids) : Parts(ids)[i].toolCallId = ids[i] /\ Calls(ids)[i].toolCallId = ids[i]
  BY DEF Parts, Part, Calls, CursorCall, CallAsked
<1>5. Ids(Calls(ids)) = Set(ids) /\ Ids(Parts(ids)) = Set(ids)
  BY <1>2, <1>3, <1>4 DEF Ids, Set
<1>6. ids = <<>> <=> Set(ids) = {}
  <2>1. ASSUME ids = <<>> PROVE Set(ids) = {}
    <3>1. 1..Len(ids) = {}
      BY <1>1, <2>1
    <3> QED BY <3>1 DEF Set
  <2>2. ASSUME ids # <<>> PROVE Set(ids) # {}
    <3>1. 1 \in 1..Len(ids)
      BY <1>1, <2>2
    <3> QED BY <3>1 DEF Set
  <2> QED BY <2>1, <2>2
<1>7. Parts(ids) = <<>> <=> ids = <<>>
  <2>1. Len(Parts(ids)) = 0 <=> Parts(ids) = <<>>
    BY <1>2, ListLength
  <2> QED BY <1>1, <1>2, <2>1
<1> QED BY <1>2, <1>3, <1>5, <1>6, <1>7

\* An assistant message adds its calls to those of the run.
LEMMA SoundCalls ==
    ASSUME NEW s, NEW open, Sound(s, open), NEW x, NEW ids, UpToTwo(ids)
    PROVE  /\ Sound(Append(s, ChatCalls(x, AskedAll(ids))), open \cup Set(ids))
           /\ openai_messages_to_cursor(Append(s, ChatCalls(x, AskedAll(ids)))) =
                Append(openai_messages_to_cursor(s), Speaks(x, Calls(ids)))
<1>1. PICK o, n, p : Trans(s) = Acc(o, n, p) /\ Good(o, n, p, open)
  BY DEF Sound
<1>2. List(s)
  BY DEF Sound
<1>3. PICK f : f = Flushed(o, p)
  OBVIOUS
<1>4. openai_messages_to_cursor(s) = f /\ List(f) /\ Follow(f) /\ OpenCalls(f) = open
  BY <1>1, <1>3, SentIs, FlushedList DEF Good
<1>5. PICK m : m = ChatCalls(x, AskedAll(ids))
  OBVIOUS
<1>6. PICK u : u = Speaks(x, Calls(ids))
  OBVIOUS
<1>7. u.role = "ASSISTANT" /\ u.toolCalls = Calls(ids)
  BY <1>6 DEF Speaks, CursorMessage
<1>8. PICK k : k = n \cup {CallAsked(id) : id \in Set(ids)}
  OBVIOUS
<1>9. Trans(Append(s, m)) = Acc(Append(f, u), k, <<>>)
  <2>1. Translate(Acc(o, n, p), m) = Acc(Append(f, u), k, <<>>)
    BY <1>3, <1>5, <1>6, <1>8, TranslateCalls
  <2> QED BY <1>1, <1>2, <2>1, TranslateAppend
<1>10. List(Append(f, u)) /\ Flushed(Append(f, u), <<>>) = Append(f, u)
  BY <1>4, ListAppend, FlushedList
<1>11. Follow(Append(f, u)) /\ OpenCalls(Append(f, u)) = open \cup Set(ids)
  BY <1>4, <1>7, FollowAppend, IdsAre
<1>12. Known(k) /\ \A id \in open \cup Set(ids) : HasCall(k, id)
  <2>1. \A id : CallAsked(id).id = id /\ CallAsked(id).name = ToolOf(id)
    BY DEF CallAsked
  <2>2. Known(n) /\ \A id \in open : HasCall(n, id)
    BY <1>1 DEF Good
  <2> QED BY <1>8, <2>1, <2>2 DEF Known, HasCall
<1>13. Good(Append(f, u), k, <<>>, open \cup Set(ids))
  BY <1>10, <1>11, <1>12, ListShort DEF Good
<1>14. List(Append(s, m))
  BY <1>2, ListAppend
<1> QED BY <1>4, <1>5, <1>6, <1>9, <1>10, <1>13, <1>14, SentIs DEF Sound

\* The results of all the open calls become one message.
LEMMA SoundResults ==
    ASSUME NEW s, NEW ids, UpToTwo(ids), ids # <<>>, Sound(s, Set(ids))
    PROVE  /\ Sound(s \o Told(ids), {})
           /\ openai_messages_to_cursor(s \o Told(ids)) =
                Append(openai_messages_to_cursor(s), Reports(ids))
<1>1. PICK o, n, p : Trans(s) = Acc(o, n, p) /\ Good(o, n, p, Set(ids))
  BY DEF Sound
<1>2. List(s)
  BY DEF Sound
<1>3. p = <<>> /\ List(o) /\ Known(n) /\ Follow(o) /\ OpenCalls(o) = Set(ids)
      /\ \A id \in Set(ids) : HasCall(n, id)
  BY <1>1, IdsAre, FlushedList DEF Good
<1>4. openai_messages_to_cursor(s) = o
  BY <1>1, <1>3, SentIs, FlushedList
<1>5. Trans(s \o Told(ids)) = Acc(o, n, Parts(ids))
  <2>1. ASSUME NEW a, ids = <<a>> PROVE Trans(s \o Told(ids)) = Acc(o, n, Parts(ids))
    <3>1. PICK r : r = ChatResult(a, Output(a))
      OBVIOUS
    <3>2. Told(ids) = <<r>> /\ Parts(ids) = <<Part(a)>> /\ a \in Set(ids)
      <4>1. 1 \in 1..Len(ids) /\ ids[1] = a
        BY <2>1, ListShort
      <4> QED BY <2>1, <3>1, <4>1, OfShort DEF Set
    <3>3. s \o Told(ids) = Append(s, r)
      BY <1>2, <3>2, ConcatOne
    <3>4. Trans(Append(s, r)) = Translate(Acc(o, n, <<>>), r)
      BY <1>1, <1>2, <1>3, TranslateAppend
    <3>5. Translate(Acc(o, n, <<>>), r) = Acc(o, n, Append(<<>>, Part(a)))
      <4>1. Known(n) /\ HasCall(n, a)
        BY <1>3, <3>2
      <4>2. \A e : Translate(Acc(o, n, e), r) = Acc(o, n, Append(e, Part(a)))
        BY <3>1, <4>1, TranslateResult
      <4> QED BY <4>2
    <3> QED BY <3>2, <3>3, <3>4, <3>5, ListShort
  <2>2. ASSUME NEW a, NEW b, ids = <<a, b>> PROVE Trans(s \o Told(ids)) = Acc(o, n, Parts(ids))
    <3>1. PICK r : r = ChatResult(a, Output(a))
      OBVIOUS
    <3>2. PICK q : q = ChatResult(b, Output(b))
      OBVIOUS
    <3>3. Told(ids) = <<r, q>> /\ Parts(ids) = <<Part(a), Part(b)>> /\ a \in Set(ids) /\ b \in Set(ids)
      <4>1. 1 \in 1..Len(ids) /\ ids[1] = a /\ 2 \in 1..Len(ids) /\ ids[2] = b
        BY <2>2, ListShort
      <4> QED BY <2>2, <3>1, <3>2, <4>1, OfShort DEF Set
    <3>4. s \o <<r, q>> = Append(Append(s, r), q)
      <4>1. List(<<r>>) /\ <<r, q>> = Append(<<r>>, q)
        BY ListShort
      <4>2. s \o Append(<<r>>, q) = Append(s \o <<r>>, q) /\ s \o <<r>> = Append(s, r)
        BY <1>2, <4>1, ConcatOne
      <4> QED BY <4>1, <4>2
    <3>5. List(Append(s, r))
      BY <1>2, ListAppend
    <3>6. Trans(Append(s, r)) = Translate(Acc(o, n, <<>>), r)
      BY <1>1, <1>2, <1>3, TranslateAppend
    <3>7. Translate(Acc(o, n, <<>>), r) = Acc(o, n, Append(<<>>, Part(a)))
      <4>1. Known(n) /\ HasCall(n, a)
        BY <1>3, <3>3
      <4>2. \A e : Translate(Acc(o, n, e), r) = Acc(o, n, Append(e, Part(a)))
        BY <3>1, <4>1, TranslateResult
      <4> QED BY <4>2
    <3>8. Trans(Append(Append(s, r), q)) = Translate(Trans(Append(s, r)), q)
      BY <3>5, TranslateAppend
    <3>9. Translate(Acc(o, n, <<Part(a)>>), q) = Acc(o, n, Append(<<Part(a)>>, Part(b)))
      BY <1>3, <3>2, <3>3, TranslateResult
    <3>10. /\ Append(<<>>, Part(a)) = <<Part(a)>>
           /\ Append(<<Part(a)>>, Part(b)) = <<Part(a), Part(b)>>
      BY ListShort
    <3> QED BY <3>3, <3>4, <3>6, <3>7, <3>8, <3>9, <3>10
  <2> QED BY <2>1, <2>2 DEF UpToTwo
<1>6. PICK u : u = Reports(ids)
  OBVIOUS
<1>7. Parts(ids) # <<>> /\ List(Parts(ids)) /\ Len(Parts(ids)) = Len(ids) /\ Ids(Parts(ids)) = Set(ids)
  BY IdsAre
<1>8. Flushed(o, Parts(ids)) = Append(o, u)
  BY <1>6, <1>7 DEF Flushed, Reports
<1>9. u.role = "TOOL" /\ u.parts = Parts(ids)
  BY <1>6 DEF Reports, CursorMessage
<1>10. Answers(u, OpenCalls(o))
  <2>1. \A i \in 1..Len(ids) : Parts(ids)[i].toolName = ToolOf(Parts(ids)[i].toolCallId)
    BY DEF Parts, Part
  <2> QED BY <2>1, <1>3, <1>7, <1>9 DEF Answers
<1>11. Follow(Append(o, u)) /\ OpenCalls(Append(o, u)) = {}
  BY <1>3, <1>9, <1>10, FollowAppend
<1>12. Good(o, n, Parts(ids), {})
  BY <1>3, <1>7, <1>8, <1>11 DEF Good
<1>13. List(s \o Told(ids))
  <2>1. List(Told(ids))
    BY MadeOf, ShortIsList
  <2> QED BY <1>2, <2>1, ListConcat
<1> QED BY <1>4, <1>5, <1>6, <1>8, <1>12, <1>13, SentIs DEF Sound

\* The text after the results, or after nothing, if there is one.
LEMMA SoundUserText ==
    ASSUME NEW s, NEW x, Sound(s, {})
    PROVE  /\ Sound(s \o TextMessage("user", x), {})
           /\ openai_messages_to_cursor(s \o TextMessage("user", x)) =
                IF x = <<>> THEN openai_messages_to_cursor(s)
                ELSE Append(openai_messages_to_cursor(s), UserSays(x, <<>>))
<1>1. List(s)
  BY DEF Sound
<1>2. CASE x = <<>>
  <2>1. s \o TextMessage("user", x) = s
    BY <1>1, <1>2, ConcatOne DEF TextMessage
  <2> QED BY <1>2, <2>1
<1>3. CASE x # <<>>
  <2>1. TextMessage("user", x) = <<Says(x, <<>>)>>
    BY <1>3 DEF TextMessage, Says, PlainContent
  <2>2. s \o <<Says(x, <<>>)>> = Append(s, Says(x, <<>>))
    BY <1>1, ConcatOne
  <2> QED BY <1>3, <2>1, <2>2, SoundText
<1> QED BY <1>2, <1>3

------------------------------------------------------------------------------
(* The messages of a conversation, turn after turn. *)

\* The messages of all turns, and the Chat messages of each handler.
ChatFlat(ts) == FlattenSeq(Each(ChatTurn, ts))
AnthropicEach(ts) == [i \in 1..Len(Each(AnthropicTurn, ts)) |->
                        AnthropicMessage(Each(AnthropicTurn, ts)[i])]
AnthropicFlat(ts) == FlattenSeq(AnthropicEach(ts))
ResponsesFlat(ts) == FlattenSeq(Each(ResponsesTurn, ts))
Listed(ts) == List(ts) /\ List(ChatFlat(ts)) /\ List(AnthropicFlat(ts)) /\ List(ResponsesFlat(ts))
ChatOf(c, ts) == chat_handler(c, ts).messages
AnthropicOf(c, ts) == messages_handler(c, ts).messages
ResponsesOf(c, ts) == responses_handler(c, ts).messages

\* Concatenation is associative.
LEMMA ConcatThree ==
    ASSUME NEW a, NEW b, NEW c, List(a), List(b), List(c)
    PROVE  a \o (b \o c) = (a \o b) \o c
<1>1. PICK A : a \in Seq(A)
  BY DEF List
<1>2. PICK B : b \in Seq(B)
  BY DEF List
<1>3. PICK C : c \in Seq(C)
  BY DEF List
<1>4. PICK T : T = A \cup B \cup C
  OBVIOUS
<1>5. a \in Seq(T) /\ b \in Seq(T) /\ c \in Seq(T)
  <2>1. A \subseteq T /\ B \subseteq T /\ C \subseteq T
    BY <1>4
  <2> QED BY <1>1, <1>2, <1>3, <2>1, SeqMonotonic
<1> QED BY <1>5, ConcatAssociative

\* The messages of each dialect.
LEMMA MessagesAre ==
    ASSUME NEW c, NEW ts
    PROVE  /\ ChatOf(c, ts) = System(c.system) \o ChatFlat(ts)
           /\ AnthropicOf(c, ts) = System(c.system) \o AnthropicFlat(ts)
           /\ ResponsesOf(c, ts) = System(c.system) \o Items(ResponsesFlat(ts))
<1>1. ChatOf(c, ts) = System(c.system) \o ChatFlat(ts)
  BY DEF ChatOf, chat_handler, ChatBody, ChatFlat
<1>2. PICK b : b = AnthropicBody(c, ts)
  OBVIOUS
<1>3. b.system = c.system /\ b.messages = Each(AnthropicTurn, ts)
  BY <1>2 DEF AnthropicBody
<1>4. AnthropicOf(c, ts) = System(c.system) \o AnthropicFlat(ts)
  BY <1>2, <1>3 DEF AnthropicOf, messages_handler, anthropic_to_openai_chat, Reduced,
                    AnthropicFlat, AnthropicEach
<1>5. PICK d : d = ResponsesBody(c, ts)
  OBVIOUS
<1>6. d.system = c.system /\ d.input = ResponsesFlat(ts)
  BY <1>5 DEF ResponsesBody, ResponsesFlat
<1>7. ResponsesOf(c, ts) = System(c.system) \o Items(ResponsesFlat(ts))
  BY <1>5, <1>6 DEF ResponsesOf, responses_handler, responses_to_openai_chat, Reduced, Items
<1> QED BY <1>1, <1>4, <1>7

\* What is made of each turn is a list, which grows with the turns.
LEMMA EachAppend ==
    ASSUME NEW ts, List(ts), NEW t
    PROVE  /\ List(Each(ChatTurn, ts)) /\ List(AnthropicEach(ts)) /\ List(Each(ResponsesTurn, ts))
           /\ Each(ChatTurn, Append(ts, t)) = Append(Each(ChatTurn, ts), ChatTurn(t))
           /\ AnthropicEach(Append(ts, t)) =
                Append(AnthropicEach(ts), AnthropicMessage(AnthropicTurn(t)))
           /\ Each(ResponsesTurn, Append(ts, t)) = Append(Each(ResponsesTurn, ts), ResponsesTurn(t))
<1>1. PICK a : a = Append(ts, t)
  OBVIOUS
<1>2. /\ List(a) /\ Len(a) = Len(ts) + 1 /\ Len(ts) \in Nat
      /\ a[Len(ts) + 1] = t /\ \A i \in 1..Len(ts) : a[i] = ts[i]
  BY <1>1, ListAppend
<1>3. ASSUME NEW f, NEW g, NEW z, List(f), List(g), Len(f) = Len(ts), Len(g) = Len(a),
             g[Len(ts) + 1] = z, \A i \in 1..Len(ts) : g[i] = f[i]
      PROVE  g = Append(f, z)
  <2>1. PICK h : h = Append(f, z)
    OBVIOUS
  <2>2. /\ List(h) /\ Len(h) = Len(ts) + 1 /\ h[Len(ts) + 1] = z
        /\ \A i \in 1..Len(ts) : h[i] = f[i]
    BY <1>3, <2>1, ListAppend
  <2>3. \A i \in 1..(Len(ts) + 1) : i = Len(ts) + 1 \/ i \in 1..Len(ts)
    BY <1>2
  <2>4. \A i \in 1..Len(g) : g[i] = h[i]
    BY <1>2, <1>3, <2>2, <2>3
  <2>5. g = h
    BY <1>2, <1>3, <2>2, <2>4, ListEqual
  <2> QED BY <2>1, <2>5
<1>10. Len(ts) + 1 \in 1..Len(a) /\ \A i \in 1..Len(ts) : i \in 1..Len(a)
  BY <1>2
<1>4. List(Each(ChatTurn, ts)) /\ Each(ChatTurn, a) = Append(Each(ChatTurn, ts), ChatTurn(t))
  <2>1. PICK f : f = Each(ChatTurn, ts)
    OBVIOUS
  <2>2. PICK g : g = Each(ChatTurn, a)
    OBVIOUS
  <2>3. f = [i \in 1..Len(ts) |-> f[i]] /\ \A i \in 1..Len(ts) : f[i] = ChatTurn(ts[i])
    BY <2>1 DEF Each
  <2>4. g = [i \in 1..Len(a) |-> g[i]] /\ \A i \in 1..Len(a) : g[i] = ChatTurn(a[i])
    BY <2>2 DEF Each
  <2>5. g[Len(ts) + 1] = ChatTurn(t) /\ \A i \in 1..Len(ts) : g[i] = f[i]
    BY <2>3, <2>4, <1>2, <1>10
  <2>6. List(f) /\ Len(f) = Len(ts)
    BY <2>3, <1>2, ListOf
  <2>7. List(g) /\ Len(g) = Len(a)
    <3>1. Len(a) \in Nat
      BY <1>2
    <3> QED BY <2>4, <3>1, ListOf
  <2>8. \A z : g[Len(ts) + 1] = z => g = Append(f, z)
    <3>1. \A i \in 1..Len(ts) : g[i] = f[i]
      BY <2>5
    <3> QED BY <3>1, <2>6, <2>7, <1>3
  <2> QED BY <2>1, <2>2, <2>5, <2>6, <2>8
<1>5. /\ List(Each(ResponsesTurn, ts))
      /\ Each(ResponsesTurn, a) = Append(Each(ResponsesTurn, ts), ResponsesTurn(t))
  <2>1. PICK f : f = Each(ResponsesTurn, ts)
    OBVIOUS
  <2>2. PICK g : g = Each(ResponsesTurn, a)
    OBVIOUS
  <2>3. f = [i \in 1..Len(ts) |-> f[i]] /\ \A i \in 1..Len(ts) : f[i] = ResponsesTurn(ts[i])
    BY <2>1 DEF Each
  <2>4. g = [i \in 1..Len(a) |-> g[i]] /\ \A i \in 1..Len(a) : g[i] = ResponsesTurn(a[i])
    BY <2>2 DEF Each
  <2>5. g[Len(ts) + 1] = ResponsesTurn(t) /\ \A i \in 1..Len(ts) : g[i] = f[i]
    BY <2>3, <2>4, <1>2, <1>10
  <2>6. List(f) /\ Len(f) = Len(ts)
    BY <2>3, <1>2, ListOf
  <2>7. List(g) /\ Len(g) = Len(a)
    <3>1. Len(a) \in Nat
      BY <1>2
    <3> QED BY <2>4, <3>1, ListOf
  <2>8. \A z : g[Len(ts) + 1] = z => g = Append(f, z)
    <3>1. \A i \in 1..Len(ts) : g[i] = f[i]
      BY <2>5
    <3> QED BY <3>1, <2>6, <2>7, <1>3
  <2> QED BY <2>1, <2>2, <2>5, <2>6, <2>8
<1>6. ASSUME NEW us, List(us)
      PROVE  /\ AnthropicEach(us) = [i \in 1..Len(us) |-> AnthropicEach(us)[i]]
             /\ \A i \in 1..Len(us) : AnthropicEach(us)[i] = AnthropicMessage(AnthropicTurn(us[i]))
  <2>1. PICK e : e = Each(AnthropicTurn, us)
    OBVIOUS
  <2>2. e = [i \in 1..Len(us) |-> e[i]] /\ \A i \in 1..Len(us) : e[i] = AnthropicTurn(us[i])
    BY <2>1 DEF Each
  <2>3. Len(e) = Len(us)
    BY <2>2, <1>6, ListLength, ListOf
  <2> QED BY <2>1, <2>2, <2>3 DEF AnthropicEach
<1>7. List(AnthropicEach(ts)) /\ AnthropicEach(a) = Append(AnthropicEach(ts), AnthropicMessage(AnthropicTurn(t)))
  <2>1. PICK f : f = AnthropicEach(ts)
    OBVIOUS
  <2>2. PICK g : g = AnthropicEach(a)
    OBVIOUS
  <2>3. /\ f = [i \in 1..Len(ts) |-> f[i]]
        /\ \A i \in 1..Len(ts) : f[i] = AnthropicMessage(AnthropicTurn(ts[i]))
    BY <2>1, <1>6
  <2>4. /\ g = [i \in 1..Len(a) |-> g[i]]
        /\ \A i \in 1..Len(a) : g[i] = AnthropicMessage(AnthropicTurn(a[i]))
    BY <2>2, <1>2, <1>6
  <2>5. g[Len(ts) + 1] = AnthropicMessage(AnthropicTurn(t)) /\ \A i \in 1..Len(ts) : g[i] = f[i]
    BY <2>3, <2>4, <1>2, <1>10
  <2>6. List(f) /\ Len(f) = Len(ts)
    BY <2>3, <1>2, ListOf
  <2>7. List(g) /\ Len(g) = Len(a)
    <3>1. Len(a) \in Nat
      BY <1>2
    <3> QED BY <2>4, <3>1, ListOf
  <2>8. \A z : g[Len(ts) + 1] = z => g = Append(f, z)
    <3>1. \A i \in 1..Len(ts) : g[i] = f[i]
      BY <2>5
    <3> QED BY <3>1, <2>6, <2>7, <1>3
  <2> QED BY <2>1, <2>2, <2>5, <2>6, <2>8
<1> QED BY <1>1, <1>4, <1>5, <1>7

TurnLists(t) == /\ List(ChatTurn(t)) /\ List(AnthropicMessage(AnthropicTurn(t)))
                /\ List(ResponsesTurn(t))
Grown(c, ts, t) ==
    /\ Listed(Append(ts, t))
    /\ ChatOf(c, Append(ts, t)) = ChatOf(c, ts) \o ChatTurn(t)
    /\ AnthropicOf(c, Append(ts, t)) = AnthropicOf(c, ts) \o AnthropicMessage(AnthropicTurn(t))
    /\ ResponsesOf(c, Append(ts, t)) = ResponsesOf(c, ts) \o Items(ResponsesTurn(t))

\* The messages of one more turn come behind the others.
LEMMA Grows ==
    ASSUME NEW c, NEW ts, Listed(ts), NEW t, TurnLists(t)
    PROVE  Grown(c, ts, t)
<1>0. List(ChatTurn(t)) /\ List(AnthropicMessage(AnthropicTurn(t))) /\ List(ResponsesTurn(t))
  BY DEF TurnLists
<1>1. List(ts) /\ List(ChatFlat(ts)) /\ List(AnthropicFlat(ts)) /\ List(ResponsesFlat(ts))
  BY DEF Listed
<1>2. PICK a : a = Append(ts, t)
  OBVIOUS
<1>3. List(a)
  BY <1>1, <1>2, ListAppend
<1>4. /\ List(Each(ChatTurn, ts)) /\ List(AnthropicEach(ts)) /\ List(Each(ResponsesTurn, ts))
      /\ Each(ChatTurn, a) = Append(Each(ChatTurn, ts), ChatTurn(t))
      /\ AnthropicEach(a) = Append(AnthropicEach(ts), AnthropicMessage(AnthropicTurn(t)))
      /\ Each(ResponsesTurn, a) = Append(Each(ResponsesTurn, ts), ResponsesTurn(t))
  BY <1>1, <1>2, EachAppend
<1>5. ChatFlat(a) = ChatFlat(ts) \o ChatTurn(t)
  <2>1. PICK e : e = Each(ChatTurn, ts)
    OBVIOUS
  <2>2. List(e) /\ Each(ChatTurn, a) = Append(e, ChatTurn(t))
    BY <1>4, <2>1
  <2>3. FlattenSeq(Append(e, ChatTurn(t))) = FlattenSeq(e) \o ChatTurn(t)
    BY <1>0, <2>2, FlattenList
  <2> QED BY <2>1, <2>2, <2>3 DEF ChatFlat
<1>6. AnthropicFlat(a) = AnthropicFlat(ts) \o AnthropicMessage(AnthropicTurn(t))
  <2>1. PICK e : e = AnthropicEach(ts)
    OBVIOUS
  <2>2. PICK z : z = AnthropicMessage(AnthropicTurn(t))
    OBVIOUS
  <2>3. List(e) /\ List(z) /\ AnthropicEach(a) = Append(e, z)
    BY <1>0, <1>4, <2>1, <2>2
  <2>4. FlattenSeq(Append(e, z)) = FlattenSeq(e) \o z
    BY <2>3, FlattenList
  <2> QED BY <2>1, <2>2, <2>3, <2>4 DEF AnthropicFlat
<1>7. ResponsesFlat(a) = ResponsesFlat(ts) \o ResponsesTurn(t)
  <2>1. PICK e : e = Each(ResponsesTurn, ts)
    OBVIOUS
  <2>2. List(e) /\ Each(ResponsesTurn, a) = Append(e, ResponsesTurn(t))
    BY <1>4, <2>1
  <2>3. FlattenSeq(Append(e, ResponsesTurn(t))) = FlattenSeq(e) \o ResponsesTurn(t)
    BY <1>0, <2>2, FlattenList
  <2> QED BY <2>1, <2>2, <2>3 DEF ResponsesFlat
<1>8. List(ChatFlat(a)) /\ List(AnthropicFlat(a)) /\ List(ResponsesFlat(a))
  BY <1>0, <1>1, <1>5, <1>6, <1>7, ListConcat
<1>9. List(System(c.system))
  BY ListShort DEF System, TextMessage
<1>10. PICK s : s = System(c.system)
  OBVIOUS
<1>11. List(s)
  BY <1>9, <1>10
<1>12. s \o (ChatFlat(ts) \o ChatTurn(t)) = (s \o ChatFlat(ts)) \o ChatTurn(t)
  <2>1. List(ChatFlat(ts)) /\ List(ChatTurn(t))
    BY <1>0, <1>1
  <2> QED BY <1>11, <2>1, ConcatThree
<1>13. s \o (AnthropicFlat(ts) \o AnthropicMessage(AnthropicTurn(t))) =
         (s \o AnthropicFlat(ts)) \o AnthropicMessage(AnthropicTurn(t))
  <2>1. List(AnthropicFlat(ts)) /\ List(AnthropicMessage(AnthropicTurn(t)))
    BY <1>0, <1>1
  <2> QED BY <1>11, <2>1, ConcatThree
<1>14. List(Items(ResponsesFlat(ts))) /\ List(Items(ResponsesTurn(t)))
  BY <1>0, <1>1, ItemsConcat
<1>15. s \o (Items(ResponsesFlat(ts)) \o Items(ResponsesTurn(t))) =
         (s \o Items(ResponsesFlat(ts))) \o Items(ResponsesTurn(t))
  BY <1>11, <1>14, ConcatThree
<1>16. Items(ResponsesFlat(ts) \o ResponsesTurn(t)) = Items(ResponsesFlat(ts)) \o Items(ResponsesTurn(t))
  BY <1>0, <1>1, ItemsConcat
<1>17. /\ ChatOf(c, a) = s \o ChatFlat(a) /\ ChatOf(c, ts) = s \o ChatFlat(ts)
       /\ AnthropicOf(c, a) = s \o AnthropicFlat(a) /\ AnthropicOf(c, ts) = s \o AnthropicFlat(ts)
       /\ ResponsesOf(c, a) = s \o Items(ResponsesFlat(a))
       /\ ResponsesOf(c, ts) = s \o Items(ResponsesFlat(ts))
  BY <1>10, MessagesAre
<1>18. Listed(a)
  BY <1>3, <1>8 DEF Listed
<1>19. ChatOf(c, a) = ChatOf(c, ts) \o ChatTurn(t)
  BY <1>5, <1>12, <1>17
<1>20. AnthropicOf(c, a) = AnthropicOf(c, ts) \o AnthropicMessage(AnthropicTurn(t))
  BY <1>6, <1>13, <1>17
<1>21. ResponsesOf(c, a) = ResponsesOf(c, ts) \o Items(ResponsesTurn(t))
  BY <1>7, <1>15, <1>16, <1>17
<1> QED BY <1>2, <1>18, <1>19, <1>20, <1>21 DEF Grown

------------------------------------------------------------------------------
(* The same messages in every dialect. *)

\* Messages without images; messages that do not end with an answer.
Bare(ms) == [i \in 1..Len(ms) |-> [ms[i] EXCEPT !.images = <<>>]]
Hushed(ms) == ms = <<>> \/ ms[Len(ms)].role # "ASSISTANT"
PlainSent(m) == [m EXCEPT !.images = <<>>]

\* A message without its images.
LEMMA StrippedIs ==
    ASSUME NEW role, NEW x, NEW images, NEW calls, NEW parts
    PROVE  PlainSent(CursorMessage(role, x, images, calls, parts)) =
                CursorMessage(role, x, <<>>, calls, parts)
<1>1. PICK r : r = CursorMessage(role, x, images, calls, parts)
  OBVIOUS
<1>2. r \in [role : {role}, text : {x}, images : {images}, toolCalls : {calls}, parts : {parts}]
  BY <1>1 DEF CursorMessage
<1>3. [r EXCEPT !.images = <<>>] \in
        [role : {role}, text : {x}, images : {<<>>}, toolCalls : {calls}, parts : {parts}]
  BY <1>2
<1>4. \A s \in [role : {role}, text : {x}, images : {<<>>}, toolCalls : {calls}, parts : {parts}] :
        s = [role |-> role, text |-> x, images |-> <<>>, toolCalls |-> calls, parts |-> parts]
  OBVIOUS
<1> QED BY <1>1, <1>3, <1>4 DEF PlainSent, CursorMessage

\* One more message for the Anthropic form.
LEMMA WithoutAppend ==
    ASSUME NEW ms, List(ms), NEW role, NEW x, NEW images, NEW calls, NEW parts
    PROVE  WithoutImages(Append(ms, CursorMessage(role, x, images, calls, parts))) =
             IF role = "USER" /\ x = <<>> THEN WithoutImages(ms)
             ELSE Append(WithoutImages(ms), CursorMessage(role, x, <<>>, calls, parts))
<1>1. PICK m : m = CursorMessage(role, x, images, calls, parts)
  OBVIOUS
<1>2. PICK b : b = CursorMessage(role, x, <<>>, calls, parts)
  OBVIOUS
<1>3. PlainSent(m) = b /\ b.role = role /\ b.text = x
  BY <1>1, <1>2, StrippedIs DEF CursorMessage
<1>4. \A s : WithoutImages(s) = Spoken(Bare(s))
  BY DEF WithoutImages, Spoken, Bare
<1>5. PICK a : a = Append(ms, m)
  OBVIOUS
<1>6. /\ List(a) /\ Len(a) = Len(ms) + 1 /\ Len(ms) \in Nat
      /\ a[Len(ms) + 1] = m /\ \A i \in 1..Len(ms) : a[i] = ms[i]
  BY <1>5, ListAppend
<1>7. PICK f : f = Bare(ms)
  OBVIOUS
<1>8. PICK g : g = Bare(a)
  OBVIOUS
<1>9. List(f) /\ Len(f) = Len(ms) /\ \A i \in 1..Len(ms) : f[i] = PlainSent(ms[i])
  <2>1. f = [i \in 1..Len(ms) |-> f[i]] /\ \A i \in 1..Len(ms) : f[i] = PlainSent(ms[i])
    BY <1>7 DEF Bare, PlainSent
  <2> QED BY <2>1, <1>6, ListOf
<1>10. List(g) /\ Len(g) = Len(ms) + 1 /\ \A i \in 1..(Len(ms) + 1) : g[i] = PlainSent(a[i])
  <2>1. g = [i \in 1..(Len(ms) + 1) |-> g[i]] /\ \A i \in 1..(Len(ms) + 1) : g[i] = PlainSent(a[i])
    BY <1>6, <1>8 DEF Bare, PlainSent
  <2>2. Len(ms) + 1 \in Nat
    BY <1>6
  <2> QED BY <2>1, <2>2, ListOf
<1>11. g = Append(f, b)
  <2>1. PICK h : h = Append(f, b)
    OBVIOUS
  <2>2. /\ List(h) /\ Len(h) = Len(ms) + 1 /\ h[Len(ms) + 1] = b
        /\ \A i \in 1..Len(ms) : h[i] = f[i]
    BY <1>9, <2>1, ListAppend
  <2>3. \A i \in 1..(Len(ms) + 1) : i = Len(ms) + 1 \/ i \in 1..Len(ms)
    BY <1>6
  <2>4. \A i \in 1..Len(g) : g[i] = h[i]
    BY <1>3, <1>6, <1>9, <1>10, <2>2, <2>3
  <2>5. g = h
    BY <1>10, <2>2, <2>4, ListEqual
  <2> QED BY <2>1, <2>5
<1>12. Spoken(Append(f, b)) = IF (b.role = "USER" => b.text # <<>>) THEN Append(Spoken(f), b)
                              ELSE Spoken(f)
  <2>1. List(f)
    BY <1>9
  <2> QED BY <2>1, SpokenAppend
<1> QED BY <1>1, <1>2, <1>3, <1>4, <1>5, <1>7, <1>8, <1>11, <1>12

\* One more message for the merged form, when it does not continue an answer.
LEMMA MergedNext ==
    ASSUME NEW ms, List(ms), NEW m, m.role # "ASSISTANT" \/ Hushed(Merged(ms))
    PROVE  Merged(Append(ms, m)) = Append(Merged(ms), m)
<1>1. Merged(Append(ms, m)) = Combine(Merged(ms), m)
  BY MergedAppend
<1> QED BY <1>1 DEF Combine, Hushed

\* Two messages of the assistant, and the one they make.
Spoke(a) == \E x, cs : a = Speaks(x, cs)
Joined(a, m) == Speaks(a.text \o m.text, a.toolCalls \o m.toolCalls)

\* One more message that continues the answer.
LEMMA MergedMore ==
    ASSUME NEW ms, List(ms), NEW P, List(P), NEW a, Spoke(a), NEW m, Spoke(m),
           Merged(ms) = Append(P, a)
    PROVE  Merged(Append(ms, m)) = Append(P, Joined(a, m))
<1>0. PICK x, cs, y, ds : a = Speaks(x, cs) /\ m = Speaks(y, ds)
  BY DEF Spoke
<1>1. m = Speaks(y, ds)
  BY <1>0
<1>2. a = Speaks(x, cs)
  BY <1>0
<1>3. PICK b : b = Speaks(x \o y, cs \o ds)
  OBVIOUS
<1>4. PICK acc : acc = Append(P, a)
  OBVIOUS
<1>5. /\ List(acc) /\ Len(acc) = Len(P) + 1 /\ Len(P) \in Nat /\ acc # <<>>
      /\ acc[Len(P) + 1] = a /\ \A i \in 1..Len(P) : acc[i] = P[i]
  BY <1>4, ListAppend
<1>6. m.role = "ASSISTANT" /\ a.role = "ASSISTANT" /\ m.text = y /\ m.toolCalls = ds
  BY <1>1, <1>2 DEF Speaks, CursorMessage
<1>7. PICK l \in Nat : l = Len(P) + 1
  BY <1>5
<1>8. PICK d : d = [acc EXCEPT ![l].text = @ \o y, ![l].toolCalls = @ \o ds]
  OBVIOUS
<1>9. Merged(Append(ms, m)) = d
  <2>1. Merged(Append(ms, m)) = Combine(Merged(ms), m)
    BY MergedAppend
  <2>2. Merged(ms) = acc /\ Len(acc) = l /\ acc[l] = a
    BY <1>2, <1>4, <1>5, <1>7
  <2> QED BY <1>5, <1>6, <1>8, <2>1, <2>2 DEF Combine
<1>10. DOMAIN acc = 1..l /\ l \in 1..l
  BY <1>5, <1>7, ListLength
<1>11. d[l] = b
  <2>1. a \in [role : {"ASSISTANT"}, text : {x}, images : {<<>>}, toolCalls : {cs}, parts : {<<>>}]
    BY <1>2 DEF Speaks, CursorMessage
  <2>2. PICK e : e = [acc EXCEPT ![l].text = @ \o y]
    OBVIOUS
  <2>3. e[l] = [a EXCEPT !.text = x \o y] /\ DOMAIN e = 1..l
    <3>1. acc[l] = a /\ a.text = x
      BY <1>5, <1>7, <2>1
    <3> QED BY <2>2, <3>1, <1>10
  <2>4. e[l] \in [role : {"ASSISTANT"}, text : {x \o y}, images : {<<>>}, toolCalls : {cs}, parts : {<<>>}]
    BY <2>1, <2>3
  <2>5. d = [e EXCEPT ![l].toolCalls = @ \o ds]
    BY <1>8, <2>2
  <2>6. d[l] = [e[l] EXCEPT !.toolCalls = cs \o ds]
    BY <2>3, <2>4, <2>5, <1>10
  <2>7. d[l] \in [role : {"ASSISTANT"}, text : {x \o y}, images : {<<>>}, toolCalls : {cs \o ds},
                  parts : {<<>>}]
    BY <2>4, <2>6
  <2>8. \A s \in [role : {"ASSISTANT"}, text : {x \o y}, images : {<<>>}, toolCalls : {cs \o ds},
                  parts : {<<>>}] :
          s = [role |-> "ASSISTANT", text |-> x \o y, images |-> <<>>, toolCalls |-> cs \o ds,
               parts |-> <<>>]
    OBVIOUS
  <2> QED BY <1>3, <2>7, <2>8 DEF Speaks, CursorMessage
<1>12. d = [i \in 1..l |-> d[i]] /\ \A i \in 1..Len(P) : d[i] = P[i]
  <2>1. \A i \in 1..Len(P) : i # l /\ i \in 1..l
    BY <1>5, <1>7
  <2>2. DOMAIN d = 1..l /\ d = [i \in 1..l |-> d[i]]
    BY <1>8, <1>10
  <2>3. \A i \in 1..l : i # l => d[i] = acc[i]
    BY <1>8, <1>10
  <2> QED BY <2>1, <2>2, <2>3, <1>5
<1>13. List(d) /\ Len(d) = l
  BY <1>12, ListOf
<1>14. PICK z : z = Append(P, b)
  OBVIOUS
<1>15. List(z) /\ Len(z) = l /\ z[l] = b /\ \A i \in 1..Len(P) : z[i] = P[i]
  BY <1>7, <1>14, ListAppend
<1>16. \A i \in 1..l : i = l \/ i \in 1..Len(P)
  BY <1>5, <1>7
<1>17. \A i \in 1..Len(d) : d[i] = z[i]
  BY <1>11, <1>12, <1>13, <1>15, <1>16
<1>18. d = z
  BY <1>13, <1>15, <1>17, ListEqual
<1>19. Joined(a, m) = b
  BY <1>1, <1>2, <1>3 DEF Joined, Speaks, CursorMessage
<1> QED BY <1>9, <1>14, <1>18, <1>19

\* The beginning of a list.
Begins(s, u) == List(s) /\ List(u) /\ Len(s) <= Len(u) /\ \A i \in 1..Len(s) : u[i] = s[i]

\* A list that grows begins as before.
LEMMA BeginsMore ==
    ASSUME NEW u, List(u), NEW x, NEW v, List(v)
    PROVE  /\ Begins(u, u) /\ Begins(u, Append(u, x)) /\ Begins(u, u \o v)
           /\ \A s : Begins(s, u) => Begins(s, Append(u, x))
           /\ \A s, w : Begins(s, u) /\ Begins(u, w) => Begins(s, w)
<1>1. Len(u) \in Nat
  BY ListLength
<1>2. Begins(u, u)
  BY <1>1 DEF Begins
<1>3. PICK a : a = Append(u, x)
  OBVIOUS
<1>4. Begins(u, a)
  <2>1. List(a) /\ Len(a) = Len(u) + 1 /\ \A i \in 1..Len(u) : a[i] = u[i]
    BY <1>3, ListAppend
  <2> QED BY <1>1, <2>1 DEF Begins
<1>5. PICK c : c = u \o v
  OBVIOUS
<1>6. Begins(u, c)
  <2>1. List(c) /\ Len(c) = Len(u) + Len(v) /\ Len(v) \in Nat /\ \A i \in 1..Len(u) : c[i] = u[i]
    BY <1>5, ListConcat
  <2> QED BY <1>1, <2>1 DEF Begins
<1>7. ASSUME NEW s, NEW w, Begins(s, u), Begins(u, w) PROVE Begins(s, w)
  <2>1. List(s) /\ List(w) /\ Len(s) \in Nat /\ Len(w) \in Nat
    BY <1>7, ListLength DEF Begins
  <2>2. Len(s) <= Len(u) /\ Len(u) <= Len(w)
    BY <1>7 DEF Begins
  <2>3. \A i \in 1..Len(s) : i \in 1..Len(u)
    BY <1>1, <2>1, <2>2
  <2> QED BY <1>1, <1>7, <2>1, <2>2, <2>3 DEF Begins
<1> QED BY <1>2, <1>3, <1>4, <1>5, <1>6, <1>7

\* What is sent when results are returned.
Returns(u, ids, x) == IF x = <<>> THEN Append(u, Reports(ids))
                      ELSE Append(Append(u, Reports(ids)), UserSays(x, <<>>))

\* The results of a turn and its text.
LEMMA SoundReturn ==
    ASSUME NEW s, NEW ids, UpToTwo(ids), ids # <<>>, Sound(s, Set(ids)), NEW x
    PROVE  /\ Sound(s \o (Told(ids) \o TextMessage("user", x)), {})
           /\ openai_messages_to_cursor(s \o (Told(ids) \o TextMessage("user", x))) =
                Returns(openai_messages_to_cursor(s), ids, x)
<1>1. PICK r : r = s \o Told(ids)
  OBVIOUS
<1>2. /\ Sound(r, {})
      /\ openai_messages_to_cursor(r) = Append(openai_messages_to_cursor(s), Reports(ids))
  BY <1>1, SoundResults
<1>3. /\ Sound(r \o TextMessage("user", x), {})
      /\ openai_messages_to_cursor(r \o TextMessage("user", x)) =
                IF x = <<>> THEN openai_messages_to_cursor(r)
                ELSE Append(openai_messages_to_cursor(r), UserSays(x, <<>>))
  BY <1>2, SoundUserText
<1>4. s \o (Told(ids) \o TextMessage("user", x)) = r \o TextMessage("user", x)
  <2>1. List(s) /\ List(Told(ids)) /\ List(TextMessage("user", x))
    BY MadeOf, ShortIsList, ListShort DEF Sound, TextMessage
  <2> QED BY <1>1, <2>1, ConcatThree
<1> QED BY <1>2, <1>3, <1>4 DEF Returns

\* A call in a message of its own.
OneCall(a) == ChatCalls(<<>>, <<CallAsked(a)>>)

\* The first call of an answer without text, and a call after others.
LEMMA SoundCall ==
    ASSUME NEW s, NEW open, Sound(s, open), NEW a
    PROVE  /\ Sound(Append(s, OneCall(a)), open \cup {a})
           /\ openai_messages_to_cursor(Append(s, OneCall(a))) =
                Append(openai_messages_to_cursor(s), Speaks(<<>>, <<CursorCall(CallAsked(a))>>))
           /\ Begins(openai_messages_to_cursor(s), openai_messages_to_cursor(Append(s, OneCall(a))))
<1>1. PICK ids : ids = <<a>>
  OBVIOUS
<1>2. UpToTwo(ids) /\ Set(ids) = {a} /\ AskedAll(ids) = <<CallAsked(a)>> /\ Calls(ids) = <<CursorCall(CallAsked(a))>>
  <2>1. Len(ids) = 1 /\ ids[1] = a /\ 1..1 = {1}
    BY <1>1, ListShort
  <2>2. Set(ids) = {a}
    BY <2>1 DEF Set
  <2> QED BY <1>1, <2>2, OfShort DEF UpToTwo
<1>3. PICK u : u = openai_messages_to_cursor(s)
  OBVIOUS
<1>4. PICK b : b = Speaks(<<>>, <<CursorCall(CallAsked(a))>>)
  OBVIOUS
<1>5. /\ Sound(Append(s, OneCall(a)), open \cup {a})
      /\ openai_messages_to_cursor(Append(s, OneCall(a))) = Append(u, b)
  <2>1. OneCall(a) = ChatCalls(<<>>, AskedAll(ids))
    BY <1>2 DEF OneCall
  <2>2. UpToTwo(ids) /\ Sound(s, open)
    BY <1>2
  <2>3. \A y : /\ Sound(Append(s, ChatCalls(y, AskedAll(ids))), open \cup Set(ids))
               /\ openai_messages_to_cursor(Append(s, ChatCalls(y, AskedAll(ids)))) =
                    Append(openai_messages_to_cursor(s), Speaks(y, Calls(ids)))
    BY <2>2, SoundCalls
  <2> QED BY <1>2, <1>3, <1>4, <2>1, <2>3
<1>6. List(u)
  BY <1>3, SoundSent
<1>7. Begins(u, Append(u, b))
  BY <1>6, BeginsMore, ListShort
<1> QED BY <1>3, <1>4, <1>5, <1>7

\* The call after a text or after another call.
LEMMA CallAfter ==
    ASSUME NEW a, NEW x, NEW cs, List(x), List(cs)
    PROVE  /\ Joined(Speaks(x, cs), Speaks(<<>>, <<CursorCall(CallAsked(a))>>)) =
                Speaks(x, Append(cs, CursorCall(CallAsked(a))))
           /\ Spoke(Speaks(x, cs)) /\ Spoke(Speaks(<<>>, <<CursorCall(CallAsked(a))>>))
<1>1. PICK y : y = <<>>
  OBVIOUS
<1>2. PICK ds : ds = <<CursorCall(CallAsked(a))>>
  OBVIOUS
<1>3. Joined(Speaks(x, cs), Speaks(y, ds)) = Speaks(x \o y, cs \o ds)
  BY DEF Joined, Speaks, CursorMessage
<1>4. x \o y = x /\ cs \o ds = Append(cs, CursorCall(CallAsked(a)))
  BY <1>1, <1>2, ConcatOne
<1> QED BY <1>1, <1>2, <1>3, <1>4 DEF Spoke

\* An answer that is spread over several messages.
LEMMA SoundSpread ==
    ASSUME NEW s, Sound(s, {}), NEW P, List(P), Hushed(P), Merged(openai_messages_to_cursor(s)) = P,
           NEW x, OneText(x), NEW ids, UpToTwo(ids), x # <<>> \/ ids # <<>>
    PROVE  LET r == s \o (TextMessage("assistant", x) \o OneByOne(ids))
           IN /\ Sound(r, Set(ids)) /\ Begins(openai_messages_to_cursor(s), openai_messages_to_cursor(r))
              /\ Merged(openai_messages_to_cursor(r)) = Append(P, Speaks(x, Calls(ids)))
<1>1. PICK u : u = openai_messages_to_cursor(s)
  OBVIOUS
<1>2. List(s) /\ List(u) /\ List(x)
  BY <1>1, SoundSent, ShortIsList
<1>3. PICK t : t = s \o TextMessage("assistant", x)
  OBVIOUS
<1>4. PICK w : w = openai_messages_to_cursor(t)
  OBVIOUS
<1>5. /\ Sound(t, {}) /\ Begins(u, w) /\ (x = <<>> => Merged(w) = P)
      /\ (x # <<>> => Merged(w) = Append(P, Speaks(x, <<>>)))
  <2>1. CASE x = <<>>
    <3>1. t = s
      BY <1>2, <1>3, <2>1, ConcatOne DEF TextMessage
    <3>2. Begins(u, u)
      BY <1>2, BeginsMore
    <3> QED BY <1>1, <1>4, <2>1, <3>1, <3>2
  <2>2. CASE x # <<>>
    <3>1. PICK m : m = ChatCalls(x, AskedAll(<<>>))
      OBVIOUS
    <3>2. TextMessage("assistant", x) = <<m>>
      BY <2>2, <3>1, OfShort DEF TextMessage, ChatCalls, ChatMessage
    <3>3. t = Append(s, m)
      <4>1. List(s)
        BY <1>2
      <4>2. s \o <<m>> = Append(s, m)
        BY <4>1, ConcatOne
      <4> QED BY <1>3, <3>2, <4>2
    <3>4. UpToTwo(<<>>) /\ Set(<<>>) = {} /\ Calls(<<>>) = <<>>
      BY IdsAre, OfShort DEF UpToTwo
    <3>5. PICK b : b = Speaks(x, <<>>)
      OBVIOUS
    <3>6. Sound(t, {} \cup Set(<<>>)) /\ w = Append(u, b)
      <4>1. PICK e : e = <<>>
        OBVIOUS
      <4>2. PICK open : open = {}
        OBVIOUS
      <4>3. Sound(s, open) /\ UpToTwo(e)
        BY <3>4, <4>1, <4>2
      <4>4. /\ Sound(Append(s, ChatCalls(x, AskedAll(e))), open \cup Set(e))
            /\ openai_messages_to_cursor(Append(s, ChatCalls(x, AskedAll(e)))) =
                 Append(openai_messages_to_cursor(s), Speaks(x, Calls(e)))
        BY <4>3, SoundCalls
      <4>5. ChatCalls(x, AskedAll(e)) = m /\ Speaks(x, Calls(e)) = b
        BY <3>1, <3>4, <3>5, <4>1
      <4> QED BY <1>1, <1>4, <3>3, <4>1, <4>2, <4>4, <4>5
    <3>7. Begins(u, Append(u, b))
      BY <1>2, BeginsMore
    <3>8. Merged(Append(u, b)) = Append(P, b)
      BY <1>1, <1>2, MergedNext
    <3> QED BY <2>2, <3>4, <3>5, <3>6, <3>7, <3>8
  <2> QED BY <2>1, <2>2
<1>6. PICK r : r = s \o (TextMessage("assistant", x) \o OneByOne(ids))
  OBVIOUS
<1>7. r = t \o OneByOne(ids) /\ List(t)
  <2>1. List(TextMessage("assistant", x)) /\ List(OneByOne(ids))
    BY ItemsAre, ShortIsList, ListShort DEF TextMessage
  <2> QED BY <1>2, <1>3, <1>6, <2>1, ConcatThree, ListConcat
<1>8. CASE ids = <<>>
  <2>1. r = t
    BY <1>7, <1>8, OfShort, ConcatOne
  <2>2. Calls(ids) = <<>> /\ Set(ids) = {}
    BY <1>8, OfShort, IdsAre
  <2> QED BY <1>1, <1>4, <1>5, <1>6, <1>8, <2>1, <2>2
<1>9. ASSUME NEW a
      PROVE  LET q == Append(t, OneCall(a))
             IN /\ Sound(q, {a}) /\ Begins(u, openai_messages_to_cursor(q))
                /\ Merged(openai_messages_to_cursor(q)) = Append(P, Speaks(x, <<CursorCall(CallAsked(a))>>))
  <2>1. PICK q : q = Append(t, OneCall(a))
    OBVIOUS
  <2>2. PICK b : b = Speaks(<<>>, <<CursorCall(CallAsked(a))>>)
    OBVIOUS
  <2>3. /\ Sound(q, {} \cup {a}) /\ Begins(w, openai_messages_to_cursor(q))
        /\ openai_messages_to_cursor(q) = Append(w, b)
    <3>1. Sound(t, {})
      BY <1>5
    <3> QED BY <1>4, <2>1, <2>2, <3>1, SoundCall
  <2>4. Begins(u, openai_messages_to_cursor(q)) /\ List(w)
    <3>1. List(w)
      BY <1>5 DEF Begins
    <3>2. Begins(u, w) /\ Begins(w, openai_messages_to_cursor(q))
      BY <1>5, <2>3
    <3> QED BY <3>1, <3>2, BeginsMore
  <2>5. Merged(openai_messages_to_cursor(q)) = Append(P, Speaks(x, <<CursorCall(CallAsked(a))>>))
    <3>1. PICK e : e = <<>>
      OBVIOUS
    <3>2. List(e) /\ Append(e, CursorCall(CallAsked(a))) = <<CursorCall(CallAsked(a))>>
      BY <3>1, ListShort
    <3>3. CASE x = <<>>
      <4>1. Merged(w) = P /\ List(w)
        BY <1>5, <2>4, <3>3
      <4>2. Merged(Append(w, b)) = Append(P, b)
        BY <4>1, MergedNext
      <4> QED BY <2>2, <2>3, <3>3, <4>2
    <3>4. CASE x # <<>>
      <4>1. Merged(w) = Append(P, Speaks(x, e)) /\ List(w) /\ List(x) /\ List(e)
        BY <1>2, <1>5, <2>4, <3>1, <3>2, <3>4
      <4>2. PICK f : f = Speaks(x, e)
        OBVIOUS
      <4>3. Joined(f, b) = Speaks(x, Append(e, CursorCall(CallAsked(a)))) /\ Spoke(f) /\ Spoke(b)
        BY <2>2, <4>1, <4>2, CallAfter
      <4>4. Merged(w) = Append(P, f) /\ List(w) /\ Spoke(f) /\ Spoke(b)
        BY <4>1, <4>2, <4>3
      <4>5. Merged(Append(w, b)) = Append(P, Joined(f, b))
        BY <4>4, MergedMore
      <4> QED BY <2>3, <3>2, <4>3, <4>5
    <3> QED BY <3>3, <3>4
  <2>6. Sound(q, {a})
    <3>1. {} \cup {a} = {a}
      OBVIOUS
    <3> QED BY <2>3, <3>1
  <2> QED BY <2>1, <2>4, <2>5, <2>6
<1>10. ASSUME NEW a, ids = <<a>>
       PROVE  /\ Sound(r, Set(ids)) /\ Begins(u, openai_messages_to_cursor(r))
              /\ Merged(openai_messages_to_cursor(r)) = Append(P, Speaks(x, Calls(ids)))
  <2>1. PICK q : q = Append(t, OneCall(a))
    OBVIOUS
  <2>2. r = q
    <3>1. OneByOne(ids) = <<OneCall(a)>>
      BY <1>10, OfShort DEF OneCall
    <3> QED BY <1>7, <2>1, <3>1, ConcatOne
  <2>3. Calls(ids) = <<CursorCall(CallAsked(a))>>
    BY <1>10, OfShort
  <2>4. Set(ids) = {a}
    <3>1. Len(ids) = 1 /\ ids[1] = a /\ 1..1 = {1}
      BY <1>10, ListShort
    <3> QED BY <3>1 DEF Set
  <2> QED BY <1>9, <2>1, <2>2, <2>3, <2>4
<1>11. ASSUME NEW a, NEW b, ids = <<a, b>>
       PROVE  /\ Sound(r, Set(ids)) /\ Begins(u, openai_messages_to_cursor(r))
              /\ Merged(openai_messages_to_cursor(r)) = Append(P, Speaks(x, Calls(ids)))
  <2>1. PICK q : q = Append(t, OneCall(a))
    OBVIOUS
  <2>2. PICK m : m = OneCall(b)
    OBVIOUS
  <2>3. r = Append(q, m)
    <3>1. PICK l : l = OneCall(a)
      OBVIOUS
    <3>2. OneByOne(ids) = <<l, m>>
      BY <1>11, <2>2, <3>1, OfShort DEF OneCall
    <3>3. List(<<l>>) /\ <<l, m>> = Append(<<l>>, m)
      BY ListShort
    <3>4. t \o Append(<<l>>, m) = Append(t \o <<l>>, m) /\ t \o <<l>> = Append(t, l)
      BY <1>7, <3>3, ConcatOne
    <3> QED BY <1>7, <2>1, <3>1, <3>2, <3>3, <3>4
  <2>4. /\ Sound(q, {a}) /\ Begins(u, openai_messages_to_cursor(q))
        /\ Merged(openai_messages_to_cursor(q)) = Append(P, Speaks(x, <<CursorCall(CallAsked(a))>>))
    BY <1>9, <2>1
  <2>5. /\ Sound(r, {a} \cup {b})
        /\ Begins(openai_messages_to_cursor(q), openai_messages_to_cursor(r))
        /\ openai_messages_to_cursor(r) =
             Append(openai_messages_to_cursor(q), Speaks(<<>>, <<CursorCall(CallAsked(b))>>))
    <3>1. Sound(q, {a})
      BY <2>4
    <3> QED BY <2>2, <2>3, <3>1, SoundCall
  <2>6. PICK cs : cs = <<CursorCall(CallAsked(a))>>
    OBVIOUS
  <2>7. List(cs) /\ Append(cs, CursorCall(CallAsked(b))) = Calls(ids)
    <3>1. Calls(ids) = <<CursorCall(CallAsked(a)), CursorCall(CallAsked(b))>>
      BY <1>11, OfShort
    <3> QED BY <2>6, <3>1, ListShort
  <2>8. Merged(openai_messages_to_cursor(r)) = Append(P, Speaks(x, Calls(ids)))
    <3>1. PICK v : v = openai_messages_to_cursor(q)
      OBVIOUS
    <3>2. Merged(v) = Append(P, Speaks(x, cs)) /\ List(v) /\ List(x) /\ List(cs)
      BY <1>2, <2>4, <2>6, <2>7, <3>1 DEF Begins
    <3>3. PICK e : e = Speaks(<<>>, <<CursorCall(CallAsked(b))>>)
      OBVIOUS
    <3>4. PICK f : f = Speaks(x, cs)
      OBVIOUS
    <3>5. Joined(f, e) = Speaks(x, Append(cs, CursorCall(CallAsked(b)))) /\ Spoke(f) /\ Spoke(e)
      BY <3>2, <3>3, <3>4, CallAfter
    <3>6. Merged(v) = Append(P, f) /\ List(v) /\ Spoke(f) /\ Spoke(e)
      BY <3>2, <3>4, <3>5
    <3>7. Merged(Append(v, e)) = Append(P, Joined(f, e))
      BY <3>6, MergedMore
    <3> QED BY <2>5, <2>7, <3>1, <3>3, <3>5, <3>7
  <2>9. Begins(u, openai_messages_to_cursor(r))
    <3>1. /\ Begins(u, openai_messages_to_cursor(q))
          /\ Begins(openai_messages_to_cursor(q), openai_messages_to_cursor(r))
      BY <2>4, <2>5
    <3>2. List(openai_messages_to_cursor(q))
      BY <3>1 DEF Begins
    <3> QED BY <3>1, <3>2, BeginsMore
  <2>10. Set(ids) = {a} \cup {b}
    <3>1. Len(ids) = 2 /\ ids[1] = a /\ ids[2] = b /\ 1..2 = {1, 2}
      BY <1>11, ListShort
    <3> QED BY <3>1 DEF Set
  <2> QED BY <2>5, <2>8, <2>9, <2>10
<1> QED BY <1>1, <1>6, <1>8, <1>10, <1>11 DEF UpToTwo

\* What is sent upstream for a conversation in each dialect.
ChatUp(c, ts) == openai_messages_to_cursor(ChatOf(c, ts))
AnthropicUp(c, ts) == openai_messages_to_cursor(AnthropicOf(c, ts))
ResponsesUp(c, ts) == openai_messages_to_cursor(ResponsesOf(c, ts))

\* The dialects agree on the turns, whose last answer made the open calls.
Agreed(c, ts, open) ==
    /\ Listed(ts)
    /\ Sound(ChatOf(c, ts), open) /\ Sound(AnthropicOf(c, ts), open) /\ Sound(ResponsesOf(c, ts), open)
    /\ Merged(ResponsesUp(c, ts)) = ChatUp(c, ts)
    /\ AnthropicUp(c, ts) = WithoutImages(ChatUp(c, ts))
Continued(c, ts, us) ==
    /\ Begins(ChatUp(c, ts), ChatUp(c, us)) /\ Begins(AnthropicUp(c, ts), AnthropicUp(c, us))
    /\ Begins(ResponsesUp(c, ts), ResponsesUp(c, us))
    /\ Begins(ChatOf(c, ts), ChatOf(c, us)) /\ Begins(AnthropicOf(c, ts), AnthropicOf(c, us))
    /\ Begins(ResponsesOf(c, ts), ResponsesOf(c, us))

\* The conversation begins with the system text.
LEMMA AgreedNone == ASSUME NEW c PROVE Agreed(c, <<>>, {}) /\ Hushed(ChatUp(c, <<>>))
<1>1. PICK e : e = <<>>
  OBVIOUS
<1>2. List(e) /\ Len(e) = 0 /\ \A u : List(u) /\ Len(u) = 0 => u = e
  BY <1>1, ListShort, ListLength
<1>3. Each(ChatTurn, e) = e /\ Each(ResponsesTurn, e) = e
  <2>1. ASSUME NEW f, f = Each(ChatTurn, e) PROVE f = e
    <3>1. f = [i \in 1..0 |-> f[i]]
      BY <1>2, <2>1 DEF Each
    <3> QED BY <1>2, <3>1, ListOf
  <2>2. ASSUME NEW f, f = Each(ResponsesTurn, e) PROVE f = e
    <3>1. f = [i \in 1..0 |-> f[i]]
      BY <1>2, <2>2 DEF Each
    <3> QED BY <1>2, <3>1, ListOf
  <2> QED BY <2>1, <2>2
<1>4. AnthropicEach(e) = e
  <2>1. ASSUME NEW f, f = Each(AnthropicTurn, e) PROVE Len(f) = 0
    <3>1. f = [i \in 1..0 |-> f[i]]
      BY <1>2, <2>1 DEF Each
    <3> QED BY <3>1, ListOf
  <2>2. PICK f : f = AnthropicEach(e)
    OBVIOUS
  <2>3. f = [i \in 1..0 |-> f[i]]
    BY <2>1, <2>2 DEF AnthropicEach
  <2> QED BY <1>2, <2>2, <2>3, ListOf
<1>5. ChatFlat(e) = e /\ AnthropicFlat(e) = e /\ ResponsesFlat(e) = e
  BY <1>1, <1>3, <1>4, FlattenNone DEF ChatFlat, AnthropicFlat, ResponsesFlat
<1>6. Listed(e)
  BY <1>2, <1>5 DEF Listed
<1>7. PICK s : s = System(c.system)
  OBVIOUS
<1>8. List(s)
  BY <1>7, ListShort DEF System, TextMessage
<1>9. Items(e) = e
  BY <1>2, ItemsConcat
<1>10. s \o e = s
  BY <1>1, <1>8, ConcatOne
<1>11. ChatOf(c, e) = s /\ AnthropicOf(c, e) = s /\ ResponsesOf(c, e) = s
  BY <1>5, <1>7, <1>9, <1>10, MessagesAre
<1>12. PICK u : u = openai_messages_to_cursor(s)
  OBVIOUS
<1>13. Sound(s, {}) /\ Merged(u) = u /\ WithoutImages(u) = u /\ Hushed(u)
  <2>1. Merged(<<>>) = <<>> /\ WithoutImages(<<>>) = <<>>
    <3>1. Bare(e) = e
      <4>1. PICK f : f = Bare(e)
        OBVIOUS
      <4>2. f = [i \in 1..0 |-> f[i]]
        BY <1>2, <4>1 DEF Bare
      <4> QED BY <1>2, <4>1, <4>2, ListOf
    <3>2. WithoutImages(e) = Spoken(Bare(e))
      BY DEF WithoutImages, Spoken, Bare
    <3>3. Spoken(<<>>) = <<>> /\ Merged(<<>>) = <<>>
      BY ListShort, SpokenAppend, MergedAppend
    <3> QED BY <1>1, <3>1, <3>2, <3>3
  <2>2. CASE c.system = <<>>
    <3>1. s = <<>>
      BY <1>7, <2>2 DEF System, TextMessage
    <3> QED BY <1>12, <2>1, <3>1, SoundNone DEF Hushed
  <2>3. CASE c.system # <<>>
    <3>1. PICK x : x = c.system
      OBVIOUS
    <3>2. PICK m : m = ChatMessage("system", PlainContent(x))
      OBVIOUS
    <3>3. s = Append(<<>>, m)
      BY <1>7, <2>3, <3>1, <3>2, ListShort DEF System, TextMessage
    <3>4. PICK b : b = CursorMessage("SYSTEM", x, <<>>, <<>>, <<>>)
      OBVIOUS
    <3>5. Sound(Append(<<>>, m), {}) /\ openai_messages_to_cursor(Append(<<>>, m)) = Append(<<>>, b)
      BY <3>2, <3>4, SoundNone, SoundText
    <3>6. b.role = "SYSTEM"
      BY <3>4 DEF CursorMessage
    <3>7. Merged(Append(<<>>, b)) = Append(<<>>, b)
      BY <2>1, <3>6, ListShort, MergedNext
    <3>8. WithoutImages(Append(<<>>, b)) = Append(<<>>, b)
      <4>1. WithoutImages(Append(e, CursorMessage("SYSTEM", x, <<>>, <<>>, <<>>))) =
              Append(WithoutImages(e), CursorMessage("SYSTEM", x, <<>>, <<>>, <<>>))
        <5>1. List(e)
          BY <1>2
        <5>2. \A images, calls, parts :
                WithoutImages(Append(e, CursorMessage("SYSTEM", x, images, calls, parts))) =
                  Append(WithoutImages(e), CursorMessage("SYSTEM", x, <<>>, calls, parts))
          BY <5>1, WithoutAppend
        <5> QED BY <5>2
      <4> QED BY <1>1, <2>1, <3>4, <4>1
    <3>9. Hushed(Append(<<>>, b))
      <4>1. Append(<<>>, b) = <<b>> /\ Len(<<b>>) = 1 /\ <<b>>[1] = b
        BY ListShort
      <4> QED BY <3>6, <4>1 DEF Hushed
    <3> QED BY <1>12, <3>3, <3>5, <3>7, <3>8, <3>9
  <2> QED BY <2>2, <2>3
<1>14. ChatUp(c, e) = u /\ AnthropicUp(c, e) = u /\ ResponsesUp(c, e) = u
  BY <1>11, <1>12 DEF ChatUp, AnthropicUp, ResponsesUp
<1>15. Agreed(c, e, {})
  BY <1>6, <1>11, <1>13, <1>14 DEF Agreed
<1> QED BY <1>1, <1>13, <1>14, <1>15

\* A message that is not of the assistant ends the answer.
LEMMA QuietAppend ==
    ASSUME NEW u, List(u), NEW m, m.role # "ASSISTANT" PROVE Hushed(Append(u, m))
<1>1. Len(Append(u, m)) = Len(u) + 1 /\ Append(u, m)[Len(u) + 1] = m
  BY ListAppend
<1> QED BY <1>1 DEF Hushed

\* The messages are lists.
LEMMA AgreedLists ==
    ASSUME NEW c, NEW ts, NEW open, Agreed(c, ts, open)
    PROVE  /\ List(ChatOf(c, ts)) /\ List(AnthropicOf(c, ts)) /\ List(ResponsesOf(c, ts))
           /\ List(ChatUp(c, ts)) /\ List(AnthropicUp(c, ts)) /\ List(ResponsesUp(c, ts))
           /\ Listed(ts)
BY SoundSent DEF Agreed, ChatUp, AnthropicUp, ResponsesUp

\* What a turn of the user adds to the messages of each dialect.
UserSaid(c, ts, us, x, image) ==
    /\ Continued(c, ts, us)
    /\ ChatOf(c, us) = Append(ChatOf(c, ts), Says(x, Pics(image)))
    /\ ResponsesOf(c, us) = Append(ResponsesOf(c, ts), Says(x, Pics(image)))
    /\ x # <<>> => AnthropicOf(c, us) = Append(AnthropicOf(c, ts), Says(x, <<>>))

\* A turn of the user.
LEMMA AgreedUser ==
    ASSUME NEW c, NEW ts, Agreed(c, ts, {}), NEW x, OneText(x), NEW image,
           NEW us, us = Append(ts, User(x, image))
    PROVE  Agreed(c, us, {}) /\ Hushed(ChatUp(c, us)) /\ UserSaid(c, ts, us, x, image)
<1>1. PICK t : t = User(x, image)
  OBVIOUS
<1>2. PICK m : m = Says(x, Pics(image))
  OBVIOUS
<1>3. /\ ChatTurn(t) = <<m>> /\ Items(ResponsesTurn(t)) = <<m>> /\ List(ResponsesTurn(t))
      /\ AnthropicMessage(AnthropicTurn(t)) = TextMessage("user", x)
  <2>1. UpToTwo(<<>>)
    BY DEF UpToTwo
  <2>2. ChatTurn(t) = <<m>>
    BY <1>1, <1>2, ChatTurns
  <2>3. Items(ResponsesTurn(t)) = <<m>> /\ List(ResponsesTurn(t))
    BY <1>1, <1>2, <2>1, ResponsesTurns
  <2> QED BY <1>1, <2>2, <2>3, AnthropicUser
<1>4. List(<<m>>) /\ List(TextMessage("user", x))
  BY ListShort DEF TextMessage
<1>5. /\ List(ChatOf(c, ts)) /\ List(AnthropicOf(c, ts)) /\ List(ResponsesOf(c, ts))
      /\ List(ChatUp(c, ts)) /\ List(AnthropicUp(c, ts)) /\ List(ResponsesUp(c, ts))
      /\ Listed(ts)
  BY AgreedLists
<1>6. /\ Listed(us) /\ ChatOf(c, us) = ChatOf(c, ts) \o <<m>>
      /\ AnthropicOf(c, us) = AnthropicOf(c, ts) \o TextMessage("user", x)
      /\ ResponsesOf(c, us) = ResponsesOf(c, ts) \o <<m>>
  <2>1. Listed(ts) /\ List(ChatTurn(t)) /\ List(AnthropicMessage(AnthropicTurn(t))) /\ List(ResponsesTurn(t))
    BY <1>3, <1>4, <1>5
  <2>2. us = Append(ts, t)
    BY <1>1
  <2>3. /\ Listed(Append(ts, t)) /\ ChatOf(c, Append(ts, t)) = ChatOf(c, ts) \o ChatTurn(t)
        /\ AnthropicOf(c, Append(ts, t)) = AnthropicOf(c, ts) \o AnthropicMessage(AnthropicTurn(t))
        /\ ResponsesOf(c, Append(ts, t)) = ResponsesOf(c, ts) \o Items(ResponsesTurn(t))
    <3>1. Listed(ts) /\ TurnLists(t)
      BY <2>1 DEF TurnLists
    <3>2. Grown(c, ts, t)
      BY <3>1, Grows
    <3> QED BY <3>2 DEF Grown
  <2> QED BY <1>3, <2>2, <2>3
<1>7. ChatOf(c, us) = Append(ChatOf(c, ts), m) /\ ResponsesOf(c, us) = Append(ResponsesOf(c, ts), m)
  BY <1>5, <1>6, ConcatOne
<1>8. PICK b : b = UserSays(x, Pics(image))
  OBVIOUS
<1>9. /\ Sound(ChatOf(c, us), {}) /\ ChatUp(c, us) = Append(ChatUp(c, ts), b)
      /\ Sound(ResponsesOf(c, us), {}) /\ ResponsesUp(c, us) = Append(ResponsesUp(c, ts), b)
  <2>1. Sound(ChatOf(c, ts), {}) /\ Sound(ResponsesOf(c, ts), {})
    BY DEF Agreed
  <2>2. ASSUME NEW s, Sound(s, {})
        PROVE  /\ Sound(Append(s, m), {})
               /\ openai_messages_to_cursor(Append(s, m)) = Append(openai_messages_to_cursor(s), b)
    BY <1>2, <1>8, <2>2, SoundText
  <2> QED BY <1>7, <2>1, <2>2 DEF ChatUp, ResponsesUp
<1>10. /\ Sound(AnthropicOf(c, us), {})
       /\ AnthropicUp(c, us) = IF x = <<>> THEN AnthropicUp(c, ts)
                               ELSE Append(AnthropicUp(c, ts), UserSays(x, <<>>))
  BY <1>6, SoundUserText DEF Agreed, AnthropicUp
<1>11. b.role = "USER"
  BY <1>8 DEF UserSays, CursorMessage
<1>12. Merged(ResponsesUp(c, us)) = ChatUp(c, us)
  <2>1. Merged(Append(ResponsesUp(c, ts), b)) = Append(Merged(ResponsesUp(c, ts)), b)
    BY <1>5, <1>11, MergedNext
  <2> QED BY <1>9, <2>1 DEF Agreed
<1>13. AnthropicUp(c, us) = WithoutImages(ChatUp(c, us))
  <2>1. WithoutImages(Append(ChatUp(c, ts), b)) =
          IF x = <<>> THEN WithoutImages(ChatUp(c, ts))
          ELSE Append(WithoutImages(ChatUp(c, ts)), UserSays(x, <<>>))
    BY <1>5, <1>8, WithoutAppend DEF UserSays
  <2> QED BY <1>9, <1>10, <2>1 DEF Agreed
<1>14. Agreed(c, us, {})
  BY <1>6, <1>9, <1>10, <1>12, <1>13 DEF Agreed
<1>15. Hushed(ChatUp(c, us))
  BY <1>5, <1>9, <1>11, QuietAppend
<1>16. Continued(c, ts, us)
  <2>1. Begins(ChatUp(c, ts), ChatUp(c, us)) /\ Begins(ResponsesUp(c, ts), ResponsesUp(c, us))
    BY <1>5, <1>9, BeginsMore
  <2>2. Begins(AnthropicUp(c, ts), AnthropicUp(c, us))
    BY <1>5, <1>10, BeginsMore
  <2>3. Begins(ChatOf(c, ts), ChatOf(c, us)) /\ Begins(ResponsesOf(c, ts), ResponsesOf(c, us))
    BY <1>5, <1>7, BeginsMore
  <2>4. Begins(AnthropicOf(c, ts), AnthropicOf(c, us))
    <3>1. PICK a : a = AnthropicOf(c, ts)
      OBVIOUS
    <3>2. PICK v : v = TextMessage("user", x)
      OBVIOUS
    <3>3. List(a) /\ List(v)
      BY <1>4, <1>5, <3>1, <3>2
    <3>4. Begins(a, a \o v)
      BY <3>3, BeginsMore
    <3> QED BY <1>6, <3>1, <3>2, <3>4
  <2> QED BY <2>1, <2>2, <2>3, <2>4 DEF Continued
<1>17. x # <<>> => AnthropicOf(c, us) = Append(AnthropicOf(c, ts), Says(x, <<>>))
  <2>1. x # <<>> => TextMessage("user", x) = <<Says(x, <<>>)>>
    BY DEF TextMessage, Says, PlainContent
  <2>2. List(AnthropicOf(c, ts))
    BY <1>5
  <2>3. \A a : AnthropicOf(c, ts) \o <<a>> = Append(AnthropicOf(c, ts), a)
    BY <2>2, ConcatOne
  <2> QED BY <1>6, <2>1, <2>3
<1>18. UserSaid(c, ts, us, x, image)
  BY <1>2, <1>7, <1>16, <1>17 DEF UserSaid
<1> QED BY <1>14, <1>15, <1>18

\* An answer.
LEMMA AgreedAnswer ==
    ASSUME NEW c, NEW ts, Agreed(c, ts, {}), Hushed(ChatUp(c, ts)), NEW x, OneText(x),
           NEW ids, UpToTwo(ids), x # <<>> \/ ids # <<>>, NEW us, us = Append(ts, Answer(x, ids))
    PROVE  Agreed(c, us, Set(ids)) /\ Continued(c, ts, us)
<1>1. PICK t : t = Answer(x, ids)
  OBVIOUS
<1>2. PICK m : m = ChatCalls(x, AskedAll(ids))
  OBVIOUS
<1>3. PICK z : z = TextMessage("assistant", x) \o OneByOne(ids)
  OBVIOUS
<1>4. /\ ChatTurn(t) = <<m>> /\ AnthropicMessage(AnthropicTurn(t)) = <<m>>
      /\ Items(ResponsesTurn(t)) = z /\ List(ResponsesTurn(t))
  <2>1. ChatTurn(t) = <<m>>
    BY <1>1, <1>2, ChatTurns
  <2>2. Items(ResponsesTurn(t)) = z /\ List(ResponsesTurn(t))
    BY <1>1, <1>3, ResponsesTurns
  <2>3. AnthropicMessage(AnthropicTurn(t)) = <<m>>
    BY <1>1, <1>2, AnthropicAnswer
  <2> QED BY <2>1, <2>2, <2>3
<1>5. /\ List(ChatOf(c, ts)) /\ List(AnthropicOf(c, ts)) /\ List(ResponsesOf(c, ts))
      /\ List(ChatUp(c, ts)) /\ List(AnthropicUp(c, ts)) /\ List(ResponsesUp(c, ts))
      /\ Listed(ts)
  BY AgreedLists
<1>6. /\ Listed(us) /\ ChatOf(c, us) = ChatOf(c, ts) \o <<m>>
      /\ AnthropicOf(c, us) = AnthropicOf(c, ts) \o <<m>>
      /\ ResponsesOf(c, us) = ResponsesOf(c, ts) \o z
  <2>1. Listed(ts) /\ List(ChatTurn(t)) /\ List(AnthropicMessage(AnthropicTurn(t))) /\ List(ResponsesTurn(t))
    BY <1>4, <1>5, ListShort
  <2>2. us = Append(ts, t)
    BY <1>1
  <2>3. /\ Listed(Append(ts, t)) /\ ChatOf(c, Append(ts, t)) = ChatOf(c, ts) \o ChatTurn(t)
        /\ AnthropicOf(c, Append(ts, t)) = AnthropicOf(c, ts) \o AnthropicMessage(AnthropicTurn(t))
        /\ ResponsesOf(c, Append(ts, t)) = ResponsesOf(c, ts) \o Items(ResponsesTurn(t))
    <3>1. Listed(ts) /\ TurnLists(t)
      BY <2>1 DEF TurnLists
    <3>2. Grown(c, ts, t)
      BY <3>1, Grows
    <3> QED BY <3>2 DEF Grown
  <2> QED BY <1>4, <2>2, <2>3
<1>7. ChatOf(c, us) = Append(ChatOf(c, ts), m) /\ AnthropicOf(c, us) = Append(AnthropicOf(c, ts), m)
  BY <1>5, <1>6, ConcatOne
<1>8. PICK b : b = Speaks(x, Calls(ids))
  OBVIOUS
<1>9. /\ Sound(ChatOf(c, us), Set(ids)) /\ ChatUp(c, us) = Append(ChatUp(c, ts), b)
       /\ Sound(AnthropicOf(c, us), Set(ids)) /\ AnthropicUp(c, us) = Append(AnthropicUp(c, ts), b)
  <2>1. Sound(ChatOf(c, ts), {}) /\ Sound(AnthropicOf(c, ts), {})
    BY DEF Agreed
  <2>2. ASSUME NEW s, Sound(s, {})
        PROVE  /\ Sound(Append(s, m), Set(ids))
               /\ openai_messages_to_cursor(Append(s, m)) = Append(openai_messages_to_cursor(s), b)
    <3>1. PICK open : open = {}
      OBVIOUS
    <3>2. Sound(s, open) /\ UpToTwo(ids)
      BY <2>2, <3>1
    <3>3. /\ Sound(Append(s, ChatCalls(x, AskedAll(ids))), open \cup Set(ids))
          /\ openai_messages_to_cursor(Append(s, ChatCalls(x, AskedAll(ids)))) =
               Append(openai_messages_to_cursor(s), Speaks(x, Calls(ids)))
      BY <3>2, SoundCalls
    <3>4. open \cup Set(ids) = Set(ids)
      BY <3>1
    <3> QED BY <1>2, <1>8, <3>3, <3>4
  <2> QED BY <1>7, <2>1, <2>2 DEF ChatUp, AnthropicUp
<1>10. /\ Sound(ResponsesOf(c, us), Set(ids)) /\ Begins(ResponsesUp(c, ts), ResponsesUp(c, us))
       /\ Merged(ResponsesUp(c, us)) = Append(ChatUp(c, ts), b)
  <2>1. PICK s : s = ResponsesOf(c, ts)
    OBVIOUS
  <2>2. PICK P : P = ChatUp(c, ts)
    OBVIOUS
  <2>3. Sound(s, {}) /\ List(P) /\ Hushed(P) /\ Merged(openai_messages_to_cursor(s)) = P
    BY <1>5, <2>1, <2>2 DEF Agreed, ResponsesUp
  <2>4. /\ Sound(s \o z, Set(ids))
        /\ Begins(openai_messages_to_cursor(s), openai_messages_to_cursor(s \o z))
        /\ Merged(openai_messages_to_cursor(s \o z)) = Append(P, b)
    BY <1>3, <1>8, <2>3, SoundSpread
  <2> QED BY <1>6, <2>1, <2>2, <2>4 DEF ResponsesUp
<1>11. AnthropicUp(c, us) = WithoutImages(ChatUp(c, us))
  <2>1. WithoutImages(Append(ChatUp(c, ts), b)) = Append(WithoutImages(ChatUp(c, ts)), b)
    BY <1>5, <1>8, WithoutAppend DEF Speaks
  <2> QED BY <1>9, <2>1 DEF Agreed
<1>12. Agreed(c, us, Set(ids))
  BY <1>6, <1>9, <1>10, <1>11 DEF Agreed
<1>13. Continued(c, ts, us)
  <2>1. Begins(ChatUp(c, ts), ChatUp(c, us)) /\ Begins(AnthropicUp(c, ts), AnthropicUp(c, us))
    BY <1>5, <1>9, BeginsMore
  <2>2. Begins(ChatOf(c, ts), ChatOf(c, us)) /\ Begins(AnthropicOf(c, ts), AnthropicOf(c, us))
    BY <1>5, <1>7, BeginsMore
  <2>3. Begins(ResponsesOf(c, ts), ResponsesOf(c, us))
    <3>1. List(z)
      <4>1. List(TextMessage("assistant", x)) /\ List(OneByOne(ids))
        BY ItemsAre, ShortIsList, ListShort DEF TextMessage
      <4> QED BY <1>3, <4>1, ListConcat
    <3> QED BY <1>5, <1>6, <3>1, BeginsMore
  <2> QED BY <1>10, <2>1, <2>2, <2>3 DEF Continued
<1> QED BY <1>12, <1>13

\* The results of the open calls.
LEMMA AgreedResults ==
    ASSUME NEW c, NEW ts, NEW ids, UpToTwo(ids), ids # <<>>, Agreed(c, ts, Set(ids)),
           NEW x, OneText(x), NEW first, NEW us, us = Append(ts, Results(ids, x, first))
    PROVE  Agreed(c, us, {}) /\ Hushed(ChatUp(c, us)) /\ Continued(c, ts, us)
<1>1. PICK t : t = Results(ids, x, first)
  OBVIOUS
<1>2. PICK z : z = Told(ids) \o TextMessage("user", x)
  OBVIOUS
<1>3. /\ ChatTurn(t) = z /\ AnthropicMessage(AnthropicTurn(t)) = z
      /\ Items(ResponsesTurn(t)) = z /\ List(ResponsesTurn(t)) /\ List(z)
  <2>1. ChatTurn(t) = z
    BY <1>1, <1>2, ChatTurns
  <2>2. Items(ResponsesTurn(t)) = z /\ List(ResponsesTurn(t))
    BY <1>1, <1>2, ResponsesTurns
  <2>3. AnthropicMessage(AnthropicTurn(t)) = z
    BY <1>1, <1>2, AnthropicResults
  <2>4. List(Told(ids)) /\ List(TextMessage("user", x))
    BY MadeOf, ShortIsList, ListShort DEF TextMessage
  <2>5. List(z)
    BY <1>2, <2>4, ListConcat
  <2> QED BY <2>1, <2>2, <2>3, <2>5
<1>4. /\ List(ChatOf(c, ts)) /\ List(AnthropicOf(c, ts)) /\ List(ResponsesOf(c, ts))
      /\ List(ChatUp(c, ts)) /\ List(AnthropicUp(c, ts)) /\ List(ResponsesUp(c, ts))
      /\ Listed(ts)
  BY AgreedLists
<1>5. /\ Listed(us) /\ ChatOf(c, us) = ChatOf(c, ts) \o z
      /\ AnthropicOf(c, us) = AnthropicOf(c, ts) \o z
      /\ ResponsesOf(c, us) = ResponsesOf(c, ts) \o z
  <2>1. Listed(ts) /\ List(ChatTurn(t)) /\ List(AnthropicMessage(AnthropicTurn(t))) /\ List(ResponsesTurn(t))
    BY <1>3, <1>4
  <2>2. us = Append(ts, t)
    BY <1>1
  <2>3. /\ Listed(Append(ts, t)) /\ ChatOf(c, Append(ts, t)) = ChatOf(c, ts) \o ChatTurn(t)
        /\ AnthropicOf(c, Append(ts, t)) = AnthropicOf(c, ts) \o AnthropicMessage(AnthropicTurn(t))
        /\ ResponsesOf(c, Append(ts, t)) = ResponsesOf(c, ts) \o Items(ResponsesTurn(t))
    <3>1. Listed(ts) /\ TurnLists(t)
      BY <2>1 DEF TurnLists
    <3>2. Grown(c, ts, t)
      BY <3>1, Grows
    <3> QED BY <3>2 DEF Grown
  <2> QED BY <1>3, <2>2, <2>3
<1>6. ASSUME NEW s, Sound(s, Set(ids))
      PROVE  /\ Sound(s \o z, {})
             /\ openai_messages_to_cursor(s \o z) = Returns(openai_messages_to_cursor(s), ids, x)
  BY <1>2, <1>6, SoundReturn
<1>7. /\ Sound(ChatOf(c, us), {}) /\ ChatUp(c, us) = Returns(ChatUp(c, ts), ids, x)
      /\ Sound(AnthropicOf(c, us), {}) /\ AnthropicUp(c, us) = Returns(AnthropicUp(c, ts), ids, x)
      /\ Sound(ResponsesOf(c, us), {}) /\ ResponsesUp(c, us) = Returns(ResponsesUp(c, ts), ids, x)
  BY <1>5, <1>6 DEF Agreed, ChatUp, AnthropicUp, ResponsesUp
<1>8. PICK r : r = Reports(ids)
  OBVIOUS
<1>9. PICK b : b = UserSays(x, <<>>)
  OBVIOUS
<1>10. r.role = "TOOL" /\ b.role = "USER"
  BY <1>8, <1>9 DEF Reports, UserSays, CursorMessage
<1>11. \A u : Returns(u, ids, x) = IF x = <<>> THEN Append(u, r) ELSE Append(Append(u, r), b)
  BY <1>8, <1>9 DEF Returns
<1>12. Merged(ResponsesUp(c, us)) = ChatUp(c, us)
  <2>1. PICK u : u = ResponsesUp(c, ts)
    OBVIOUS
  <2>2. List(u) /\ Merged(u) = ChatUp(c, ts) /\ List(Append(u, r))
    BY <1>4, <2>1, ListAppend DEF Agreed
  <2>3. Merged(Append(u, r)) = Append(Merged(u), r)
    BY <1>10, <2>2, MergedNext
  <2>4. Merged(Append(Append(u, r), b)) = Append(Merged(Append(u, r)), b)
    BY <1>10, <2>2, MergedNext
  <2> QED BY <1>7, <1>11, <2>1, <2>2, <2>3, <2>4
<1>13. AnthropicUp(c, us) = WithoutImages(ChatUp(c, us))
  <2>1. PICK u : u = ChatUp(c, ts)
    OBVIOUS
  <2>2. List(u) /\ AnthropicUp(c, ts) = WithoutImages(u) /\ List(Append(u, r))
    BY <1>4, <2>1, ListAppend DEF Agreed
  <2>3. WithoutImages(Append(u, r)) = Append(WithoutImages(u), r)
    BY <1>8, <2>2, WithoutAppend DEF Reports
  <2>4. x # <<>> => WithoutImages(Append(Append(u, r), b)) = Append(WithoutImages(Append(u, r)), b)
    BY <1>9, <2>2, WithoutAppend DEF UserSays
  <2> QED BY <1>7, <1>11, <2>1, <2>2, <2>3, <2>4
<1>14. Agreed(c, us, {})
  BY <1>5, <1>7, <1>12, <1>13 DEF Agreed
<1>15. ASSUME NEW u, List(u)
       PROVE  Begins(u, Returns(u, ids, x)) /\ Hushed(Returns(u, ids, x))
  <2>1. List(Append(u, r)) /\ Begins(u, Append(u, r)) /\ Hushed(Append(u, r))
    BY <1>10, <1>15, ListAppend, BeginsMore, QuietAppend
  <2>2. Begins(Append(u, r), Append(Append(u, r), b)) /\ Hushed(Append(Append(u, r), b))
    BY <1>10, <2>1, BeginsMore, QuietAppend
  <2>3. Begins(u, Append(Append(u, r), b))
    BY <2>1, <2>2, BeginsMore
  <2> QED BY <1>11, <2>1, <2>2, <2>3
<1>16. Hushed(ChatUp(c, us))
  BY <1>4, <1>7, <1>15
<1>17. Continued(c, ts, us)
  <2>1. /\ Begins(ChatUp(c, ts), ChatUp(c, us)) /\ Begins(AnthropicUp(c, ts), AnthropicUp(c, us))
        /\ Begins(ResponsesUp(c, ts), ResponsesUp(c, us))
    BY <1>4, <1>7, <1>15
  <2>2. /\ Begins(ChatOf(c, ts), ChatOf(c, us)) /\ Begins(AnthropicOf(c, ts), AnthropicOf(c, us))
        /\ Begins(ResponsesOf(c, ts), ResponsesOf(c, us))
    BY <1>3, <1>4, <1>5, BeginsMore
  <2> QED BY <2>1, <2>2 DEF Continued
<1> QED BY <1>14, <1>16, <1>17

------------------------------------------------------------------------------
(* The identity of a conversation. *)

\* The beginnings of two lists that begin alike.
LEMMA SameHead ==
    ASSUME NEW s, NEW u, Begins(s, u), NEW n \in Nat, n <= Len(s)
    PROVE  SubSeq(s, 1, n) = SubSeq(u, 1, n) /\ List(SubSeq(s, 1, n))
<1>1. Len(s) \in Nat /\ Len(u) \in Nat /\ Len(s) <= Len(u) /\ \A i \in 1..Len(s) : u[i] = s[i]
  BY ListLength DEF Begins
<1>2. \A i \in 1..n : i \in 1..Len(s) /\ u[i] = s[i]
  BY <1>1
<1>3. PICK S : S = {s[i] : i \in 1..n}
  OBVIOUS
<1>4. \A i \in 1..n : s[i] \in S /\ u[i] \in S
  BY <1>2, <1>3
<1>5. (IF 1 <= n THEN (n - 1) + 1 ELSE 0) = n /\ (n - 1) + 1 = n /\ \A i \in 1..n : (1 + i) - 1 = i
  OBVIOUS
<1>6. ASSUME NEW v, \A i \in 1..n : v[i] \in S
      PROVE  SubSeq(v, 1, n) \in Seq(S) /\ Len(SubSeq(v, 1, n)) = n
             /\ \A i \in 1..n : SubSeq(v, 1, n)[i] = v[i]
  <2>1. /\ SubSeq(v, 1, n) \in Seq(S)
        /\ Len(SubSeq(v, 1, n)) = IF 1 <= n THEN (n - 1) + 1 ELSE 0
        /\ \A i \in 1..((n - 1) + 1) : SubSeq(v, 1, n)[i] = v[(1 + i) - 1]
    <3>1. 1 \in Int /\ n \in Int
      OBVIOUS
    <3> QED BY <1>6, <3>1, SubSeqProperties
  <2> QED BY <1>5, <2>1
<1>7. PICK a : a = SubSeq(s, 1, n)
  OBVIOUS
<1>8. PICK b : b = SubSeq(u, 1, n)
  OBVIOUS
<1>9. /\ List(a) /\ Len(a) = n /\ (\A i \in 1..n : a[i] = s[i])
      /\ List(b) /\ Len(b) = n /\ (\A i \in 1..n : b[i] = u[i])
  BY <1>4, <1>6, <1>7, <1>8 DEF List
<1>10. \A i \in 1..Len(a) : a[i] = b[i]
  BY <1>2, <1>9
<1>11. a = b
  BY <1>9, <1>10, ListEqual
<1> QED BY <1>7, <1>8, <1>9, <1>11

\* What a list begins with is a prefix of it.
LEMMA BeginsPrefix == ASSUME NEW s, NEW u, Begins(s, u) PROVE IsPrefix(s, u)
<1>1. Len(s) \in Nat /\ Len(s) <= Len(u)
  BY ListLength DEF Begins
<1>2. SubSeq(s, 1, Len(s)) = SubSeq(u, 1, Len(s))
  BY <1>1, SameHead
<1> QED BY <1>1, <1>2 DEF IsPrefix

\* Where the user's first message is.
FirstUserAt(s, u) == /\ u \in 1..Len(s) /\ s[u].role = "user"
                     /\ \A i \in 1..(u - 1) : s[i].role # "user"

\* The first user message.
LEMMA FirstUserIs ==
    ASSUME NEW s, List(s)
    PROVE  /\ (\E i \in 1..Len(s) : s[i].role = "user") => FirstUser(s) # 0
           /\ FirstUser(s) # 0 => FirstUserAt(s, FirstUser(s))
           /\ \A u : FirstUserAt(s, u) => FirstUser(s) = u
<1>1. Len(s) \in Nat
  BY ListLength
<1>2. PICK T : T = {i \in 1..Len(s) : s[i].role = "user"}
  OBVIOUS
<1>3. FirstUser(s) = IF T # {} THEN Min(T) ELSE 0
  BY <1>2 DEF FirstUser, SelectInSeq
<1>4. T \in SUBSET Nat /\ \A i \in T : i \in 1..Len(s) /\ s[i].role = "user"
  BY <1>2
<1>5. ASSUME T # {} PROVE Min(T) \in T /\ \A y \in T : Min(T) <= y
  <2>1. \E x \in T : \A y \in T : x <= y
    BY <1>4, <1>5, LeastNat
  <2> QED BY <2>1 DEF Min
<1>6. ASSUME T # {} PROVE FirstUserAt(s, Min(T))
  <2>1. PICK x : x = Min(T)
    OBVIOUS
  <2>2. x \in T /\ \A y \in T : x <= y
    BY <1>5, <1>6, <2>1
  <2>3. x \in 1..Len(s) /\ s[x].role = "user"
    BY <1>4, <2>2
  <2>4. ASSUME NEW i \in 1..(x - 1), s[i].role = "user" PROVE FALSE
    <3>1. i \in 1..Len(s) /\ i < x
      BY <1>1, <2>3
    <3>2. i \in T
      BY <1>2, <2>4, <3>1
    <3> QED BY <2>2, <2>3, <3>1, <3>2
  <2> QED BY <2>1, <2>3, <2>4 DEF FirstUserAt
<1>7. ASSUME NEW u, FirstUserAt(s, u) PROVE FirstUser(s) = u
  <2>1. u \in T
    BY <1>2, <1>7 DEF FirstUserAt
  <2>2. PICK x : x = Min(T)
    OBVIOUS
  <2>3. FirstUserAt(s, x) /\ FirstUser(s) = x
    BY <1>3, <1>6, <2>1, <2>2
  <2>4. u \in 1..Len(s) /\ x \in 1..Len(s)
    BY <1>7, <2>3 DEF FirstUserAt
  <2>5. ~(u < x)
    <3>1. u < x => u \in 1..(x - 1)
      BY <2>4
    <3> QED BY <1>7, <2>3, <3>1 DEF FirstUserAt
  <2>6. ~(x < u)
    <3>1. x < u => x \in 1..(u - 1)
      BY <2>4
    <3> QED BY <1>7, <2>3, <3>1 DEF FirstUserAt
  <2> QED BY <2>3, <2>4, <2>5, <2>6
<1>8. (\E i \in 1..Len(s) : s[i].role = "user") => FirstUser(s) # 0
  <2>1. (\E i \in 1..Len(s) : s[i].role = "user") => T # {}
    BY <1>2
  <2>2. T # {} => Min(T) # 0
    BY <1>4, <1>5
  <2> QED BY <1>3, <2>1, <2>2
<1> QED BY <1>3, <1>6, <1>7, <1>8

\* A conversation that has a user message keeps its prefix.
LEMMA PrefixKept ==
    ASSUME NEW s, NEW u, Begins(s, u), FirstUser(s) # 0
    PROVE  conversation_prefix(u) = conversation_prefix(s) /\ FirstUser(u) # 0
<1>1. /\ List(s) /\ List(u) /\ Len(s) \in Nat /\ Len(u) \in Nat
      /\ Len(s) <= Len(u) /\ \A i \in 1..Len(s) : u[i] = s[i]
  BY ListLength DEF Begins
<1>2. PICK k : k = FirstUser(s)
  OBVIOUS
<1>3. k \in 1..Len(s) /\ s[k].role = "user" /\ \A i \in 1..(k - 1) : s[i].role # "user"
  BY <1>1, <1>2, FirstUserIs DEF FirstUserAt
<1>4. \A i \in 1..(k - 1) : i \in 1..Len(s)
  BY <1>1, <1>3
<1>5. FirstUserAt(u, k)
  <2>1. k \in 1..Len(u)
    BY <1>1, <1>3
  <2> QED BY <1>1, <1>3, <1>4, <2>1 DEF FirstUserAt
<1>6. FirstUser(u) = k /\ k # 0
  BY <1>1, <1>3, <1>5, FirstUserIs
<1>7. SubSeq(s, 1, k - 1) = SubSeq(u, 1, k - 1)
  <2>1. k - 1 \in Nat /\ k - 1 <= Len(s)
    BY <1>1, <1>3
  <2> QED BY <2>1, SameHead
<1>8. u[k] = s[k]
  BY <1>1, <1>3
<1> QED BY <1>2, <1>6, <1>7, <1>8 DEF conversation_prefix

\* The messages in the client's dialect, and the id it gives in its body.
Mine(c, ts) == IF c.dialect = "chat" THEN ChatOf(c, ts)
               ELSE IF c.dialect = "anthropic" THEN AnthropicOf(c, ts) ELSE ResponsesOf(c, ts)
MineUp(c, ts) == openai_messages_to_cursor(Mine(c, ts))
IdGiven(c) == IF c.dialect = "chat" /\ c.ident \in {"given", "empty"} THEN c.ident ELSE "absent"

\* What the handler of a dialect receives.
LEMMA ReceivedIs ==
    ASSUME NEW c, c \in AnyClient, NEW ts
    PROVE  /\ Received(c, ts).messages = Mine(c, ts)
           /\ (Received(c, ts).user <=> c.ident = "user")
           /\ Received(c, ts).conversation = IdGiven(c)
<1>1. c.dialect \in {"chat", "anthropic", "responses"}
  BY DEF AnyClient
<1>2. CASE c.dialect = "chat"
  <2>1. PICK b : b = chat_handler(c, ts)
    OBVIOUS
  <2>2. Received(c, ts) = [b EXCEPT !.choice = normalize_tool_choice_for_kimi(b.choice)]
    BY <1>2, <2>1 DEF Received
  <2>3. /\ b.messages = ChatOf(c, ts) /\ (b.user <=> c.ident = "user")
        /\ b.conversation = IdGiven(c)
    BY <1>2, <2>1 DEF ChatOf, chat_handler, ChatBody, IdGiven
  <2>4. DOMAIN b = {"messages", "user", "conversation", "choice", "json"}
    BY <2>1 DEF chat_handler, ChatBody
  <2> QED BY <1>2, <2>2, <2>3, <2>4 DEF Mine
<1>3. CASE c.dialect = "anthropic"
  <2>1. PICK b : b = messages_handler(c, ts)
    OBVIOUS
  <2>2. Received(c, ts) = [b EXCEPT !.choice = normalize_tool_choice_for_kimi(b.choice)]
    BY <1>3, <2>1 DEF Received
  <2>3. /\ b.messages = AnthropicOf(c, ts) /\ (b.user <=> c.ident = "user")
        /\ b.conversation = IdGiven(c)
    BY <1>3, <2>1 DEF AnthropicOf, messages_handler, anthropic_to_openai_chat, Reduced,
                      AnthropicBody, IdGiven
  <2>4. DOMAIN b = {"messages", "user", "conversation", "choice", "json"}
    BY <2>1 DEF messages_handler, anthropic_to_openai_chat, Reduced
  <2> QED BY <1>3, <2>2, <2>3, <2>4 DEF Mine
<1>4. CASE c.dialect = "responses"
  <2>1. PICK b : b = responses_handler(c, ts)
    OBVIOUS
  <2>2. Received(c, ts) = [b EXCEPT !.choice = normalize_tool_choice_for_kimi(b.choice)]
    BY <1>4, <2>1 DEF Received
  <2>3. /\ b.messages = ResponsesOf(c, ts) /\ (b.user <=> c.ident = "user")
        /\ b.conversation = IdGiven(c)
    BY <1>4, <2>1 DEF ResponsesOf, responses_handler, responses_to_openai_chat, Reduced,
                      ResponsesBody, IdGiven
  <2>4. DOMAIN b = {"messages", "user", "conversation", "choice", "json"}
    BY <2>1 DEF responses_handler, responses_to_openai_chat, Reduced
  <2> QED BY <1>4, <2>2, <2>3, <2>4 DEF Mine
<1> QED BY <1>1, <1>2, <1>3, <1>4

\* The identity of the conversation can no longer change.
Settled(c, ts) == c.ident \in {"user", "session"} \/ FirstUser(Mine(c, ts)) # 0

\* It does not change as the conversation goes on.
LEMMA SettledStays ==
    ASSUME NEW c, c \in AnyClient, NEW ts, NEW us, Continued(c, ts, us), Settled(c, ts)
    PROVE  /\ Settled(c, us)
           /\ session_of(Received(c, us), Headers(c)) = session_of(Received(c, ts), Headers(c))
           /\ conversation_id_from(Received(c, us), Headers(c)) =
                conversation_id_from(Received(c, ts), Headers(c))
<1>1. PICK a : a = Received(c, ts)
  OBVIOUS
<1>2. PICK b : b = Received(c, us)
  OBVIOUS
<1>3. /\ a.messages = Mine(c, ts) /\ (a.user <=> c.ident = "user") /\ a.conversation = IdGiven(c)
      /\ b.messages = Mine(c, us) /\ (b.user <=> c.ident = "user") /\ b.conversation = IdGiven(c)
  BY <1>1, <1>2, ReceivedIs
<1>4. Begins(Mine(c, ts), Mine(c, us))
  BY DEF Continued, Mine
<1>5. CASE FirstUser(Mine(c, ts)) # 0
  <2>1. conversation_prefix(Mine(c, us)) = conversation_prefix(Mine(c, ts)) /\ FirstUser(Mine(c, us)) # 0
    BY <1>4, <1>5, PrefixKept
  <2>2. session_of(b, Headers(c)) = session_of(a, Headers(c))
    BY <1>3, <2>1 DEF session_of
  <2>3. conversation_id_from(b, Headers(c)) = conversation_id_from(a, Headers(c))
    BY <1>3, <2>1 DEF conversation_id_from
  <2> QED BY <1>1, <1>2, <2>1, <2>2, <2>3 DEF Settled
<1>6. CASE c.ident \in {"user", "session"}
  <2>1. Headers(c) = IF c.ident = "session" THEN "session" ELSE "none"
    BY <1>6 DEF Headers
  <2>2. session_of(b, Headers(c)) = session_of(a, Headers(c))
    BY <1>3, <1>6, <2>1 DEF session_of
  <2>3. conversation_id_from(b, Headers(c)) = conversation_id_from(a, Headers(c))
    BY <1>3, <1>6, <2>1 DEF conversation_id_from
  <2> QED BY <1>1, <1>2, <1>6, <2>2, <2>3 DEF Settled
<1> QED BY <1>5, <1>6 DEF Settled

\* A user message settles it.
LEMMA SettledBy ==
    ASSUME NEW c, NEW ts, NEW s, List(s), NEW m, m.role = "user", Mine(c, ts) = Append(s, m)
    PROVE  Settled(c, ts)
<1>1. PICK a : a = Append(s, m)
  OBVIOUS
<1>2. List(a) /\ Len(a) = Len(s) + 1 /\ a[Len(s) + 1] = m /\ Len(s) \in Nat
  BY <1>1, ListAppend
<1>3. Len(s) + 1 \in 1..Len(a)
  BY <1>2
<1>4. FirstUser(a) # 0
  BY <1>2, <1>3, FirstUserIs
<1> QED BY <1>1, <1>4 DEF Settled

------------------------------------------------------------------------------
(* The invariant of the conversation. *)

\* What was said so far: the calls of the last answer are open, and nothing
\* else is.
Talk ==
    /\ client \in AnyClient
    /\ attempt \in Nat /\ (attempt > 0 => Awaiting)
    /\ UpToTwo(Unanswered) /\ Agreed(client, turns, Set(Unanswered))
    /\ turns = <<>> \/ Awaiting => Hushed(ChatUp(client, turns))
\* What was sent, and the ids it was sent under.
IdNow == conversation_id_from(Received(client, turns), Headers(client))
IdOn(a) == conversation_id_for(session_of(Received(client, turns), Headers(client)), a)
OneId == IF Explicit THEN named \subseteq {IdNow}
         ELSE \A a \in Accounts : issued[a] \subseteq {IdOn(a)}
Fresh == named = {} /\ \A a \in Accounts : issued[a] = {}
SentBefore ==
    /\ \E S : issued \in [Accounts -> SUBSET S]
    /\ last # <<>> => turns # <<>> /\ Begins(last[1].messages, MineUp(client, turns))
    /\ turns = <<>> => Fresh
    /\ turns # <<>> /\ Nameable => Settled(client, turns) /\ OneId
ShapingInv == Talk /\ SentBefore

\* Initially nothing was said.
LEMMA ShapingInitInv == ShapingInit => ShapingInv
<1> SUFFICES ASSUME ShapingInit PROVE ShapingInv
  OBVIOUS
<1>1. /\ client \in Clients /\ turns = <<>> /\ attempt = 0 /\ last = <<>> /\ named = {}
      /\ issued = [a \in Accounts |-> {}]
  BY DEF ShapingInit
<1>2. client \in AnyClient
  BY <1>1, ClientsAssumption
<1>3. Unanswered = <<>> /\ UpToTwo(<<>>) /\ Set(<<>>) = {}
  BY <1>1, IdsAre DEF Unanswered, UpToTwo
<1>4. Agreed(client, <<>>, {}) /\ Hushed(ChatUp(client, <<>>))
  BY AgreedNone
<1>5. Talk
  <2>1. attempt \in Nat /\ ~(attempt > 0)
    BY <1>1
  <2>2. UpToTwo(Unanswered) /\ Set(Unanswered) = {}
    BY <1>3
  <2>3. Agreed(client, turns, Set(Unanswered))
    BY <1>1, <1>4, <2>2
  <2>4. Hushed(ChatUp(client, turns))
    BY <1>1, <1>4
  <2> QED BY <1>2, <2>1, <2>2, <2>3, <2>4 DEF Talk
<1>6. SentBefore
  BY <1>1 DEF SentBefore, Fresh
<1> QED BY <1>5, <1>6 DEF ShapingInv

\* One more turn, as the client and the invariant see it.
LEMMA TurnAdded ==
    ASSUME NEW t, List(turns), turns' = Append(turns, t)
    PROVE  /\ turns' # <<>> /\ (Awaiting' <=> t.kind # "assistant")
           /\ (t.kind # "assistant" => Unanswered' = <<>>)
           /\ (t.kind = "assistant" => Unanswered' = t.ids)
           /\ (turns # <<>> => turns'[1] = turns[1]) /\ (turns = <<>> => turns'[1] = t)
<1>1. /\ turns' # <<>> /\ Len(turns') = Len(turns) + 1 /\ turns'[Len(turns) + 1] = t
      /\ Len(turns) \in Nat /\ \A i \in 1..Len(turns) : turns'[i] = turns[i]
  BY ListAppend
<1>2. Last(turns') = t
  BY <1>1 DEF Last
<1>3. turns = <<>> => Len(turns) = 0
  BY ListShort
<1>4. turns # <<>> => 1 \in 1..Len(turns)
  BY <1>1, ListLength
<1>5. Awaiting' <=> t.kind # "assistant"
  BY <1>1, <1>2 DEF Awaiting
<1>6. /\ t.kind # "assistant" => Unanswered' = <<>>
      /\ t.kind = "assistant" => Unanswered' = t.ids
  BY <1>1, <1>2, <1>5 DEF Unanswered
<1>7. (turns # <<>> => turns'[1] = turns[1]) /\ (turns = <<>> => turns'[1] = t)
  BY <1>1, <1>3, <1>4
<1> QED BY <1>1, <1>5, <1>6, <1>7

\* Whether the client names the conversation does not depend on what is said.
LEMMA ExplicitIs ==
    ASSUME NEW c, c \in AnyClient, NEW ts
    PROVE  has_explicit(Received(c, ts), Headers(c)) <=>
                IdGiven(c) # "absent" \/ Headers(c) = "conversation"
BY ReceivedIs DEF has_explicit

\* One more turn keeps what was sent and its ids.
LEMMA SentStays ==
    ASSUME ShapingInv, NEW t, turns' = Append(turns, t), Continued(client, turns, turns'),
           UNCHANGED <<client, last, named, issued>>,
           turns = <<>> => (Nameable' => Settled(client, turns'))
    PROVE  SentBefore'
<1>1. client \in AnyClient /\ List(turns) /\ client' = client /\ last' = last /\ named' = named /\ issued' = issued
  BY DEF ShapingInv, Talk, Agreed, Listed
<1>2. turns' # <<>> /\ (turns # <<>> => turns'[1] = turns[1])
  BY <1>1, TurnAdded
<1>3. turns # <<>> => (Nameable' <=> Nameable)
  BY <1>1, <1>2 DEF Nameable
<1>4. \E S : issued' \in [Accounts -> SUBSET S]
  BY <1>1 DEF ShapingInv, SentBefore
<1>5. ASSUME last' # <<>> PROVE Begins(last'[1].messages, MineUp(client', turns'))
  <2>1. Begins(last[1].messages, MineUp(client, turns))
    BY <1>1, <1>5 DEF ShapingInv, SentBefore
  <2>2. Begins(MineUp(client, turns), MineUp(client, turns'))
    BY DEF Continued, MineUp, Mine, ChatUp, AnthropicUp, ResponsesUp
  <2>3. List(MineUp(client, turns))
    BY <2>2 DEF Begins
  <2>4. Begins(last[1].messages, MineUp(client, turns'))
    BY <2>1, <2>2, <2>3, BeginsMore
  <2> QED BY <1>1, <2>4
<1>6. Explicit' <=> Explicit
  <2>1. has_explicit(Received(client, turns'), Headers(client)) <=> has_explicit(Received(client, turns), Headers(client))
    BY <1>1, ExplicitIs
  <2> QED BY <1>1, <2>1 DEF Explicit
<1>7. ASSUME Nameable' PROVE Settled(client, turns') /\ OneId'
  <2>1. CASE turns = <<>>
    <3>1. Fresh
      BY <2>1 DEF ShapingInv, SentBefore
    <3>2. OneId'
      BY <1>1, <3>1 DEF Fresh, OneId
    <3> QED BY <1>7, <2>1, <3>2
  <2>2. CASE turns # <<>>
    <3>1. Settled(client, turns) /\ OneId
      BY <1>3, <1>7, <2>2 DEF ShapingInv, SentBefore
    <3>2. /\ Settled(client, turns')
          /\ session_of(Received(client, turns'), Headers(client)) =
               session_of(Received(client, turns), Headers(client))
          /\ conversation_id_from(Received(client, turns'), Headers(client)) =
               conversation_id_from(Received(client, turns), Headers(client))
      BY <1>1, <3>1, SettledStays
    <3>3. IdNow' = IdNow /\ \A a : IdOn(a)' = IdOn(a)
      BY <1>1, <3>2 DEF IdNow, IdOn
    <3>4. OneId'
      BY <1>1, <1>6, <3>1, <3>3 DEF OneId
    <3> QED BY <3>2, <3>4
  <2> QED BY <2>1, <2>2
<1> QED BY <1>1, <1>2, <1>4, <1>5, <1>7 DEF SentBefore

\* The user speaks.
LEMMA UserStep ==
    ASSUME ShapingInv, NEW x, OneText(x), NEW image, UserSpeaks(x, image)
    PROVE  ShapingInv'
<1>1. /\ attempt = 0 /\ Unanswered = <<>> /\ turns' = Append(turns, User(x, image))
      /\ client' = client /\ attempt' = attempt /\ last' = last /\ named' = named /\ issued' = issued
  BY DEF UserSpeaks
<1>2. Set(<<>>) = {} /\ UpToTwo(<<>>)
  BY IdsAre DEF UpToTwo
<1>3. client \in AnyClient /\ Agreed(client, turns, {}) /\ List(turns)
  BY <1>1, <1>2 DEF ShapingInv, Talk, Agreed, Listed
<1>4. /\ Agreed(client, turns', {}) /\ Hushed(ChatUp(client, turns')) /\ Continued(client, turns, turns')
      /\ ChatOf(client, turns') = Append(ChatOf(client, turns), Says(x, Pics(image)))
      /\ ResponsesOf(client, turns') = Append(ResponsesOf(client, turns), Says(x, Pics(image)))
      /\ x # <<>> => AnthropicOf(client, turns') = Append(AnthropicOf(client, turns), Says(x, <<>>))
  <2>1. Agreed(client, turns, {}) /\ turns' = Append(turns, User(x, image))
    BY <1>1, <1>3
  <2>2. PICK us : us = turns'
    OBVIOUS
  <2>3. us = Append(turns, User(x, image))
    BY <2>1, <2>2
  <2>4. Agreed(client, us, {}) /\ Hushed(ChatUp(client, us)) /\ UserSaid(client, turns, us, x, image)
    BY <1>3, <2>3, AgreedUser
  <2>5. Agreed(client, turns', {}) /\ Hushed(ChatUp(client, turns')) /\ UserSaid(client, turns, turns', x, image)
    BY <2>2, <2>4
  <2> QED BY <2>5 DEF UserSaid
<1>5. User(x, image).kind = "user" /\ User(x, image).text = x
  BY DEF User
<1>6. Awaiting' /\ Unanswered' = <<>> /\ (turns = <<>> => turns'[1].text = x)
  BY <1>1, <1>3, <1>5, TurnAdded
<1>7. Talk'
  BY <1>1, <1>2, <1>3, <1>4, <1>6 DEF Talk
<1>8. ASSUME turns = <<>>, Nameable' PROVE Settled(client, turns')
  <2>1. \A y, i : Says(y, i).role = "user"
    BY DEF Says, ChatMessage
  <2>2. List(ChatOf(client, turns)) /\ List(AnthropicOf(client, turns)) /\ List(ResponsesOf(client, turns))
    BY <1>3, AgreedLists
  <2>3. CASE client.ident \in {"user", "session"}
    BY <2>3 DEF Settled
  <2>4. CASE client.dialect = "chat"
    <3>1. Mine(client, turns') = Append(ChatOf(client, turns), Says(x, Pics(image)))
      BY <1>4, <2>4 DEF Mine
    <3> QED BY <2>1, <2>2, <3>1, SettledBy
  <2>5. CASE client.dialect = "responses"
    <3>1. Mine(client, turns') = Append(ResponsesOf(client, turns), Says(x, Pics(image)))
      BY <1>4, <2>5 DEF Mine
    <3> QED BY <2>1, <2>2, <3>1, SettledBy
  <2>6. CASE client.dialect = "anthropic" /\ client.ident \notin {"user", "session"}
    <3>1. x # <<>>
      BY <1>1, <1>6, <1>8, <2>6 DEF Nameable
    <3>2. Mine(client, turns') = Append(AnthropicOf(client, turns), Says(x, <<>>))
      BY <1>4, <2>6, <3>1 DEF Mine
    <3> QED BY <2>1, <2>2, <3>2, SettledBy
  <2>7. client.dialect \in {"chat", "anthropic", "responses"}
    BY <1>3 DEF AnyClient
  <2> QED BY <2>3, <2>4, <2>5, <2>6, <2>7
<1>9. SentBefore'
  BY <1>1, <1>4, <1>8, SentStays
<1> QED BY <1>7, <1>9 DEF ShapingInv

\* The calls in another order are the same calls.
LEMMA OtherOrder ==
    ASSUME NEW s, UpToTwo(s)
    PROVE  UpToTwo(Reverse(s)) /\ Set(Reverse(s)) = Set(s) /\ (Reverse(s) = <<>> <=> s = <<>>)
<1>1. List(s) /\ Len(s) \in Nat
  BY ShortIsList, ListLength
<1>2. PICK r : r = Reverse(s)
  OBVIOUS
<1>3. r = [i \in 1..Len(s) |-> r[i]] /\ \A i \in 1..Len(s) : r[i] = s[(Len(s) - i) + 1]
  BY <1>2 DEF Reverse
<1>4. List(r) /\ Len(r) = Len(s)
  BY <1>1, <1>3, ListOf
<1>5. UpToTwo(r) /\ (r = <<>> <=> s = <<>>)
  BY <1>4, ShortImage
<1>6. \A i \in 1..Len(s) : (Len(s) - i) + 1 \in 1..Len(s) /\ (Len(s) - ((Len(s) - i) + 1)) + 1 = i
  BY <1>1
<1>7. Set(r) = Set(s)
  <2>1. \A i \in 1..Len(s) : r[i] = s[(Len(s) - i) + 1]
    BY <1>3
  <2>2. \A i \in 1..Len(s) : s[i] = r[(Len(s) - i) + 1]
    BY <1>6, <2>1
  <2>3. \A i \in 1..Len(s) : r[i] \in Set(s) /\ s[i] \in Set(r)
    <3> SUFFICES ASSUME NEW i \in 1..Len(s) PROVE r[i] \in Set(s) /\ s[i] \in Set(r)
      OBVIOUS
    <3>1. PICK k \in 1..Len(s) : k = (Len(s) - i) + 1
      BY <1>6
    <3>2. r[i] = s[k] /\ s[i] = r[k]
      BY <2>1, <2>2, <3>1
    <3> QED BY <1>4, <3>2 DEF Set
  <2>4. Set(r) \subseteq Set(s)
    BY <1>4, <2>3 DEF Set
  <2>5. Set(s) \subseteq Set(r)
    BY <2>3 DEF Set
  <2> QED BY <2>4, <2>5
<1> QED BY <1>2, <1>5, <1>7

\* The client returns the results.
LEMMA ResultsStep ==
    ASSUME ShapingInv, NEW order, order \in TurnOrders, NEW x, OneText(x), NEW first,
           ReturnResults(order, x, first)
    PROVE  ShapingInv'
<1>1. /\ attempt = 0 /\ Unanswered # <<>> /\ turns' = Append(turns, Results(order, x, first))
      /\ client' = client /\ attempt' = attempt /\ last' = last /\ named' = named /\ issued' = issued
  BY DEF ReturnResults
<1>2. Set(<<>>) = {} /\ UpToTwo(<<>>)
  BY IdsAre DEF UpToTwo
<1>3. /\ client \in AnyClient /\ UpToTwo(Unanswered) /\ Agreed(client, turns, Set(Unanswered))
      /\ List(turns)
  BY DEF ShapingInv, Talk, Agreed, Listed
<1>4. UpToTwo(order) /\ Set(order) = Set(Unanswered) /\ order # <<>>
  <2>1. order = Unanswered \/ order = Reverse(Unanswered)
    BY DEF TurnOrders
  <2> QED BY <1>1, <1>3, <2>1, OtherOrder
<1>5. Agreed(client, turns', {}) /\ Hushed(ChatUp(client, turns')) /\ Continued(client, turns, turns')
  <2>1. /\ Agreed(client, turns, Set(order)) /\ turns' = Append(turns, Results(order, x, first))
        /\ UpToTwo(order) /\ order # <<>>
    BY <1>1, <1>3, <1>4
  <2> QED BY <2>1, AgreedResults
<1>6. Results(order, x, first).kind = "results"
  BY DEF Results
<1>7. Awaiting' /\ Unanswered' = <<>>
  BY <1>1, <1>3, <1>6, TurnAdded
<1>8. Talk'
  BY <1>1, <1>2, <1>3, <1>5, <1>7 DEF Talk
<1>9. turns # <<>>
  BY <1>1 DEF Unanswered
<1>10. SentBefore'
  BY <1>1, <1>5, <1>9, SentStays
<1> QED BY <1>8, <1>10 DEF ShapingInv

\* The answer arrives.
LEMMA AnswerStep ==
    ASSUME ShapingInv, NEW x, OneText(x), NEW calls, UpToTwo(calls), Answered(x, calls)
    PROVE  ShapingInv'
<1>1. /\ attempt > 0 /\ (x # <<>> \/ calls # <<>>) /\ turns' = Append(turns, Answer(x, calls))
      /\ client' = client /\ attempt' = 0 /\ last' = last /\ named' = named /\ issued' = issued
  BY DEF Answered
<1>2. Set(<<>>) = {}
  BY IdsAre DEF UpToTwo
<1>3. /\ client \in AnyClient /\ Awaiting /\ Agreed(client, turns, {}) /\ List(turns)
      /\ Hushed(ChatUp(client, turns)) /\ turns # <<>>
  <2>1. Awaiting
    BY <1>1 DEF ShapingInv, Talk
  <2>2. Unanswered = <<>> /\ turns # <<>>
    BY <2>1 DEF Unanswered, Awaiting
  <2> QED BY <1>2, <2>1, <2>2 DEF ShapingInv, Talk, Agreed, Listed
<1>4. Agreed(client, turns', Set(calls)) /\ Continued(client, turns, turns')
  <2>1. /\ Agreed(client, turns, {}) /\ Hushed(ChatUp(client, turns))
        /\ turns' = Append(turns, Answer(x, calls)) /\ (x # <<>> \/ calls # <<>>)
    BY <1>1, <1>3
  <2> QED BY <2>1, AgreedAnswer
<1>5. Answer(x, calls).kind = "assistant" /\ Answer(x, calls).ids = calls
  BY DEF Answer
<1>6. ~Awaiting' /\ Unanswered' = calls /\ turns' # <<>>
  BY <1>1, <1>3, <1>5, TurnAdded
<1>7. Talk'
  BY <1>1, <1>3, <1>4, <1>6 DEF Talk
<1>8. SentBefore'
  BY <1>1, <1>3, <1>4, SentStays
<1> QED BY <1>7, <1>8 DEF ShapingInv

\* An attempt, the first of a request or another.
LEMMA SentStep ==
    ASSUME ShapingInv, Awaiting, NEW a \in Accounts, NEW id, Sent(Received(client, turns), a, id),
           ~Explicit => id = IdOn(a), Explicit => named' \subseteq named \cup {IdNow},
           ~Explicit => named' = named
    PROVE  ShapingInv'
<1>1. /\ last' = <<build_cursor_body_full(Received(client, turns))>>
      /\ issued' = [issued EXCEPT ![a] = @ \cup {id}]
      /\ attempt' = attempt + 1 /\ client' = client /\ turns' = turns
  BY DEF Sent
<1>2. client \in AnyClient /\ attempt \in Nat /\ turns # <<>>
  BY DEF ShapingInv, Talk, Awaiting
<1>3. Awaiting' /\ Unanswered' = Unanswered
  BY <1>1 DEF Awaiting, Unanswered
<1>4. Talk'
  <2>1. attempt' \in Nat
    BY <1>1, <1>2
  <2> QED BY <1>1, <1>2, <1>3, <2>1 DEF ShapingInv, Talk
<1>5. PICK S : issued \in [Accounts -> SUBSET S]
  BY DEF ShapingInv, SentBefore
<1>6. \E T : issued' \in [Accounts -> SUBSET T]
  <2>1. PICK T : T = S \cup {id}
    OBVIOUS
  <2>2. issued' \in [Accounts -> SUBSET T]
    BY <1>1, <1>5, <2>1
  <2> QED BY <2>2
<1>7. Begins(last'[1].messages, MineUp(client, turns))
  <2>1. PICK b : b = build_cursor_body_full(Received(client, turns))
    OBVIOUS
  <2>2. b.messages = MineUp(client, turns)
    BY <1>2, <2>1, ReceivedIs DEF build_cursor_body_full, MineUp
  <2>3. last'[1] = b
    BY <1>1, <2>1, ListShort
  <2>4. List(MineUp(client, turns))
    <3>1. /\ List(ChatUp(client, turns)) /\ List(AnthropicUp(client, turns))
          /\ List(ResponsesUp(client, turns))
      BY AgreedLists DEF ShapingInv, Talk
    <3> QED BY <3>1 DEF MineUp, Mine, ChatUp, AnthropicUp, ResponsesUp
  <2>5. Begins(MineUp(client, turns), MineUp(client, turns))
    BY <2>4, BeginsMore
  <2> QED BY <2>2, <2>3, <2>5
<1>8. (Nameable' <=> Nameable) /\ (Explicit' <=> Explicit) /\ IdNow' = IdNow /\ \A b : IdOn(b)' = IdOn(b)
  BY <1>1 DEF Nameable, Explicit, IdNow, IdOn
<1>9. ASSUME Nameable PROVE Settled(client, turns) /\ OneId'
  <2>1. Settled(client, turns) /\ OneId
    BY <1>2, <1>9 DEF ShapingInv, SentBefore
  <2>2. CASE Explicit
    <3>1. named \subseteq {IdNow}
      BY <2>1, <2>2 DEF OneId
    <3>2. named' \subseteq {IdNow}
      BY <2>2, <3>1
    <3> QED BY <1>8, <2>1, <2>2, <3>2 DEF OneId
  <2>3. CASE ~Explicit
    <3>1. \A b \in Accounts : issued[b] \subseteq {IdOn(b)}
      BY <2>1, <2>3 DEF OneId
    <3>2. \A b \in Accounts : issued'[b] \subseteq {IdOn(b)}
      <4>1. \A b \in Accounts : issued'[b] = IF b = a THEN issued[b] \cup {id} ELSE issued[b]
        BY <1>1, <1>5
      <4> QED BY <2>3, <3>1, <4>1
    <3> QED BY <1>8, <2>1, <2>3, <3>2 DEF OneId
  <2> QED BY <2>2, <2>3
<1>10. SentBefore'
  BY <1>1, <1>2, <1>6, <1>7, <1>8, <1>9 DEF SentBefore
<1> QED BY <1>4, <1>10 DEF ShapingInv

\* The first attempt of a request.
LEMMA SendStep == ASSUME ShapingInv, NEW a \in Accounts, Send(a) PROVE ShapingInv'
<1>1. PICK id : id = first_conversation_id(Received(client, turns), Headers(client), a)
  OBVIOUS
<1>2. /\ Awaiting /\ Sent(Received(client, turns), a, id)
      /\ named' = IF has_explicit(Received(client, turns), Headers(client)) THEN named \cup {id} ELSE named
  BY <1>1 DEF Send
<1>3. (Explicit => id = IdNow) /\ (~Explicit => id = IdOn(a))
  BY <1>1 DEF Explicit, IdNow, IdOn, first_conversation_id
<1>4. (Explicit => named' \subseteq named \cup {IdNow}) /\ (~Explicit => named' = named)
  BY <1>2, <1>3 DEF Explicit
<1> QED BY <1>2, <1>3, <1>4, SentStep

\* Another attempt.
LEMMA RetryStep == ASSUME ShapingInv, NEW a \in Accounts, Retry(a) PROVE ShapingInv'
<1>1. PICK id : id = conversation_id_for(session_of(Received(client, turns), Headers(client)), a)
  OBVIOUS
<1>2. attempt > 0 /\ Sent(Received(client, turns), a, id) /\ named' = named
  BY <1>1 DEF Retry, ShapingInv, Talk
<1>3. Awaiting /\ id = IdOn(a)
  BY <1>1, <1>2 DEF ShapingInv, Talk, IdOn
<1> QED BY <1>2, <1>3, SentStep

\* A step that changes neither the conversation nor what was sent.
LEMMA IdleStep ==
    ASSUME ShapingInv, attempt' \in {0, attempt}, UNCHANGED <<client, turns, last, named, issued>>
    PROVE  ShapingInv'
<1>1. (attempt' > 0 => attempt > 0) /\ attempt' \in Nat
  BY DEF ShapingInv, Talk
<1>2. Talk'
  BY <1>1 DEF ShapingInv, Talk, Awaiting, Unanswered
<1>3. SentBefore'
  BY DEF ShapingInv, SentBefore, Fresh, OneId, Nameable, Explicit, IdNow, IdOn
<1> QED BY <1>2, <1>3 DEF ShapingInv

\* Every step keeps the invariant.
LEMMA ShapingStep == ShapingInv /\ [ShapingNext]_shapingVars => ShapingInv'
<1> SUFFICES ASSUME ShapingInv, [ShapingNext]_shapingVars PROVE ShapingInv'
  OBVIOUS
<1>1. \A x \in TurnTexts : OneText(x)
  BY DEF TurnTexts, OneText
<1>2. \A x \in TurnCalls : UpToTwo(x)
  BY DEF TurnCalls, UpToTwo
<1>3. CASE \E text \in TurnTexts, image \in Images : UserSpeaks(text, image)
  BY <1>1, <1>3, UserStep
<1>4. CASE \E order \in TurnOrders, text \in TurnTexts, first \in BOOLEAN :
                ReturnResults(order, text, first)
  BY <1>1, <1>4, ResultsStep
<1>5. CASE \E a \in Accounts : Send(a) \/ Retry(a)
  BY <1>5, SendStep, RetryStep
<1>6. CASE \E text \in TurnTexts, calls \in TurnCalls : Answered(text, calls)
  BY <1>1, <1>2, <1>6, AnswerStep
<1>7. CASE Failed
  <2>1. attempt' = 0 /\ UNCHANGED <<client, turns, last, named, issued>>
    BY <1>7 DEF Failed
  <2> QED BY <2>1, IdleStep
<1>8. CASE UNCHANGED shapingVars
  <2>1. attempt' = attempt /\ UNCHANGED <<client, turns, last, named, issued>>
    BY <1>8 DEF shapingVars
  <2> QED BY <2>1, IdleStep
<1> QED BY <1>3, <1>4, <1>5, <1>6, <1>7, <1>8 DEF ShapingNext

\* The invariant holds in every conversation.
LEMMA ShapingAlways == ShapingSpec => []ShapingInv
<1>1. ShapingInit => ShapingInv
  BY ShapingInitInv
<1>2. ShapingInv /\ [ShapingNext]_shapingVars => ShapingInv'
  BY ShapingStep
<1> QED BY <1>1, <1>2, PTL DEF ShapingSpec

\* The messages sent in the three dialects.
LEMMA SentMessages ==
    /\ Upstream(chat_handler(client, turns)) = ChatUp(client, turns)
    /\ Upstream(messages_handler(client, turns)) = AnthropicUp(client, turns)
    /\ Upstream(responses_handler(client, turns)) = ResponsesUp(client, turns)
BY DEF Upstream, ChatUp, AnthropicUp, ResponsesUp, ChatOf, AnthropicOf, ResponsesOf

\* Whatever the dialect and wherever the client put its text, every TOOL message
\* sent upstream directly follows the assistant messages that made exactly its
\* calls, and names their tools (anthropic_to_openai_chat, flush_results).
THEOREM ResultsStayWithCalls == ShapingSpec => []ResultsFollowCalls
<1>1. ShapingInv => ResultsFollowCalls
  <2> SUFFICES ASSUME ShapingInv, NEW ms \in ToUpstream, NEW k \in 1..Len(ms), ms[k].role = "TOOL"
               PROVE  /\ Ids(ms[k].parts) =
                            UNION {Ids(ms[j].toolCalls) : j \in RunStart(ms, k)..(k - 1)}
                      /\ \A i \in 1..Len(ms[k].parts) :
                            ms[k].parts[i].toolName = ToolOf(ms[k].parts[i].toolCallId)
    BY DEF ResultsFollowCalls
  <2>1. ms \in {ChatUp(client, turns), AnthropicUp(client, turns), ResponsesUp(client, turns)}
    BY SentMessages DEF ToUpstream
  <2>2. Follow(ms)
    BY <2>1, SoundSent DEF ShapingInv, Talk, Agreed, ChatUp, AnthropicUp, ResponsesUp
  <2> QED BY <2>2 DEF Follow, Answers, CallsBefore
<1> QED BY <1>1, ShapingAlways, PTL

\* A conversation reaches the upstream as the same messages in every dialect, but
\* for images sent by the Anthropic route and for answers that Responses spreads
\* over several messages (anthropic_to_openai_chat, responses_to_openai_chat).
THEOREM DialectsSayTheSame == ShapingSpec => []DialectsAgree
<1>1. ShapingInv => DialectsAgree
  BY SentMessages DEF ShapingInv, Talk, Agreed, DialectsAgree
<1> QED BY <1>1, ShapingAlways, PTL

\* At most one element.
LEMMA AtMostOne == ASSUME NEW S, NEW e, S \subseteq {e} PROVE Cardinality(S) <= 1
<1>1. S = {} \/ S = {e}
  OBVIOUS
<1>2. Cardinality({}) = 0
  BY FS_EmptySet
<1>3. Cardinality({e}) = 1
  BY FS_Singleton
<1> QED BY <1>1, <1>2, <1>3

\* What was sent of a conversation is a prefix of what is sent next, and it keeps
\* its id on an account, across retries and failures (conversation_id_for,
\* conversation_prefix).
THEOREM CacheStaysWarm == ShapingSpec => []CacheKept
<1>1. ShapingInv => CacheKept
  <2> SUFFICES ASSUME ShapingInv, last # <<>>
               PROVE  /\ IsPrefix(last[1].messages, Upstream(Received(client, turns)))
                      /\ Nameable => IF Explicit THEN Cardinality(named) <= 1
                                     ELSE \A a \in Accounts : Cardinality(issued[a]) <= 1
    BY DEF CacheKept
  <2>1. turns # <<>> /\ Begins(last[1].messages, MineUp(client, turns)) /\ client \in AnyClient
    BY DEF ShapingInv, SentBefore, Talk
  <2>2. Upstream(Received(client, turns)) = MineUp(client, turns)
    BY <2>1, ReceivedIs DEF Upstream, MineUp
  <2>3. IsPrefix(last[1].messages, MineUp(client, turns))
    BY <2>1, BeginsPrefix
  <2>4. ASSUME Nameable PROVE IF Explicit THEN Cardinality(named) <= 1
                              ELSE \A a \in Accounts : Cardinality(issued[a]) <= 1
    <3>1. OneId
      BY <2>1, <2>4 DEF ShapingInv, SentBefore
    <3> QED BY <3>1, AtMostOne DEF OneId
  <2> QED BY <2>2, <2>3, <2>4
<1> QED BY <1>1, ShapingAlways, PTL

=============================================================================
