------------------------ MODULE CircuitBreakerProofs ------------------------
(***************************************************************************)
(* Proofs about CircuitBreaker, for any number of callers and any          *)
(* configuration of the breaker.                                           *)
(***************************************************************************)
EXTENDS CircuitBreaker, FiniteSetTheorems, TLAPS

USE MaxRequestsAssumption, MinAssumption, TimeAssumption

LEMMA TypeInit == Init => TypeOK
<1>. SUFFICES ASSUME Init PROVE TypeOK
  OBVIOUS
<1>1. healthy \in BOOLEAN
  BY Zenon DEF Init
<1>. QED
  BY <1>1 DEF Init, TypeOK

LEMMA TypeStep == TypeOK /\ [Next]_vars => TypeOK'
<1>. SUFFICES ASSUME TypeOK, [Next]_vars PROVE TypeOK'
  OBVIOUS
<1>. USE DEF TypeOK
<1>1. ASSUME NEW p \in Callers, Call(p) PROVE TypeOK'
  BY <1>1 DEF Call, Admit, AdmitRenewed, Reject, vars, counts
<1>2. ASSUME NEW p \in Callers, Report(p) PROVE TypeOK'
  BY <1>2 DEF Report, Success, Failure, NewGeneration
<1>3. ASSUME NEW p \in Callers, ReportStale(p) PROVE TypeOK'
  BY <1>3 DEF ReportStale, counts
<1>4. ASSUME NEW p \in Callers, ReportRenewed(p) PROVE TypeOK'
  BY <1>4 DEF ReportRenewed, NewGeneration
<1>5. CASE Tick
  BY <1>5 DEF Tick, counts
<1>6. CASE Heal
  BY <1>6 DEF Heal, counts
<1>7. CASE UNCHANGED vars
  BY <1>7 DEF vars, counts
<1>. QED
  BY <1>1, <1>2, <1>3, <1>4, <1>5, <1>6, <1>7 DEF Next, Answer

\* The type of every variable.
THEOREM TypeCorrect == Spec => []TypeOK
BY TypeInit, TypeStep, PTL DEF Spec

-----------------------------------------------------------------------------
(* The counts.                                                             *)

Accounts == IsFiniteSet(current) /\ CountsAddUp

LEMMA AccountsInit == Init => Accounts
BY FS_EmptySet DEF Init, Accounts, CountsAddUp

\* A new generation counts nothing and waits for no one.
LEMMA AccountsRenewed ==
    ASSUME NEW s, NewGeneration(s) PROVE Accounts'
BY FS_EmptySet DEF NewGeneration, Accounts, CountsAddUp

LEMMA AccountsStep == TypeOK /\ Accounts /\ [Next]_vars => Accounts'
<1>. SUFFICES ASSUME TypeOK, Accounts, [Next]_vars PROVE Accounts'
  OBVIOUS
<1>. USE DEF Accounts, CountsAddUp
<1>0. Cardinality(current) \in Nat
  BY FS_CardinalityType
<1>1. ASSUME NEW p \in Callers, Admit(p) PROVE Accounts'
  <2>1. p \notin current
    BY <1>1 DEF Admit, TypeOK
  <2>2. IsFiniteSet(current') /\ Cardinality(current') = Cardinality(current) + 1
    BY <1>1, <2>1, FS_AddElement DEF Admit
  <2>3. requests' = Cardinality(current') + successes' + failures'
    BY <1>0, <1>1, <2>2 DEF Admit, TypeOK
  <2>. QED
    BY <2>2, <2>3
<1>2. ASSUME NEW p \in Callers, AdmitRenewed(p) PROVE Accounts'
  <2>1. IsFiniteSet({p}) /\ Cardinality({p}) = 1
    BY FS_Singleton
  <2>2. current' = {p} /\ requests' = 1 /\ successes' = 0 /\ failures' = 0
    BY <1>2 DEF AdmitRenewed
  <2>. QED
    BY <2>1, <2>2
<1>3. ASSUME NEW p \in Callers, Report(p) PROVE Accounts'
  <2>1. CASE \E s \in {"open", "closed"} : NewGeneration(s)
    BY <2>1, AccountsRenewed
  <2>2. CASE /\ current' = current \ {p}
             /\ requests' = requests
             /\ successes' + failures' = successes + failures + 1
    <3>1. p \in current
      BY <1>3 DEF Report
    <3>2. /\ IsFiniteSet(current')
          /\ Cardinality(current') = Cardinality(current) - 1
      BY <2>2, <3>1, FS_RemoveElement
    <3>. QED
      BY <1>0, <1>3, <2>2, <3>2, TypeStep DEF TypeOK
  <2>. QED
    BY <1>3, <2>1, <2>2 DEF Report, Success, Failure, TypeOK
<1>4. ASSUME NEW p \in Callers, ReportRenewed(p) PROVE Accounts'
  BY <1>4, AccountsRenewed DEF ReportRenewed
<1>5. CASE UNCHANGED <<counts, current>>
  BY <1>5 DEF counts
<1>. QED
  BY <1>1, <1>2, <1>3, <1>4, <1>5
  DEF Next, Call, Answer, Reject, ReportStale, Tick, Heal, vars

\* Every admitted call is counted once, in the generation that admitted it.
THEOREM NoResultIsLost == Spec => []CountsAddUp
<1>1. Accounts => CountsAddUp
  BY DEF Accounts
<1>. QED
  BY <1>1, TypeInit, TypeStep, AccountsInit, AccountsStep, PTL DEF Spec

-----------------------------------------------------------------------------
(* Half-open and open.                                                     *)

LEMMA ProbesStep == TypeOK /\ HalfOpenProbes /\ [Next]_vars => HalfOpenProbes'
<1>. SUFFICES ASSUME TypeOK, HalfOpenProbes, [Next]_vars PROVE HalfOpenProbes'
  OBVIOUS
<1>. USE DEF TypeOK, HalfOpenProbes
<1>1. ASSUME NEW p \in Callers, Call(p) PROVE HalfOpenProbes'
  BY <1>1 DEF Call, Admit, AdmitRenewed, Reject, vars, counts
<1>2. ASSUME NEW p \in Callers, Report(p) PROVE HalfOpenProbes'
  BY <1>2 DEF Report, Success, Failure, NewGeneration
<1>3. ASSUME NEW p \in Callers, ReportRenewed(p) PROVE HalfOpenProbes'
  BY <1>3 DEF ReportRenewed, NewGeneration
<1>4. CASE UNCHANGED <<state, counts>>
  BY <1>4 DEF counts
<1>. QED
  BY <1>1, <1>2, <1>3, <1>4
  DEF Next, Answer, ReportStale, Tick, Heal, vars

\* At most MaxRequests calls probe a half-open breaker, and one failure among
\* them ends the half-open period.
THEOREM ProbesAreBounded == Spec => []HalfOpenProbes
<1>1. Init => HalfOpenProbes
  BY DEF Init, HalfOpenProbes
<1>. QED
  BY <1>1, TypeInit, TypeStep, ProbesStep, PTL DEF Spec

\* The breaker closes after exactly MaxRequests probes, all of them successes
\* and none of them outstanding but the last.
LEMMA ClosingStep ==
    ASSUME TypeOK, Accounts, HalfOpenProbes, [Next]_vars,
           state = "half-open", state' = "closed"
    PROVE  /\ requests = MaxRequests /\ successes = MaxRequests - 1
           /\ Cardinality(current) = 1
<1>1. PICK p \in Callers : Report(p)
  BY DEF Next, Call, Answer, Admit, AdmitRenewed, Reject, ReportStale,
      ReportRenewed, Due, Tick, Heal, vars
<1>2. p \in current /\ streak + 1 >= MaxRequests
  BY <1>1 DEF Report, Success, Failure, NewGeneration
<1>3. Cardinality(current) \in Nat /\ Cardinality(current) # 0
  BY <1>2, FS_CardinalityType, FS_EmptySet DEF Accounts
<1>. QED
  BY <1>2, <1>3 DEF TypeOK, Accounts, CountsAddUp, HalfOpenProbes

THEOREM ClosingIsEarned == Spec => EarnedClosing
<1>1. /\ Init => HalfOpenProbes
      /\ TypeOK /\ Accounts /\ HalfOpenProbes /\ [Next]_vars =>
           [state = "half-open" /\ state' = "closed" =>
              /\ requests = MaxRequests /\ successes = MaxRequests - 1
              /\ Cardinality(current) = 1]_vars
  BY ClosingStep DEF Init, HalfOpenProbes
<1>. QED
  BY <1>1, TypeInit, TypeStep, AccountsInit, AccountsStep, ProbesStep, PTL
  DEF Spec, EarnedClosing

\* No request reaches Ollama before an open breaker's timeout is over.
THEOREM OpenFailsFast == Spec => FailFast
<1>1. TypeOK /\ [Next]_vars =>
        [state = "open" /\ remain > 0 => running' \subseteq running]_vars
  BY DEF TypeOK, Next, Call, Answer, Admit, AdmitRenewed, Reject, Report,
      ReportStale, ReportRenewed, Due, Tick, Heal, vars
<1>. QED
  BY <1>1, TypeInit, TypeStep, PTL DEF Spec, FailFast

=============================================================================
