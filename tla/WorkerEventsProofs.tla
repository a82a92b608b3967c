------------------------- MODULE WorkerEventsProofs -------------------------
(* Event-driven supervision, for every set of projects and sessions and every *)
(* gap, span, limit and bound: its types, that a project is never sent more   *)
(* than its ration, that the kill switch stays out of reach below the cap,    *)
(* that events go to the project's own supervisor, and that a claim is        *)
(* reported once per HEAD.                                                    *)
EXTENDS WorkerEvents, FiniteSetTheorems, SequenceTheorems, TLAPS

\* The gate's part of a step: offered is asked, got is accepted.
Asked(a, offered, got) == Admitted(a, offered, got) /\ Record(a, got)

\* There are finitely many types of event.
LEMMA TypesFinite == IsFiniteSet(Types)
<1> DEFINE S1 == {"permission_denied"} \cup {"test_failure"}
           S2 == {"commit"} \cup {"idle"}
           S3 == {Narrated} \cup {Drift}
<1>3. IsFiniteSet(S1) /\ IsFiniteSet(S2) /\ IsFiniteSet(S3)
  BY FS_Singleton, FS_Union
<1>4. IsFiniteSet(S1 \cup S2 \cup S3)
  BY <1>3, FS_Union
<1>1. IsFiniteSet({"permission_denied", "test_failure", "commit", "idle", Narrated, Drift})
  <2>1. S1 \cup S2 \cup S3
          = {"permission_denied", "test_failure", "commit", "idle", Narrated, Drift}
    OBVIOUS
  <2> QED
    BY <1>4, <2>1
<1>2. Types \in SUBSET {"permission_denied", "test_failure", "commit", "idle",
                        Narrated, Drift}
  BY PlainAssumption DEF Types, Detected
<1> QED
  BY <1>1, <1>2, FS_Subset

\* The detector does not derive Drift, and derives Narrated.
LEMMA DriftIsNew == Drift \notin Detected /\ Narrated \in Detected
  BY PlainAssumption DEF Drift, Detected, Narrated

-----------------------------------------------------------------------------
(* Types. *)

\* What the detector derives from a tail is of its own types.
LEMMA DerivedTyped ==
    ASSUME NEW a, NEW shown \in SUBSET Plain, NEW sha
    PROVE  Derived(a, shown, sha) \in SUBSET Detected
  BY DEF Derived, Detected

\* record() stamps what the gate accepted.
LEMMA RecordTypes ==
    ASSUME TypeOK, NEW a \in Anchors, NEW got \in SUBSET Types, Record(a, got)
    PROVE  /\ lastFire' \in [Anchors -> [Types -> Times]]
           /\ window' \in [Anchors -> SUBSET Stamps]
           /\ accepted' \in [Anchors -> SUBSET Stamps]
<1> DEFINE stamps == {[type |-> t, at |-> now] : t \in got}
<1>1. stamps \in SUBSET Stamps
  BY DEF Stamps, Times, TypeOK
<1>2. [t \in Types |-> IF t \in got THEN now ELSE lastFire[a][t]] \in [Types -> Times]
  BY DEF TypeOK, Times
<1>3. lastFire' \in [Anchors -> [Types -> Times]]
  BY <1>2 DEF Record, TypeOK
<1>4. Rolling(a) \in SUBSET Stamps
  BY DEF Rolling, TypeOK
<1>5. window' \in [Anchors -> SUBSET Stamps]
  BY <1>1, <1>4 DEF Record, TypeOK
<1>6. accepted' \in [Anchors -> SUBSET Stamps]
  BY <1>1 DEF Record, TypeOK
<1> QED
  BY <1>3, <1>5, <1>6

\* The router caches and writes to a session or to none.
LEMMA DeliverTypes ==
    ASSUME TypeOK, NEW a \in Anchors, NEW got, Deliver(a, got)
    PROVE  target' \in [Anchors -> Targets] /\ sent' \in [Anchors -> Targets]
<1>1. Resolved(a) \in Targets
  BY DEF Resolved, TypeOK, Targets, Times
<1>2. [session |-> Resolved(a).session, at |-> now] \in Targets
  BY <1>1 DEF Targets, TypeOK, Times
<1>3. target \in [Anchors -> Targets] /\ sent \in [Anchors -> Targets]
  BY DEF TypeOK
<1>4. \/ target' = target \/ target' = [target EXCEPT ![a] = Resolved(a)]
  BY DEF Deliver, routeVars
<1>5. \/ sent' = sent
      \/ sent' = [sent EXCEPT ![a] = [session |-> Resolved(a).session, at |-> now]]
  BY DEF Deliver, routeVars
<1> QED
  BY <1>1, <1>2, <1>3, <1>4, <1>5

\* The claim watch keeps its records.
LEMMA WatchTypes ==
    ASSUME TypeOK, NEW a \in Anchors, NEW sha \in Nat,
           NEW events \in SUBSET Detected, Watch(a, sha, events)
    PROVE  /\ Seeded(a, sha) \in Claims /\ Watched(a, sha) \in Claims
           /\ pending' \in [Anchors -> Claims]
           /\ firedAt' \in [Anchors -> [Detected -> Times]]
           /\ reported' \in [Anchors -> Seq([claim : Times, head : Nat])]
           /\ cleared' \in [Anchors -> SUBSET Times]
<1> DEFINE p == Watched(a, sha)
<1>1. Seeded(a, sha) \in Claims
  BY DEF Seeded, Claims, TypeOK, Times
<1>2. p \in Claims
  BY <1>1 DEF Watched, Claims, NoClaim, Times
<1>3. (IF Overdue(p, sha) THEN [p EXCEPT !.fired = TRUE] ELSE p) \in Claims
  BY <1>2 DEF Claims
<1>4. pending' \in [Anchors -> Claims]
  BY <1>3 DEF Watch, TypeOK
<1>5. [t \in Detected |-> IF t \in events THEN now ELSE firedAt[a][t]] \in [Detected -> Times]
  BY DEF TypeOK, Times
<1>6. firedAt' \in [Anchors -> [Detected -> Times]]
  BY <1>5 DEF Watch, TypeOK
<1>7. [claim |-> p.claim, head |-> sha] \in [claim : Times, head : Nat]
  BY <1>2 DEF Claims
<1>8. Append(reported[a], [claim |-> p.claim, head |-> sha])
        \in Seq([claim : Times, head : Nat])
  <2>1. reported[a] \in Seq([claim : Times, head : Nat])
    BY DEF TypeOK
  <2> HIDE DEF p
  <2> QED
    BY <1>7, <2>1
<1>9. reported' \in [Anchors -> Seq([claim : Times, head : Nat])]
  BY <1>8 DEF Watch, TypeOK
<1>10. Seeded(a, sha).claim \in Times
  BY <1>1 DEF Claims
<1>11. cleared' \in [Anchors -> SUBSET Times]
  BY <1>10 DEF Watch, TypeOK
<1> QED
  BY <1>1, <1>2, <1>4, <1>6, <1>9, <1>11

\* HEAD is read from git or from the cache.
LEMMA HeadTypes ==
    ASSUME TypeOK, NEW a \in Anchors, NEW sha, ReadHead(a, sha)
    PROVE  sha \in Nat /\ headCache' \in [Anchors -> [sha : Nat, at : Times]]
<1>1. CASE UNCHANGED headCache /\ sha = headCache[a].sha
  BY <1>1 DEF TypeOK
<1>2. CASE /\ sha \in {head[a], 0}
           /\ headCache' = [headCache EXCEPT ![a] = [sha |-> sha, at |-> now]]
  <2>1. sha \in Nat /\ [sha |-> sha, at |-> now] \in [sha : Nat, at : Times]
    BY <1>2 DEF TypeOK, Times
  <2> QED
    BY <1>2, <2>1 DEF TypeOK
<1> QED
  BY <1>1, <1>2 DEF ReadHead

\* What processChange does, with what it read, derived and had accepted.
Processed(a, shown, sha, got) ==
    LET events == Derived(a, shown, sha) IN
    /\ ReadHead(a, sha)
    /\ Watch(a, sha, events)
    /\ Asked(a, events, got)
    /\ Deliver(a, got)
    /\ ApplyKillSwitch(a, Trips(a, events, got))
    /\ UNCHANGED <<worldVars, restarts>>

\* The handler asks the gate for some of what it derived, in event mode only.
LEMMA ProcessIsProcessed ==
    ASSUME TypeOK, NEW a \in Anchors, ProcessChange(a)
    PROVE  /\ mode[a] = "event"
           /\ \E shown \in SUBSET Plain, sha \in Nat :
                \E got \in SUBSET Derived(a, shown, sha) : Processed(a, shown, sha, got)
<1>1. PICK shown \in SUBSET Plain, sha \in {head[a], headCache[a].sha, 0} :
        \E got \in SUBSET Derived(a, shown, sha) : Processed(a, shown, sha, got)
  BY DEF ProcessChange, Processed, Asked
<1>2. sha \in Nat
  BY DEF TypeOK
<1> QED
  BY <1>1, <1>2 DEF ProcessChange

\* The types hold before anything happened.
LEMMA InitTypes == Init => TypeOK
<1> SUFFICES ASSUME Init PROVE TypeOK
  OBVIOUS
<1>1. NoClaim \in Claims /\ NoTarget \in Targets /\ NoHead \in [sha : Nat, at : Times]
  BY DEF NoClaim, Claims, NoTarget, Targets, NoHead, Times
<1> QED
  BY <1>1 DEF Init, TypeOK, Times

\* Every step keeps the types.
LEMMA StepTypes == TypeOK /\ [Next]_vars => TypeOK'
<1> SUFFICES ASSUME TypeOK, [Next]_vars PROVE TypeOK'
  OBVIOUS
<1> USE DEF Times
<1>1. CASE Tick
  <2>1. now' \in Nat \ {0} /\ heldAt' \in [Anchors -> [Sessions -> Times]]
    BY <1>1 DEF Tick, TypeOK
  <2>2. UNCHANGED <<claimed, head, supervisor, tailVars, gateVars, routeVars, mode, restarts>>
    BY <1>1 DEF Tick
  <2> QED
    BY <2>1, <2>2 DEF TypeOK, tailVars, gateVars, routeVars
<1>2. ASSUME NEW a \in Anchors, WriteClaim(a) \/ ScrollOut(a) \/ GitCommit(a)
      PROVE  TypeOK'
  <2>1. claimed' \in [Anchors -> Times] /\ head' \in [Anchors -> Nat \ {0}]
    <3>1. CASE WriteClaim(a)
      BY <3>1 DEF WriteClaim, TypeOK
    <3>2. CASE ScrollOut(a)
      BY <3>2 DEF ScrollOut, TypeOK
    <3>3. CASE GitCommit(a)
      <4>1. head[a] + 1 \in Nat \ {0}
        BY DEF TypeOK
      <4> QED
        BY <3>3, <4>1 DEF GitCommit, TypeOK
    <3> QED
      BY <1>2, <3>1, <3>2, <3>3
  <2>2. UNCHANGED <<now, supervisor, heldAt, tailVars, gateVars, routeVars, mode, restarts>>
    BY <1>2 DEF WriteClaim, ScrollOut, GitCommit
  <2> QED
    BY <2>1, <2>2 DEF TypeOK, tailVars, gateVars, routeVars
<1>3. ASSUME NEW a \in Anchors, NEW s \in Sessions \cup {None}, BindSupervisor(a, s)
      PROVE  TypeOK'
  BY <1>3 DEF BindSupervisor, TypeOK, tailVars, gateVars, routeVars
<1>4. ASSUME NEW a \in Anchors, NEW m \in {"event", "polling"}, SetMode(a, m)
      PROVE  TypeOK'
  BY <1>4 DEF SetMode, TypeOK, worldVars, tailVars, gateVars, routeVars
<1>5. ASSUME NEW a \in Anchors, ProcessChange(a) PROVE TypeOK'
  <2>1. PICK shown \in SUBSET Plain, sha \in Nat :
          \E got \in SUBSET Derived(a, shown, sha) : Processed(a, shown, sha, got)
    BY <1>5, ProcessIsProcessed
  <2>2. PICK got \in SUBSET Derived(a, shown, sha) : Processed(a, shown, sha, got)
    BY <2>1
  <2>3. Derived(a, shown, sha) \in SUBSET Detected /\ got \in SUBSET Types
    BY DerivedTyped DEF Types
  <2>4. headCache' \in [Anchors -> [sha : Nat, at : Times]]
    BY <2>2, HeadTypes DEF Processed
  <2>5. /\ pending' \in [Anchors -> Claims]
        /\ firedAt' \in [Anchors -> [Detected -> Times]]
        /\ reported' \in [Anchors -> Seq([claim : Times, head : Nat])]
        /\ cleared' \in [Anchors -> SUBSET Times]
    <3>1. Watch(a, sha, Derived(a, shown, sha))
      BY <2>2 DEF Processed
    <3> QED
      BY <2>3, <3>1, WatchTypes
  <2>6. /\ lastFire' \in [Anchors -> [Types -> Times]]
        /\ window' \in [Anchors -> SUBSET Stamps]
        /\ accepted' \in [Anchors -> SUBSET Stamps]
    BY <2>2, <2>3, RecordTypes DEF Processed, Asked
  <2>7. target' \in [Anchors -> Targets] /\ sent' \in [Anchors -> Targets]
    BY <2>2, DeliverTypes DEF Processed
  <2>8. mode' \in [Anchors -> {"event", "polling"}]
    BY <2>2 DEF Processed, ApplyKillSwitch, TypeOK
  <2>9. UNCHANGED <<worldVars, restarts>>
    BY <2>2 DEF Processed
  <2> QED
    BY <2>4, <2>5, <2>6, <2>7, <2>8, <2>9 DEF TypeOK, worldVars
<1>6. ASSUME NEW a \in Anchors, ExpectationDrift(a) PROVE TypeOK'
  <2>1. PICK got \in SUBSET {Drift} : Record(a, got)
    BY <1>6 DEF ExpectationDrift
  <2>2. got \in SUBSET Types
    BY DEF Types
  <2>3. /\ lastFire' \in [Anchors -> [Types -> Times]]
        /\ window' \in [Anchors -> SUBSET Stamps]
        /\ accepted' \in [Anchors -> SUBSET Stamps]
    BY <2>1, <2>2, RecordTypes
  <2> QED
    BY <1>6, <2>3 DEF ExpectationDrift, TypeOK, worldVars, tailVars, routeVars
<1>7. CASE Restart
  <2>1. NoClaim \in Claims /\ NoTarget \in Targets /\ NoHead \in [sha : Nat, at : Times]
    BY DEF NoClaim, Claims, NoTarget, Targets, NoHead
  <2> QED
    BY <1>7, <2>1 DEF Restart, TypeOK, worldVars
<1>8. CASE UNCHANGED vars
  BY <1>8 DEF vars, TypeOK, worldVars, tailVars, gateVars, routeVars
<1> QED
  BY <1>1, <1>2, <1>3, <1>4, <1>5, <1>6, <1>7, <1>8 DEF Next

\* Every variable keeps its type, for every value of the constants.
THEOREM TypeCorrect == Spec => []TypeOK
<1>1. TypeOK /\ [Next]_vars => TypeOK'
  BY StepTypes
<1> QED
  BY InitTypes, <1>1, PTL DEF Spec

-----------------------------------------------------------------------------
(* The gate.  An accepted event stays in the window for an Hour, wherever the *)
(* window is pruned, and lastFire never falls behind one.                     *)

Remembered(a) ==
    /\ IsFiniteSet(window[a]) /\ IsFiniteSet(accepted[a])
    /\ \A e \in accepted[a] :
         /\ e.at <= now
         /\ now < e.at + Hour => e \in window[a]
         /\ lastFire[a][e.type] # 0 /\ e.at <= lastFire[a][e.type]

Since(a, e) == {f \in accepted[a] : e.at <= f.at /\ f.at < e.at + Hour}

GateInv ==
    \A a \in Anchors :
        /\ Remembered(a)
        /\ \A e \in accepted[a] : Cardinality(Since(a, e)) <= Cap
        /\ \A e, f \in accepted[a] :
             e.type = f.type /\ e.at < f.at => f.at - e.at >= Gap

\* The window counts finitely many, and of them no fewer in an hour than in ten
\* minutes.
LEMMA RollingFinite ==
    ASSUME TypeOK, GateInv, NEW a \in Anchors
    PROVE  /\ IsFiniteSet(Rolling(a)) /\ Cardinality(Rolling(a)) \in Nat
           /\ IsFiniteSet(Recent(a)) /\ Cardinality(Recent(a)) \in Nat
           /\ Cardinality(Recent(a)) <= Cardinality(Rolling(a))
<1>1. IsFiniteSet(window[a]) /\ Rolling(a) \in SUBSET window[a]
  BY DEF GateInv, Remembered, Rolling
<1>2. IsFiniteSet(Rolling(a)) /\ Recent(a) \in SUBSET Rolling(a)
  BY <1>1, FS_Subset DEF Recent
<1> QED
  BY <1>2, FS_Subset, FS_CardinalityType

\* What is accepted fits under the cap.
LEMMA AcceptedFit ==
    ASSUME TypeOK, GateInv, NEW a \in Anchors, NEW offered \in SUBSET Types,
           NEW got \in SUBSET offered, Admitted(a, offered, got), got # {}
    PROVE  LET stamps == {[type |-> t, at |-> now] : t \in got} IN
           /\ IsFiniteSet(stamps)
           /\ IsFiniteSet(Rolling(a) \cup stamps)
           /\ Cardinality(Rolling(a) \cup stamps) <= Cap
<1> DEFINE stamps == {[type |-> t, at |-> now] : t \in got}
           stamp == [t \in got |-> [type |-> t, at |-> now]]
           k == Cardinality(got)
           r == Cardinality(Rolling(a))
<1>1. IsFiniteSet(got) /\ k \in Nat
  BY TypesFinite, FS_Subset, FS_CardinalityType
<1>2. stamp \in Surjection(got, stamps)
  BY DEF Surjection
<1>3. IsFiniteSet(stamps) /\ Cardinality(stamps) <= k /\ Cardinality(stamps) \in Nat
  BY <1>1, <1>2, FS_Surjection, FS_CardinalityType
<1>4. IsFiniteSet(Rolling(a)) /\ r \in Nat
  BY RollingFinite
<1>5. /\ IsFiniteSet(Rolling(a) \cup stamps)
      /\ Cardinality(Rolling(a) \cup stamps) <= r + k
  <2>1. IsFiniteSet(Rolling(a) \cap stamps) /\ Cardinality(Rolling(a) \cap stamps) \in Nat
    <3>1. Rolling(a) \cap stamps \in SUBSET stamps
      OBVIOUS
    <3> QED
      BY <1>3, <3>1, FS_Subset, FS_CardinalityType
  <2>2. Cardinality(Rolling(a) \cup stamps)
          = r + Cardinality(stamps) - Cardinality(Rolling(a) \cap stamps)
    BY <1>3, <1>4, FS_Union
  <2> QED
    BY <1>1, <1>3, <1>4, <2>1, <2>2, FS_Union
<1>6. k # 0
  BY <1>1, FS_EmptySet
<1>7. k - 1 \in 0..k /\ k - 1 < k
  BY <1>1, <1>6
<1>8. ~HourFull(a, k - 1)
  BY <1>7 DEF Admitted
<1>9. r + k <= Cap
  BY <1>1, <1>4, <1>6, <1>8, LimitsAssumption DEF HourFull
<1>10. Cardinality(Rolling(a) \cup stamps) \in Nat
  BY <1>5, FS_CardinalityType
<1> QED
  BY <1>1, <1>3, <1>4, <1>5, <1>9, <1>10, LimitsAssumption

\* Whoever asks the gate, what it accepts fits under the cap and the gap.
LEMMA AskKeepsRation ==
    ASSUME TypeOK, GateInv, NEW a \in Anchors, NEW offered \in SUBSET Types,
           NEW got \in SUBSET offered, Asked(a, offered, got), now' = now
    PROVE  GateInv'
<1> DEFINE stamps == {[type |-> t, at |-> now] : t \in got}
<1>1. CASE got = {}
  <2>1. lastFire' = lastFire /\ accepted' = accepted /\ window' = window
    BY <1>1 DEF Asked, Record, TypeOK
  <2> QED
    BY <2>1 DEF GateInv, Remembered, Since
<1>2. CASE got # {}
  <2>1. SUFFICES ASSUME NEW b \in Anchors
                 PROVE  /\ Remembered(b)'
                        /\ \A e \in accepted'[b] : Cardinality(Since(b, e)') <= Cap
                        /\ \A e, f \in accepted'[b] :
                             e.type = f.type /\ e.at < f.at => f.at - e.at >= Gap
    BY DEF GateInv, Remembered, Since
  <2>2. CASE b # a
    <3>1. lastFire'[b] = lastFire[b] /\ window'[b] = window[b] /\ accepted'[b] = accepted[b]
      BY <2>2 DEF Asked, Record, TypeOK
    <3> QED
      BY <3>1 DEF GateInv, Remembered, Since
  <2>3. CASE b = a
    <3>1. /\ IsFiniteSet(stamps) /\ IsFiniteSet(Rolling(a) \cup stamps)
          /\ Cardinality(Rolling(a) \cup stamps) <= Cap
      BY <1>2, AcceptedFit DEF Asked
    <3>2. /\ window'[a] = Rolling(a) \cup stamps
          /\ accepted'[a] = accepted[a] \cup stamps
          /\ lastFire'[a] = [t \in Types |-> IF t \in got THEN now ELSE lastFire[a][t]]
      BY <1>2 DEF Asked, Record, TypeOK
    <3>3. /\ now \in Nat \ {0}
          /\ \A e \in accepted[a] : e \in Stamps /\ e.type \in Types /\ e.at \in Nat
          /\ \A e \in stamps : e.type \in got /\ e.type \in Types /\ e.at = now
          /\ \A t \in Types : lastFire[a][t] \in Nat
      BY DEF TypeOK, Stamps, Times
    <3>4. /\ IsFiniteSet(accepted[a])
          /\ \A e \in accepted[a] :
               /\ e.at <= now
               /\ now < e.at + Hour => e \in window[a]
               /\ lastFire[a][e.type] # 0 /\ e.at <= lastFire[a][e.type]
      BY DEF GateInv, Remembered
    <3>5. Hour \in Nat \ {0} /\ Gap \in Nat /\ Cap \in Nat
      BY TimesAssumption, LimitsAssumption
    <3> HIDE DEF stamps
    <3>6. IsFiniteSet(accepted'[a])
      <4>1. IsFiniteSet(accepted[a] \cup stamps)
        BY <3>1, <3>4, FS_Union
      <4> QED
        BY <4>1, <3>2
    <3>7. \A e \in accepted[a] : now < e.at + Hour => e \in Rolling(a)
      BY <3>3, <3>4, <3>5 DEF Rolling
    <3>8. Remembered(a)'
      <4>1. ASSUME NEW e \in accepted'[a]
            PROVE  /\ e.at <= now
                   /\ now < e.at + Hour => e \in window'[a]
                   /\ lastFire'[a][e.type] # 0 /\ e.at <= lastFire'[a][e.type]
        <5>1. CASE e \in accepted[a]
          BY <5>1, <3>2, <3>3, <3>4, <3>7
        <5>2. CASE e \in stamps
          BY <5>2, <3>2, <3>3
        <5> QED
          BY <5>1, <5>2, <3>2
      <4>2. IsFiniteSet(window'[a])
        BY <3>1, <3>2
      <4> QED
        BY <4>1, <4>2, <3>6 DEF Remembered
    <3>9. ASSUME NEW e \in accepted'[a] PROVE Cardinality(Since(a, e)') <= Cap
      <4>1. CASE e.at + Hour <= now
        <5>1. e \in accepted[a]
          BY <4>1, <3>2, <3>3, <3>5
        <5>2. Since(a, e)' = Since(a, e)
          BY <4>1, <5>1, <3>2, <3>3, <3>5 DEF Since
        <5> QED
          BY <5>1, <5>2 DEF GateInv
      <4>2. CASE now < e.at + Hour
        <5>1. Since(a, e)' \in SUBSET (Rolling(a) \cup stamps)
          <6>1. ASSUME NEW f \in accepted[a], e.at <= f.at PROVE f \in Rolling(a)
            <7>1. e.at \in Nat /\ f.at \in Nat
              BY <3>2, <3>3
            <7>2. now < f.at + Hour
              BY <4>2, <6>1, <7>1, <3>3, <3>5
            <7> QED
              BY <7>2, <3>7
          <6> QED
            BY <6>1, <3>2 DEF Since
        <5>2. /\ Cardinality(Since(a, e)') <= Cardinality(Rolling(a) \cup stamps)
              /\ Cardinality(Since(a, e)') \in Nat
              /\ Cardinality(Rolling(a) \cup stamps) \in Nat
          BY <5>1, <3>1, FS_Subset, FS_CardinalityType
        <5> QED
          BY <5>2, <3>1, <3>5
      <4>3. e.at \in Nat
        BY <3>2, <3>3
      <4> QED
        BY <4>1, <4>2, <4>3, <3>3, <3>5
    <3>10. ASSUME NEW e \in accepted'[a], NEW f \in accepted'[a],
                  e.type = f.type, e.at < f.at
           PROVE  f.at - e.at >= Gap
      <4>1. CASE e \in accepted[a] /\ f \in accepted[a]
        BY <4>1, <3>10 DEF GateInv
      <4>2. CASE e \in accepted[a] /\ f \in stamps
        <5>1. f.type \in PassGap(a, offered) /\ f.at = now
          BY <4>2, <3>3 DEF Asked, Admitted
        <5>2. now - lastFire[a][f.type] >= Gap
          BY <4>2, <5>1, <3>4, <3>10 DEF PassGap
        <5>3. lastFire[a][f.type] \in Nat /\ e.at <= lastFire[a][f.type]
          BY <4>2, <3>3, <3>4, <3>10
        <5> QED
          BY <4>2, <5>1, <5>2, <5>3, <3>3, <3>5
      <4>3. CASE e \in stamps
        BY <4>3, <3>2, <3>3, <3>4, <3>10
      <4> QED
        BY <4>1, <4>2, <4>3, <3>2
    <3> QED
      BY <2>3, <3>8, <3>9, <3>10
  <2> QED
    BY <2>2, <2>3
<1> QED
  BY <1>1, <1>2

\* An empty window fits.
LEMMA GateInit == Init => GateInv
<1>1. /\ IsFiniteSet({})
      /\ Cardinality({}) = 0
  BY FS_EmptySet
<1> QED
  BY <1>1 DEF Init, GateInv, Remembered

\* Every step keeps the ration, time and restarts included.
LEMMA GateStep == TypeOK /\ GateInv /\ [Next]_vars => GateInv'
<1> SUFFICES ASSUME TypeOK, GateInv, [Next]_vars PROVE GateInv'
  OBVIOUS
<1>1. CASE Tick
  <2>1. /\ UNCHANGED <<lastFire, window, accepted>> /\ now' = now + 1
        /\ now \in Nat
        /\ Hour \in Nat
    BY <1>1, TimesAssumption DEF Tick, gateVars, TypeOK
  <2>2. \A a \in Anchors : \A e \in accepted[a] : e.at \in Nat
    BY DEF TypeOK, Stamps, Times
  <2> QED
    BY <2>1, <2>2 DEF GateInv, Remembered, Since
<1>2. CASE UNCHANGED <<lastFire, window, accepted, now>>
  BY <1>2 DEF GateInv, Remembered, Since
<1>3. ASSUME NEW a \in Anchors,
             \/ WriteClaim(a) \/ ScrollOut(a) \/ GitCommit(a)
             \/ \E s \in Sessions \cup {None} : BindSupervisor(a, s)
             \/ \E m \in {"event", "polling"} : SetMode(a, m)
      PROVE  GateInv'
  BY <1>3, <1>2 DEF WriteClaim, ScrollOut, GitCommit, BindSupervisor, SetMode,
                    gateVars, worldVars
<1>4. ASSUME NEW a \in Anchors, ProcessChange(a) PROVE GateInv'
  <2>1. PICK shown \in SUBSET Plain, sha \in Nat :
          \E got \in SUBSET Derived(a, shown, sha) : Processed(a, shown, sha, got)
    BY <1>4, ProcessIsProcessed
  <2>2. PICK got \in SUBSET Derived(a, shown, sha) : Processed(a, shown, sha, got)
    BY <2>1
  <2>3. Derived(a, shown, sha) \in SUBSET Types
    BY DerivedTyped DEF Types
  <2> QED
    BY <2>2, <2>3, AskKeepsRation DEF Processed, worldVars
<1>5. ASSUME NEW a \in Anchors, ExpectationDrift(a) PROVE GateInv'
  <2>1. PICK got \in SUBSET {Drift} : Asked(a, {Drift}, got)
    BY <1>5 DEF ExpectationDrift, Asked
  <2>2. {Drift} \in SUBSET Types /\ now' = now
    BY <1>5 DEF Types, ExpectationDrift, worldVars
  <2> QED
    BY <2>1, <2>2, AskKeepsRation
<1>6. CASE Restart
  <2>1. /\ IsFiniteSet({})
        /\ \A a \in Anchors : window'[a] = {} /\ accepted'[a] = {}
    BY <1>6, FS_EmptySet DEF Restart
  <2> QED
    BY <2>1 DEF GateInv, Remembered
<1>7. CASE UNCHANGED vars
  BY <1>7, <1>2 DEF vars, gateVars, worldVars
<1> QED
  BY <1>1, <1>3, <1>4, <1>5, <1>6, <1>7 DEF Next

\* A project gets no more than Cap events in any span of Hour and two events of
\* one type are Gap apart, whoever asks the gate, in whatever order.
THEOREM EventsRationed == Spec => []Rationed
<1>1. TypeOK /\ GateInv /\ [Next]_vars => (TypeOK /\ GateInv)'
  BY StepTypes, GateStep
<1>2. Init => TypeOK /\ GateInv
  BY InitTypes, GateInit
<1>3. GateInv => Rationed
  BY DEF GateInv, Rationed, HourlyCap, TypeGap, Since
<1> QED
  BY <1>1, <1>2, <1>3, PTL DEF Spec

-----------------------------------------------------------------------------
(* The kill switch.                                                           *)

\* Whatever is refused is refused by the cap, which is asked first.
LEMMA NeverTrips ==
    ASSUME TypeOK, GateInv, Cap <= KillLimit, NEW a \in Anchors,
           NEW offered \in SUBSET Types, NEW got \in SUBSET offered,
           Admitted(a, offered, got)
    PROVE  ~Trips(a, offered, got)
<1> DEFINE k == Cardinality(got)
<1>1. k \in Nat
  BY TypesFinite, FS_Subset, FS_CardinalityType
<1>2. Runaway(a, k) => HourFull(a, k)
  BY <1>1, RollingFinite, LimitsAssumption DEF Runaway, HourFull
<1> QED
  BY <1>2 DEF Trips, Admitted

\* No handler flips its project to polling while the cap is the lower limit.
LEMMA ModeKept ==
    ASSUME TypeOK, GateInv, Cap <= KillLimit, NEW a \in Anchors, ProcessChange(a)
    PROVE  mode' = mode
<1>1. PICK shown \in SUBSET Plain, sha \in Nat :
        \E got \in SUBSET Derived(a, shown, sha) : Processed(a, shown, sha, got)
  BY ProcessIsProcessed
<1>2. PICK got \in SUBSET Derived(a, shown, sha) : Processed(a, shown, sha, got)
  BY <1>1
<1>3. Derived(a, shown, sha) \in SUBSET Types
  BY DerivedTyped DEF Types
<1>4. ~Trips(a, Derived(a, shown, sha), got)
  BY <1>2, <1>3, NeverTrips DEF Processed, Asked
<1> QED
  BY <1>2, <1>4 DEF Processed, ApplyKillSwitch

\* With the cap no higher than the limit, as the defaults have it, the kill
\* switch takes no project out of event mode.
THEOREM KillSwitchHidden == Spec => CapHidesKillSwitch
<1>1. TypeOK /\ GateInv /\ [Next]_vars => (TypeOK /\ GateInv)'
  BY StepTypes, GateStep
<1>2. Init => TypeOK /\ GateInv
  BY InitTypes, GateInit
<1>3. TypeOK /\ GateInv /\ [Next]_vars =>
        [Cap <= KillLimit =>
           \A a \in Anchors : ProcessChange(a) => mode'[a] = mode[a]]_vars
  BY ModeKept
<1> QED
  BY <1>1, <1>2, <1>3, PTL DEF Spec, CapHidesKillSwitch

-----------------------------------------------------------------------------
(* The router.  A target in the cache supervised its project when it was      *)
(* resolved.                                                                  *)

TargetsHeld ==
    \A a \in Anchors :
        /\ \A s \in Sessions : supervisor[a] = s => heldAt[a][s] = now
        /\ \A s \in Sessions : heldAt[a][s] <= now
        /\ target[a].at <= now
        /\ target[a].at # 0 /\ target[a].session # None =>
             target[a].at <= heldAt[a][target[a].session]

SentToSupervisor ==
    \A a \in Anchors : sent'[a] # sent[a] /\ sent'[a].session # None =>
        \/ supervisor[a] = sent'[a].session
        \/ now - heldAt[a][sent'[a].session] < TargetTtl

\* A delivery goes to the session the router holds, which supervised when resolved.
LEMMA DeliveryHeld ==
    ASSUME TypeOK, TargetsHeld, NEW a \in Anchors, NEW got, Deliver(a, got),
           UNCHANGED worldVars
    PROVE  TargetsHeld' /\ SentToSupervisor
<1>1. /\ now \in Nat /\ TargetTtl \in Nat
      /\ \A b \in Anchors : /\ target[b].session \in Sessions \cup {None}
                            /\ target[b].at \in Nat
                            /\ supervisor[b] \in Sessions \cup {None}
                            /\ \A s \in Sessions : heldAt[b][s] \in Nat
  BY TimesAssumption DEF TypeOK, Targets, Times
<1>2. /\ Resolved(a).at <= now
      /\ Resolved(a).session # None =>
           /\ Resolved(a).session \in Sessions
           /\ Resolved(a).at <= heldAt[a][Resolved(a).session]
           /\ \/ supervisor[a] = Resolved(a).session
              \/ now - heldAt[a][Resolved(a).session] < TargetTtl
  <2>1. CASE target[a].at # 0 /\ now - target[a].at < TargetTtl
    <3>1. Resolved(a) = target[a]
      BY <2>1 DEF Resolved
    <3> QED
      BY <2>1, <3>1, <1>1 DEF TargetsHeld
  <2>2. CASE ~(target[a].at # 0 /\ now - target[a].at < TargetTtl)
    <3>1. Resolved(a).session = supervisor[a] /\ Resolved(a).at = now
      BY <2>2 DEF Resolved
    <3> QED
      BY <3>1, <1>1 DEF TargetsHeld
  <2> QED
    BY <2>1, <2>2
<1>3. \A b \in Anchors : target'[b] = target[b] \/ (b = a /\ target'[b] = Resolved(a))
  BY DEF Deliver, routeVars, TypeOK
<1>4. TargetsHeld'
  BY <1>1, <1>2, <1>3 DEF TargetsHeld, worldVars
<1>5. \A b \in Anchors : sent'[b] # sent[b] =>
        b = a /\ sent'[b].session = Resolved(a).session
  BY DEF Deliver, routeVars, TypeOK
<1> QED
  BY <1>2, <1>4, <1>5 DEF SentToSupervisor

\* Every step keeps the cached sessions honest, and so what is sent.
LEMMA TargetsStep ==
    TypeOK /\ TargetsHeld /\ [Next]_vars => TargetsHeld' /\ SentToSupervisor
<1> SUFFICES ASSUME TypeOK, TargetsHeld, [Next]_vars
             PROVE  TargetsHeld' /\ SentToSupervisor
  OBVIOUS
<1>0. /\ now \in Nat
      /\ \A b \in Anchors : /\ target[b].session \in Sessions \cup {None}
                            /\ target[b].at \in Nat
                            /\ supervisor[b] \in Sessions \cup {None}
                            /\ heldAt[b] \in [Sessions -> Nat]
  BY DEF TypeOK, Targets, Times
<1>1. CASE Tick
  <2>1. /\ now' = now + 1 /\ UNCHANGED <<supervisor, target, sent>>
        /\ \A a \in Anchors : \A s \in Sessions :
             heldAt'[a][s] = IF supervisor[a] = s THEN now + 1 ELSE heldAt[a][s]
    BY <1>1 DEF Tick, routeVars
  <2> QED
    BY <2>1, <1>0 DEF TargetsHeld, SentToSupervisor
<1>2. CASE UNCHANGED <<now, supervisor, heldAt, target, sent>>
  BY <1>2 DEF TargetsHeld, SentToSupervisor
<1>3. ASSUME NEW a \in Anchors,
             \/ WriteClaim(a) \/ ScrollOut(a) \/ GitCommit(a) \/ ExpectationDrift(a)
             \/ \E m \in {"event", "polling"} : SetMode(a, m)
      PROVE  TargetsHeld' /\ SentToSupervisor
  BY <1>3, <1>2 DEF WriteClaim, ScrollOut, GitCommit, ExpectationDrift, SetMode,
                    routeVars, worldVars
<1>4. ASSUME NEW a \in Anchors, NEW s \in Sessions \cup {None}, BindSupervisor(a, s)
      PROVE  TargetsHeld' /\ SentToSupervisor
  <2>1. UNCHANGED <<now, target, sent>>
    BY <1>4 DEF BindSupervisor, routeVars
  <2>2. /\ supervisor' = [supervisor EXCEPT ![a] = s]
        /\ \A b \in Anchors : \A r \in Sessions :
             heldAt'[b][r] = IF b = a /\ r = s THEN now ELSE heldAt[b][r]
    BY <1>4 DEF BindSupervisor, TypeOK
  <2>3. \A b \in Anchors : supervisor'[b] = IF b = a THEN s ELSE supervisor[b]
    BY <2>2 DEF TypeOK
  <2> QED
    BY <2>1, <2>2, <2>3, <1>0 DEF TargetsHeld, SentToSupervisor
<1>5. ASSUME NEW a \in Anchors, ProcessChange(a)
      PROVE  TargetsHeld' /\ SentToSupervisor
  <2>1. PICK shown \in SUBSET Plain, sha \in Nat :
          \E got \in SUBSET Derived(a, shown, sha) : Processed(a, shown, sha, got)
    BY <1>5, ProcessIsProcessed
  <2>2. PICK got \in SUBSET Derived(a, shown, sha) : Processed(a, shown, sha, got)
    BY <2>1
  <2> QED
    BY <2>2, DeliveryHeld DEF Processed
<1>6. CASE Restart
  <2>1. /\ UNCHANGED <<now, supervisor, heldAt>>
        /\ \A a \in Anchors : target'[a].at = 0 /\ sent'[a].session = None
    BY <1>6 DEF Restart, worldVars, NoTarget
  <2> QED
    BY <2>1, <1>0 DEF TargetsHeld, SentToSupervisor
<1>7. CASE UNCHANGED vars
  BY <1>7, <1>2 DEF vars, worldVars, routeVars
<1> QED
  BY <1>1, <1>3, <1>4, <1>5, <1>6, <1>7 DEF Next

\* Nothing is cached.
LEMMA TargetsInit == Init => TargetsHeld
  BY NoneAssumption DEF Init, TargetsHeld, NoTarget

\* An event goes to a session that supervises its project now, or did less than
\* TargetTtl ago.
THEOREM ToItsSupervisor == Spec => DeliveredToSupervisor
<1>1. TypeOK /\ TargetsHeld /\ [Next]_vars => (TypeOK /\ TargetsHeld)'
  BY StepTypes, TargetsStep
<1>2. Init => TypeOK /\ TargetsHeld
  BY InitTypes, TargetsInit
<1>3. TypeOK /\ TargetsHeld /\ [Next]_vars =>
        [\A a \in Anchors : sent'[a] # sent[a] /\ sent'[a].session # None =>
            \/ supervisor[a] = sent'[a].session
            \/ now - heldAt[a][sent'[a].session] < TargetTtl]_vars
  BY TargetsStep DEF SentToSupervisor
<1> QED
  BY <1>1, <1>2, <1>3, PTL DEF Spec, DeliveredToSupervisor

-----------------------------------------------------------------------------
(* The watch on a claim.  HEAD, as it is read, only grows; a claim is dropped *)
(* only when it grew, and one that is watched again is watched from a HEAD    *)
(* above every one reported before.                                           *)

Told(a) == {reported[a][i] : i \in 1..Len(reported[a])}

HeadsGrow(a) ==
    /\ headCache[a].sha <= head[a]
    /\ pending[a].head <= head[a]
    /\ headCache[a].sha # 0 => pending[a].head <= headCache[a].sha

ClaimsGrow(a) ==
    /\ claimed[a] <= now /\ pending[a].claim <= now
    /\ claimed[a] # 0 => pending[a].claim <= claimed[a]

ToldBefore(a, r) ==
    /\ r.claim <= now
    /\ r.head <= head[a]
    /\ headCache[a].sha # 0 => r.head <= headCache[a].sha
    /\ claimed[a] # 0 => r.claim <= claimed[a]

NotToldYet(a, r) ==
    /\ pending[a].claim # 0 => r.claim <= pending[a].claim
    /\ pending[a].claim = 0 =>
         r.head < head[a] /\ (headCache[a].sha # 0 => r.head < headCache[a].sha)
    /\ pending[a].claim # 0 /\ pending[a].head # 0 =>
         /\ r.head <= pending[a].head
         /\ ~pending[a].fired /\ r.claim = pending[a].claim => r.head < pending[a].head

Watching(a) ==
    /\ HeadsGrow(a) /\ ClaimsGrow(a)
    /\ \A r \in Told(a) : ToldBefore(a, r) /\ NotToldYet(a, r)
    /\ \A i, j \in 1..Len(reported[a]) : reported[a][i] = reported[a][j] => i = j

ReportInv == \A a \in Anchors : Watching(a)

\* The reports, claims and reads of HEAD are numbers.
LEMMA ToldTyped ==
    ASSUME TypeOK, NEW a \in Anchors
    PROVE  /\ \A r \in Told(a) : r.claim \in Nat /\ r.head \in Nat
           /\ claimed[a] \in Nat /\ head[a] \in Nat \ {0} /\ now \in Nat \ {0}
           /\ headCache[a].sha \in Nat
           /\ pending[a].claim \in Nat /\ pending[a].head \in Nat
           /\ pending[a].fired \in BOOLEAN
<1>1. reported[a] \in Seq([claim : Nat, head : Nat])
  BY DEF TypeOK, Times
<1>2. \A i \in 1..Len(reported[a]) : reported[a][i] \in [claim : Nat, head : Nat]
  BY <1>1, ElementOfSeq
<1> QED
  BY <1>2 DEF TypeOK, Times, Claims, Told

\* The reading of HEAD is the cache's from then on, and no older than any before.
LEMMA ReadHeadGrows ==
    ASSUME TypeOK, ReportInv, NEW a \in Anchors, NEW sha, ReadHead(a, sha)
    PROVE  /\ sha \in Nat /\ sha <= head[a]
           /\ headCache'[a].sha = sha
           /\ sha # 0 => pending[a].head <= sha
           /\ sha # 0 => \A r \in Told(a) :
                r.head <= sha /\ (pending[a].claim = 0 => r.head < sha)
<1>1. /\ Watching(a)
      /\ headCache[a].sha \in Nat /\ head[a] \in Nat
  BY ToldTyped DEF ReportInv
<1>2. CASE sha = headCache[a].sha /\ UNCHANGED headCache
  BY <1>1, <1>2 DEF Watching, HeadsGrow, ToldBefore, NotToldYet
<1>3. CASE /\ sha \in {head[a], 0}
           /\ headCache' = [headCache EXCEPT ![a] = [sha |-> sha, at |-> now]]
  <2>1. headCache'[a].sha = sha
    BY <1>3 DEF TypeOK
  <2> QED
    BY <1>1, <1>3, <2>1 DEF Watching, HeadsGrow, ToldBefore, NotToldYet
<1> QED
  BY <1>2, <1>3 DEF ReadHead

\* The claim watch reports a claim for a HEAD higher than any it reported it for.
LEMMA WatchKeepsReports ==
    ASSUME TypeOK, ReportInv, NEW a \in Anchors, NEW shown \in SUBSET Plain,
           NEW sha, ReadHead(a, sha), Watch(a, sha, Derived(a, shown, sha)),
           UNCHANGED worldVars
    PROVE  ReportInv'
<1> DEFINE q == Seeded(a, sha)
           p == Watched(a, sha)
           events == Derived(a, shown, sha)
           new == [claim |-> p.claim, head |-> sha]
<1>1. /\ sha \in Nat /\ sha <= head[a]
      /\ headCache'[a].sha = sha
      /\ sha # 0 => pending[a].head <= sha
      /\ sha # 0 => \A r \in Told(a) :
           r.head <= sha /\ (pending[a].claim = 0 => r.head < sha)
  BY ReadHeadGrows
<1>2. events \in SUBSET Detected
  BY DerivedTyped
<1>3. q \in Claims /\ p \in Claims
  BY <1>1, <1>2, WatchTypes
<1>4. /\ \A r \in Told(a) : r.claim \in Nat /\ r.head \in Nat
      /\ claimed[a] \in Nat /\ head[a] \in Nat \ {0} /\ now \in Nat \ {0}
      /\ headCache[a].sha \in Nat
      /\ pending[a].claim \in Nat /\ pending[a].head \in Nat
      /\ pending[a].fired \in BOOLEAN
      /\ q.claim \in Nat /\ q.head \in Nat /\ q.fired \in BOOLEAN
      /\ p.claim \in Nat /\ p.head \in Nat /\ p.fired \in BOOLEAN
  BY <1>3, ToldTyped DEF Claims, Times
<1>5. Watching(a)
  BY DEF ReportInv
\* What is watched after seeding.
<1>6. /\ q.head <= head[a] /\ (sha # 0 => q.head <= sha)
      /\ q.claim <= now /\ (claimed[a] # 0 => q.claim <= claimed[a])
      /\ q.claim = 0 => pending[a].claim = 0
      /\ \A r \in Told(a) :
           /\ q.claim # 0 => r.claim <= q.claim
           /\ q.claim # 0 /\ q.head # 0 =>
                /\ r.head <= q.head
                /\ ~q.fired /\ r.claim = q.claim => r.head < q.head
  <2>1. CASE claimed[a] # 0 /\ (pending[a].claim = 0 \/ pending[a].claim < claimed[a])
    <3>1. q = [claim |-> claimed[a], head |-> sha, fired |-> FALSE]
      BY <2>1 DEF Seeded
    <3>2. ASSUME NEW r \in Told(a) PROVE r.claim <= claimed[a]
      BY <2>1, <1>5 DEF Watching, ToldBefore
    <3>3. ASSUME NEW r \in Told(a), sha # 0
          PROVE  r.head <= sha /\ (r.claim = claimed[a] => r.head < sha)
      <4>1. CASE pending[a].claim = 0
        BY <4>1, <3>3, <1>1
      <4>2. CASE pending[a].claim # 0
        BY <4>2, <3>3, <2>1, <1>1, <1>4, <1>5 DEF Watching, NotToldYet
      <4> QED
        BY <4>1, <4>2
    <3>4. claimed[a] <= now
      BY <1>5 DEF Watching, ClaimsGrow
    <3> HIDE DEF q
    <3> QED
      BY <2>1, <3>1, <3>2, <3>3, <3>4, <1>1, <1>4
  <2>2. CASE ~(claimed[a] # 0 /\ (pending[a].claim = 0 \/ pending[a].claim < claimed[a]))
    <3>1. q = pending[a]
      BY <2>2 DEF Seeded
    <3> HIDE DEF q
    <3> QED
      BY <3>1, <1>1, <1>4, <1>5 DEF Watching, HeadsGrow, ClaimsGrow, NotToldYet
  <2> QED
    BY <2>1, <2>2
\* What is watched after a claim with a commit is dropped.
<1>7. /\ p.head <= head[a] /\ (sha # 0 => p.head <= sha)
      /\ p.claim <= now /\ (claimed[a] # 0 => p.claim <= claimed[a])
      /\ \A r \in Told(a) :
           /\ p.claim # 0 => r.claim <= p.claim
           /\ p.claim = 0 => r.head < head[a] /\ (sha # 0 => r.head < sha)
           /\ p.claim # 0 /\ p.head # 0 =>
                /\ r.head <= p.head
                /\ ~p.fired /\ r.claim = p.claim => r.head < p.head
  <2>1. CASE Shipped(q, sha)
    <3>1. p = NoClaim
      BY <2>1 DEF Watched
    <3>2. p.claim = 0 /\ p.head = 0
      BY <3>1 DEF NoClaim
    <3>3. q.claim # 0 /\ q.head # 0 /\ sha # 0 /\ sha # q.head
      BY <2>1 DEF Shipped
    <3>4. q.head < sha
      BY <3>3, <1>1, <1>4, <1>6
    <3>5. \A r \in Told(a) : r.head < sha /\ r.head < head[a]
      BY <3>3, <3>4, <1>1, <1>4, <1>6
    <3> HIDE DEF p, q
    <3> QED
      BY <3>2, <3>5, <1>1, <1>4
  <2>2. CASE ~Shipped(q, sha)
    <3>1. p = q
      BY <2>2 DEF Watched
    <3>2. ASSUME q.claim = 0, NEW r \in Told(a)
          PROVE  r.head < head[a] /\ (sha # 0 => r.head < sha)
      BY <3>2, <1>1, <1>5, <1>6 DEF Watching, NotToldYet
    <3> HIDE DEF p, q
    <3> QED
      BY <3>1, <3>2, <1>6
  <2> QED
    BY <2>1, <2>2
<1>8. Narrated \in events => Overdue(p, sha)
  BY PlainAssumption DEF Derived, Narrated
<1>9. pending'[a] = IF Overdue(p, sha) THEN [p EXCEPT !.fired = TRUE] ELSE p
  BY DEF Watch, TypeOK
<1>10. /\ pending'[a].claim = p.claim /\ pending'[a].head = p.head
       /\ Overdue(p, sha) => pending'[a].fired = TRUE
       /\ ~Overdue(p, sha) => pending'[a].fired = p.fired
  <2> HIDE DEF p
  <2> QED
    BY <1>3, <1>9 DEF Claims
<1>11. reported'[a] = IF Narrated \in events THEN Append(reported[a], new) ELSE reported[a]
  BY DEF Watch, TypeOK
<1>12. \A b \in Anchors \ {a} : /\ headCache'[b] = headCache[b]
                                /\ pending'[b] = pending[b]
                                /\ reported'[b] = reported[b]
  BY DEF Watch, ReadHead, TypeOK
<1>13. now' = now /\ claimed' = claimed /\ head' = head
  BY DEF worldVars
<1>14. reported[a] \in Seq([claim : Times, head : Nat])
  BY DEF TypeOK
<1>15. new.claim = p.claim /\ new.head = sha /\ new \in [claim : Times, head : Nat]
  BY <1>1, <1>3 DEF Claims
<1>16. Told(a)' = IF Narrated \in events THEN Told(a) \cup {new} ELSE Told(a)
  <2> HIDE DEF p, q, new, events
  <2>1. CASE Narrated \notin events
    BY <2>1, <1>11 DEF Told
  <2>2. CASE Narrated \in events
    <3>1. /\ Len(reported'[a]) = Len(reported[a]) + 1 /\ Len(reported[a]) \in Nat
          /\ reported'[a][Len(reported[a]) + 1] = new
          /\ \A i \in 1..Len(reported[a]) : reported'[a][i] = reported[a][i]
      BY <2>2, <1>11, <1>14, <1>15
    <3>2. 1..Len(reported'[a]) = 1..Len(reported[a]) \cup {Len(reported[a]) + 1}
      BY <3>1
    <3>3. Told(a)' = {reported'[a][i] : i \in 1..Len(reported'[a])}
      BY DEF Told
    <3> QED
      BY <2>2, <3>1, <3>2, <3>3 DEF Told
  <2> QED
    BY <2>1, <2>2
<1> HIDE DEF p, q, new, events
<1>17. ASSUME Narrated \in events, NEW r \in Told(a) PROVE r # new
  BY <1>7, <1>8, <1>15, <1>17 DEF Overdue
<1>18. Watching(a)'
  <2>1. HeadsGrow(a)' /\ ClaimsGrow(a)'
    <3>1. /\ sha <= head[a] /\ p.head <= head[a] /\ (sha # 0 => p.head <= sha)
          /\ claimed[a] <= now /\ p.claim <= now
          /\ claimed[a] # 0 => p.claim <= claimed[a]
      BY <1>1, <1>5, <1>7 DEF Watching, ClaimsGrow
    <3>2. /\ headCache'[a].sha = sha /\ pending'[a].head = p.head
          /\ pending'[a].claim = p.claim
          /\ head'[a] = head[a] /\ now' = now /\ claimed'[a] = claimed[a]
      BY <1>1, <1>10, <1>13
    <3> QED
      BY <3>1, <3>2 DEF HeadsGrow, ClaimsGrow
  <2>2. ASSUME NEW r \in Told(a) PROVE ToldBefore(a, r)' /\ NotToldYet(a, r)'
    <3>1. ToldBefore(a, r)
      BY <1>5 DEF Watching
    <3> QED
      BY <3>1, <1>1, <1>7, <1>10, <1>13 DEF ToldBefore, NotToldYet
  <2>3. ASSUME Narrated \in events, NEW r, r = new
        PROVE  ToldBefore(a, r)' /\ NotToldYet(a, r)'
    <3>1. r.claim = p.claim /\ r.head = sha /\ p.claim # 0 /\ sha = p.head
      BY <2>3, <1>8, <1>15 DEF Overdue
    <3>2. pending'[a].fired = TRUE
      BY <2>3, <1>8, <1>10
    <3>3. /\ headCache'[a].sha = sha /\ pending'[a].head = p.head
          /\ pending'[a].claim = p.claim
          /\ head'[a] = head[a] /\ now' = now /\ claimed'[a] = claimed[a]
      BY <1>1, <1>10, <1>13
    <3>4. /\ p.claim <= now /\ sha <= head[a] /\ (claimed[a] # 0 => p.claim <= claimed[a])
          /\ p.claim \in Nat /\ sha \in Nat
      BY <1>1, <1>4, <1>7
    <3> QED
      BY <3>1, <3>2, <3>3, <3>4 DEF ToldBefore, NotToldYet
  <2>4. \A i, j \in 1..Len(reported'[a]) : reported'[a][i] = reported'[a][j] => i = j
    <3>1. CASE Narrated \notin events
      BY <3>1, <1>5, <1>11 DEF Watching
    <3>2. CASE Narrated \in events
      <4>1. /\ Len(reported'[a]) = Len(reported[a]) + 1
            /\ reported'[a][Len(reported[a]) + 1] = new
            /\ \A i \in 1..Len(reported[a]) :
                 reported'[a][i] = reported[a][i] /\ reported[a][i] \in Told(a)
        <5>1. \A i \in 1..Len(reported[a]) : reported[a][i] \in Told(a)
          BY DEF Told
        <5> QED
          BY <3>2, <5>1, <1>11, <1>14, <1>15
      <4>2. Len(reported[a]) \in Nat
        BY <1>14
      <4>3. \A i, j \in 1..Len(reported[a]) : reported[a][i] = reported[a][j] => i = j
        BY <1>5 DEF Watching
      <4>4. \A i \in 1..Len(reported[a]) : reported'[a][i] # new
        BY <3>2, <4>1, <1>17
      <4>5. SUFFICES ASSUME NEW i \in 1..Len(reported'[a]), NEW j \in 1..Len(reported'[a]),
                            reported'[a][i] = reported'[a][j]
                     PROVE  i = j
        OBVIOUS
      <4>6. CASE i \in 1..Len(reported[a]) /\ j \in 1..Len(reported[a])
        BY <4>1, <4>3, <4>5, <4>6
      <4>7. CASE i = Len(reported[a]) + 1 /\ j \in 1..Len(reported[a])
        BY <4>1, <4>4, <4>5, <4>7
      <4>8. CASE i \in 1..Len(reported[a]) /\ j = Len(reported[a]) + 1
        BY <4>1, <4>4, <4>5, <4>8
      <4>9. CASE i = Len(reported[a]) + 1 /\ j = Len(reported[a]) + 1
        BY <4>9
      <4> QED
        BY <4>1, <4>2, <4>6, <4>7, <4>8, <4>9
    <3> QED
      BY <3>1, <3>2
  <2> QED
    BY <2>1, <2>2, <2>3, <2>4, <1>16 DEF Watching
<1>19. ASSUME NEW b \in Anchors \ {a} PROVE Watching(b)'
  BY <1>12, <1>13 DEF ReportInv, Watching, HeadsGrow, ClaimsGrow, Told, ToldBefore, NotToldYet
<1> QED
  BY <1>18, <1>19 DEF ReportInv

\* Nothing was reported.
LEMMA ReportInit == Init => ReportInv
<1> SUFFICES ASSUME Init, NEW a \in Anchors PROVE Watching(a)
  BY DEF ReportInv
<1>1. /\ reported[a] = <<>> /\ pending[a].claim = 0 /\ pending[a].head = 0
      /\ headCache[a].sha = 0 /\ head[a] = 1 /\ claimed[a] = 0 /\ now = 1
  BY DEF Init, NoClaim, NoHead
<1>2. Told(a) = {}
  BY <1>1 DEF Told
<1> QED
  BY <1>1, <1>2 DEF Watching, HeadsGrow, ClaimsGrow

\* The world goes on: the clock, a new claim, one out of sight, a commit.
LEMMA WorldKeepsReports ==
    ASSUME TypeOK, ReportInv, UNCHANGED <<headCache, pending, reported>>,
           now' \in Nat, now <= now',
           \A b \in Anchors : head'[b] \in Nat /\ head[b] <= head'[b],
           \A b \in Anchors : claimed'[b] \in {claimed[b], now, 0}
    PROVE  ReportInv'
<1> SUFFICES ASSUME NEW b \in Anchors PROVE Watching(b)'
  BY DEF ReportInv
<1>1. /\ \A r \in Told(b) : r.claim \in Nat /\ r.head \in Nat
      /\ claimed[b] \in Nat /\ head[b] \in Nat \ {0} /\ now \in Nat \ {0}
      /\ headCache[b].sha \in Nat
      /\ pending[b].claim \in Nat /\ pending[b].head \in Nat
  BY ToldTyped
<1>2. Watching(b)
  BY DEF ReportInv
<1>3. headCache'[b] = headCache[b] /\ pending'[b] = pending[b] /\ reported'[b] = reported[b]
  OBVIOUS
<1>4. Told(b)' = Told(b)
  BY <1>3 DEF Told
<1>5. HeadsGrow(b)'
  BY <1>1, <1>2, <1>3 DEF Watching, HeadsGrow
<1>6. ClaimsGrow(b)'
  BY <1>1, <1>2, <1>3 DEF Watching, ClaimsGrow
<1>7. ASSUME NEW r \in Told(b) PROVE ToldBefore(b, r)' /\ NotToldYet(b, r)'
  <2>1. ToldBefore(b, r) /\ NotToldYet(b, r)
    BY <1>2 DEF Watching
  <2>2. ToldBefore(b, r)'
    BY <2>1, <1>1, <1>3 DEF ToldBefore
  <2>3. NotToldYet(b, r)'
    BY <2>1, <1>1, <1>3 DEF NotToldYet
  <2> QED
    BY <2>2, <2>3
<1> QED
  BY <1>2, <1>3, <1>4, <1>5, <1>6, <1>7 DEF Watching

\* Every step keeps what is known of the reports.
LEMMA ReportStep == TypeOK /\ ReportInv /\ [Next]_vars => ReportInv'
<1> SUFFICES ASSUME TypeOK, ReportInv, [Next]_vars PROVE ReportInv'
  OBVIOUS
<1>0. now \in Nat /\ \A b \in Anchors : head[b] \in Nat
  BY DEF TypeOK
<1>1. CASE Tick
  BY <1>0, <1>1, WorldKeepsReports DEF Tick, tailVars
<1>2. ASSUME NEW a \in Anchors, WriteClaim(a) \/ ScrollOut(a)
      PROVE  ReportInv'
  <2>1. \A b \in Anchors : claimed'[b] \in {claimed[b], now, 0}
    BY <1>2 DEF WriteClaim, ScrollOut, TypeOK
  <2> QED
    BY <1>0, <1>2, <2>1, WorldKeepsReports DEF WriteClaim, ScrollOut, tailVars
<1>3. ASSUME NEW a \in Anchors, GitCommit(a) PROVE ReportInv'
  <2>1. \A b \in Anchors : head'[b] \in Nat /\ head[b] <= head'[b]
    BY <1>0, <1>3 DEF GitCommit, TypeOK
  <2> QED
    BY <1>0, <1>3, <2>1, WorldKeepsReports DEF GitCommit, tailVars
<1>4. CASE UNCHANGED <<headCache, pending, reported, now, head, claimed>>
  BY <1>0, <1>4, WorldKeepsReports
<1>5. ASSUME NEW a \in Anchors,
             \/ \E s \in Sessions \cup {None} : BindSupervisor(a, s)
             \/ \E m \in {"event", "polling"} : SetMode(a, m)
             \/ ExpectationDrift(a)
      PROVE  ReportInv'
  BY <1>5, <1>4 DEF BindSupervisor, SetMode, ExpectationDrift, tailVars, worldVars
<1>6. ASSUME NEW a \in Anchors, ProcessChange(a) PROVE ReportInv'
  <2>1. PICK shown \in SUBSET Plain, sha \in Nat :
          \E got \in SUBSET Derived(a, shown, sha) : Processed(a, shown, sha, got)
    BY <1>6, ProcessIsProcessed
  <2> QED
    BY <2>1, WatchKeepsReports DEF Processed
<1>7. CASE Restart
  <2>1. SUFFICES ASSUME NEW b \in Anchors PROVE Watching(b)'
    BY DEF ReportInv
  <2>2. /\ reported'[b] = <<>> /\ pending'[b].claim = 0 /\ pending'[b].head = 0
        /\ headCache'[b].sha = 0
        /\ head'[b] = head[b] /\ claimed'[b] = claimed[b] /\ now' = now
    BY <1>7 DEF Restart, NoClaim, NoHead, worldVars
  <2>3. Told(b)' = {}
    BY <2>2 DEF Told
  <2>4. claimed[b] <= now /\ claimed[b] \in Nat
    BY DEF ReportInv, Watching, ClaimsGrow, TypeOK, Times
  <2> QED
    BY <1>0, <2>2, <2>3, <2>4 DEF Watching, HeadsGrow, ClaimsGrow
<1>8. CASE UNCHANGED vars
  BY <1>8, <1>4 DEF vars, worldVars, tailVars
<1> QED
  BY <1>1, <1>2, <1>3, <1>5, <1>6, <1>7, <1>8 DEF Next

\* However often the tail that holds a claim is read, and whatever git answers,
\* the claim is reported at most once for each HEAD.
THEOREM ClaimsReportedOnce == Spec => []ReportedOncePerHead
<1>1. TypeOK /\ ReportInv /\ [Next]_vars => (TypeOK /\ ReportInv)'
  BY StepTypes, ReportStep
<1>2. Init => TypeOK /\ ReportInv
  BY InitTypes, ReportInit
<1>3. ReportInv => ReportedOncePerHead
  BY DEF ReportInv, Watching, ReportedOncePerHead
<1> QED
  BY <1>1, <1>2, <1>3, PTL DEF Spec
=============================================================================
