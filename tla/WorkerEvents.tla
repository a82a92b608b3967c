---------------------------- MODULE WorkerEvents ----------------------------
(* Event-driven supervision of the worker sessions: the listener that reads a *)
(* worker's transcript (worker-event-listener.ts, worker-event-detect.ts),    *)
(* the gate that rations what it finds and the router that delivers it to the *)
(* Lex session supervising the project (worker-event-router.ts), the kill     *)
(* switch, and the expectation supervisor that shares the gate.               *)
(*                                                                            *)
(* Every decision compares Date.now() with a remembered time, so the module   *)
(* has a clock; it starts at 1, and 0 stands for a time, a claim or a git     *)
(* HEAD the code holds as undefined or null.  A handler runs without a yield: *)
(* one action each.  What the regular expressions find in the tail is an      *)
(* input, except the claim of a shipment, which outlives the read that saw    *)
(* it.  History variables belong to one run of the daemon, as the gate does.  *)
EXTENDS Naturals, Sequences, FiniteSets

CONSTANTS
    Anchors,      \* the projects with a worker session
    Sessions,     \* the Lex sessions that may supervise them
    None,         \* no Lex session
    Plain,        \* the event types found by looking at the tail alone
    Gap,          \* perTypeMinGapMs (5 minutes)
    Hour,         \* the span of the hourly cap
    TenMin,       \* the span of the kill switch
    Cap,          \* perAnchorHourlyCap (12)
    KillLimit,    \* killSwitchPerTenMinutes (20)
    Refire,       \* the detector's own gap per type (30 s)
    Grace,        \* DEFAULT_SUCCESS_CLAIM_GRACE_MS (60 s)
    TargetTtl,    \* TARGET_CACHE_TTL_MS (60 s)
    HeadTtl,      \* worker-event-git.ts TTL_MS (5 s)
    MaxNow,       \* bound: the clock
    LastClaim,    \* bound: the latest time a claim is written
    MaxCommits,   \* bound: commits of one project
    MaxRestarts   \* bound: restarts of the daemon

Narrated == "narrated_success_no_commit"
Drift == "expectation_drift"
Detected == Plain \cup {Narrated}
Types == Detected \cup {Drift}

\* The order in which deriveEvents pushes the events of one tail.
Order == <<"permission_denied", "test_failure", "commit", "idle", Narrated>>

ASSUME PlainAssumption ==
    Plain \subseteq {"permission_denied", "test_failure", "commit", "idle"}
ASSUME TimesAssumption ==
    /\ Gap \in Nat \ {0} /\ Hour \in Nat \ {0} /\ TenMin \in Nat
    /\ Refire \in Nat /\ Grace \in Nat /\ TargetTtl \in Nat /\ HeadTtl \in Nat
ASSUME LimitsAssumption == Cap \in Nat /\ KillLimit \in Nat
ASSUME NoneAssumption == None \notin Sessions

VARIABLES
    now,         \* Date.now()
    claimed,     \* when the newest claim still in the tail was written
    head,        \* the project's git HEAD, as the number of its commits
    mode,        \* project_session.supervision_mode; "off" acts as "polling"
    supervisor,  \* the open session of the live Lex anchor bound to the project
    headCache,   \* headCache of worker-event-git.ts
    pending,     \* AnchorTailState.pendingSuccessClaim
    firedAt,     \* AnchorTailState.lastFiredAt
    lastFire,    \* WorkerEventGate.lastFire
    window,      \* WorkerEventGate.window: a stamp, and whose it is
    target,      \* cachedTargets
    restarts,    \* restarts so far
    accepted,    \* history: every event the gate accepted
    reported,    \* history: the claims deriveEvents reported, with their HEAD
    cleared,     \* history: the claims dropped because HEAD had moved
    sent,        \* history: the session the latest event went to
    heldAt       \* history: when a session last was a project's supervisor

worldVars == <<now, claimed, head, supervisor, heldAt>>
tailVars == <<headCache, pending, firedAt, reported, cleared>>
gateVars == <<lastFire, window, accepted>>
routeVars == <<target, sent>>
vars == <<worldVars, tailVars, gateVars, routeVars, mode, restarts>>

Times == Nat
Stamps == [type : Types, at : Times]
Claims == [claim : Times, head : Nat, fired : BOOLEAN]
NoClaim == [claim |-> 0, head |-> 0, fired |-> FALSE]
NoHead == [sha |-> 0, at |-> 0]
NoTarget == [session |-> None, at |-> 0]
Targets == [session : Sessions \cup {None}, at : Times]

TypeOK ==
    /\ now \in Nat \ {0}
    /\ claimed \in [Anchors -> Times]
    /\ head \in [Anchors -> Nat \ {0}]
    /\ mode \in [Anchors -> {"event", "polling"}]
    /\ supervisor \in [Anchors -> Sessions \cup {None}]
    /\ headCache \in [Anchors -> [sha : Nat, at : Times]]
    /\ pending \in [Anchors -> Claims]
    /\ firedAt \in [Anchors -> [Detected -> Times]]
    /\ lastFire \in [Anchors -> [Types -> Times]]
    /\ window \in [Anchors -> SUBSET Stamps]
    /\ target \in [Anchors -> Targets]
    /\ restarts \in Nat
    /\ accepted \in [Anchors -> SUBSET Stamps]
    /\ reported \in [Anchors -> Seq([claim : Times, head : Nat])]
    /\ cleared \in [Anchors -> SUBSET Times]
    /\ sent \in [Anchors -> Targets]
    /\ heldAt \in [Anchors -> [Sessions -> Times]]

\* The daemon starts with empty memory; its clock and the world are as they are.
Init ==
    /\ now = 1
    /\ claimed = [a \in Anchors |-> 0]
    /\ head = [a \in Anchors |-> 1]
    /\ mode = [a \in Anchors |-> "event"]
    /\ supervisor = [a \in Anchors |-> None]
    /\ heldAt = [a \in Anchors |-> [s \in Sessions |-> 0]]
    /\ headCache = [a \in Anchors |-> NoHead]
    /\ pending = [a \in Anchors |-> NoClaim]
    /\ firedAt = [a \in Anchors |-> [t \in Detected |-> 0]]
    /\ lastFire = [a \in Anchors |-> [t \in Types |-> 0]]
    /\ window = [a \in Anchors |-> {}]
    /\ target = [a \in Anchors |-> NoTarget]
    /\ accepted = [a \in Anchors |-> {}]
    /\ reported = [a \in Anchors |-> <<>>]
    /\ cleared = [a \in Anchors |-> {}]
    /\ sent = [a \in Anchors |-> NoTarget]
    /\ restarts = 0

-----------------------------------------------------------------------------
(* The world the daemon watches. *)

Tick ==
    /\ now < MaxNow
    /\ now' = now + 1
    /\ heldAt' = [a \in Anchors |-> [s \in Sessions |->
                    IF supervisor[a] = s THEN now + 1 ELSE heldAt[a][s]]]
    /\ UNCHANGED <<claimed, head, supervisor, tailVars, gateVars, routeVars,
                   mode, restarts>>

\* The worker ends a turn with "done", "shipped" and the like.
WriteClaim(a) ==
    /\ now <= LastClaim /\ claimed[a] # now
    /\ claimed' = [claimed EXCEPT ![a] = now]
    /\ UNCHANGED <<now, head, supervisor, heldAt, tailVars, gateVars, routeVars,
                   mode, restarts>>

\* Later lines push the claim out of the last 2 KB, where the detector looks.
ScrollOut(a) ==
    /\ claimed[a] # 0
    /\ claimed' = [claimed EXCEPT ![a] = 0]
    /\ UNCHANGED <<now, head, supervisor, heldAt, tailVars, gateVars, routeVars,
                   mode, restarts>>

\* HEAD moves on.  A checkout of an earlier commit is left out.
GitCommit(a) ==
    /\ head[a] <= MaxCommits
    /\ head' = [head EXCEPT ![a] = @ + 1]
    /\ UNCHANGED <<now, claimed, supervisor, heldAt, tailVars, gateVars,
                   routeVars, mode, restarts>>

\* A Lex anchor is bound, reopened on another session, or made dormant.  One
\* anchor supervises one project (lex_session.supervises_project_anchor_id).
BindSupervisor(a, s) ==
    /\ s # supervisor[a]
    /\ s # None => \A b \in Anchors : supervisor[b] # s
    /\ supervisor' = [supervisor EXCEPT ![a] = s]
    /\ heldAt' = [heldAt EXCEPT ![a] = [r \in Sessions |->
                    IF r = s THEN now ELSE heldAt[a][r]]]
    /\ UNCHANGED <<now, claimed, head, tailVars, gateVars, routeVars, mode,
                   restarts>>

\* The operator's toggle on the project tile (projects-routes.ts).
SetMode(a, m) ==
    /\ m # mode[a]
    /\ mode' = [mode EXCEPT ![a] = m]
    /\ UNCHANGED <<worldVars, tailVars, gateVars, routeVars, restarts>>

-----------------------------------------------------------------------------
(* WorkerEventGate.evaluate, for the events one handler offers in turn at one *)
(* time.  They are of different types, so the gap test of one does not touch  *)
(* another; each accepted one counts for the next.                            *)

PassGap(a, offered) ==
    {t \in offered : lastFire[a][t] = 0 \/ now - lastFire[a][t] >= Gap}

\* Mutant: the window is pruned by the span of the kill switch.
Rolling_TenMin(a) == {e \in window[a] : now - e.at < TenMin}

Rolling(a) == {e \in window[a] : now - e.at < Hour}
Recent(a) == {e \in Rolling(a) : now - e.at < TenMin}

Before(t, u) == \E i, j \in 1..Len(Order) : i < j /\ Order[i] = t /\ Order[j] = u

\* Mutant: the cap is never asked.
HourFull_Dropped(a, n) == FALSE

HourFull(a, n) == Cardinality(Rolling(a)) + n >= Cap
Runaway(a, n) == Cardinality(Recent(a)) + n >= KillLimit

\* got is accepted out of offered: events in their order, for as long as
\* neither limit is reached.
Admitted(a, offered, got) ==
    LET fresh == PassGap(a, offered) IN
    /\ got \subseteq fresh
    /\ \A t \in got, u \in fresh \ got : Before(t, u)
    /\ \A n \in 0..Cardinality(got) :
         n < Cardinality(got) => ~HourFull(a, n) /\ ~Runaway(a, n)
    /\ got # fresh =>
         HourFull(a, Cardinality(got)) \/ Runaway(a, Cardinality(got))

\* The event after got is refused by the kill switch: the cap is asked first.
Trips(a, offered, got) ==
    got # PassGap(a, offered) /\ ~HourFull(a, Cardinality(got))

\* applyKillSwitch: the project falls back to polling.
ApplyKillSwitch(a, tripped) ==
    mode' = IF tripped THEN [mode EXCEPT ![a] = "polling"] ELSE mode

Record(a, got) ==
    LET stamps == {[type |-> t, at |-> now] : t \in got} IN
    /\ lastFire' = [lastFire EXCEPT ![a] = [t \in Types |->
                      IF t \in got THEN now ELSE @[t]]]
    /\ window' = IF got = {} THEN window
                 ELSE [window EXCEPT ![a] = Rolling(a) \cup stamps]
    /\ accepted' = [accepted EXCEPT ![a] = @ \cup stamps]

-----------------------------------------------------------------------------
(* routeWorkerEvent. *)

\* Mutant: a resolved target is kept for good.
Resolved_NeverExpires(a) ==
    IF target[a].at # 0 THEN target[a] ELSE [session |-> supervisor[a], at |-> now]

Resolved(a) ==
    IF target[a].at # 0 /\ now - target[a].at < TargetTtl
      THEN target[a]
      ELSE [session |-> supervisor[a], at |-> now]

\* An accepted event goes to the resolved session, if there is one and its
\* terminal still takes input; otherwise it is dropped.
Deliver(a, got) ==
    \/ got = {} /\ UNCHANGED routeVars
    \/ /\ got # {}
       /\ target' = [target EXCEPT ![a] = Resolved(a)]
       /\ \/ UNCHANGED sent
          \/ /\ Resolved(a).session # None
             /\ sent' = [sent EXCEPT ![a] = [session |-> Resolved(a).session,
                                             at |-> now]]

-----------------------------------------------------------------------------
(* deriveEvents: the watch on a claim, and what the tail shows. *)

\* getHeadSha: a reading younger than HeadTtl, or a new one; git may fail.
ReadHead(a, sha) ==
    LET cached == headCache[a].at # 0 /\ now - headCache[a].at < HeadTtl IN
    \/ cached /\ sha = headCache[a].sha /\ UNCHANGED headCache
    \/ /\ ~cached
       /\ sha \in {head[a], 0}
       /\ headCache' = [headCache EXCEPT ![a] = [sha |-> sha, at |-> now]]

\* A newer claim, or the first, is watched from the HEAD of this read.
Seeded(a, sha) ==
    IF claimed[a] # 0 /\ (pending[a].claim = 0 \/ pending[a].claim < claimed[a])
      THEN [claim |-> claimed[a], head |-> sha, fired |-> FALSE]
      ELSE pending[a]

Shipped(p, sha) == p.claim # 0 /\ p.head # 0 /\ sha # 0 /\ sha # p.head

Watched(a, sha) ==
    LET p == Seeded(a, sha) IN IF Shipped(p, sha) THEN NoClaim ELSE p

Overdue(p, sha) ==
    /\ p.claim # 0 /\ ~p.fired
    /\ sha # 0 /\ p.head = sha
    /\ now - p.claim >= Grace

\* shouldFire: the detector's own gap.
Fireable(a, t) == firedAt[a][t] = 0 \/ now - firedAt[a][t] >= Refire

Derived(a, shown, sha) ==
    {t \in shown \cup (IF Overdue(Watched(a, sha), sha) THEN {Narrated} ELSE {}) :
        Fireable(a, t)}

\* Mutant: an overdue claim is not latched.
Watch_NoLatch(a, sha, events) ==
    LET p == Watched(a, sha) IN
    /\ pending' = [pending EXCEPT ![a] = p]
    /\ firedAt' = [firedAt EXCEPT ![a] = [t \in Detected |->
                     IF t \in events THEN now ELSE @[t]]]
    /\ reported' = IF Narrated \in events
                     THEN [reported EXCEPT ![a] =
                             Append(@, [claim |-> p.claim, head |-> sha])]
                     ELSE reported
    /\ UNCHANGED cleared

\* An overdue claim is latched as fired, pushed or not.
Watch(a, sha, events) ==
    LET p == Watched(a, sha) IN
    /\ pending' = [pending EXCEPT ![a] =
                     IF Overdue(p, sha) THEN [p EXCEPT !.fired = TRUE] ELSE p]
    /\ firedAt' = [firedAt EXCEPT ![a] = [t \in Detected |->
                     IF t \in events THEN now ELSE @[t]]]
    /\ reported' = IF Narrated \in events
                     THEN [reported EXCEPT ![a] =
                             Append(@, [claim |-> p.claim, head |-> sha])]
                     ELSE reported
    /\ cleared' = IF Shipped(Seeded(a, sha), sha)
                    THEN [cleared EXCEPT ![a] = @ \cup {Seeded(a, sha).claim}]
                    ELSE cleared

\* processChange: the transcript changed; shown is what its tail matches now.
ProcessChange(a) ==
    /\ mode[a] = "event"
    /\ \E shown \in SUBSET Plain, sha \in {head[a], headCache[a].sha, 0} :
         LET events == Derived(a, shown, sha) IN
         /\ ReadHead(a, sha)
         /\ Watch(a, sha, events)
         /\ \E got \in SUBSET events :
              /\ Admitted(a, events, got)
              /\ Record(a, got)
              /\ Deliver(a, got)
              /\ ApplyKillSwitch(a, Trips(a, events, got))
    /\ UNCHANGED <<worldVars, restarts>>

\* runExpectationTick found a worker off course.  It asks the same gate, in
\* whatever mode the project is, and speaks to the operator, not to Lex.
ExpectationDrift(a) ==
    /\ \E got \in SUBSET {Drift} : Admitted(a, {Drift}, got) /\ Record(a, got)
    /\ UNCHANGED <<worldVars, tailVars, routeVars, mode, restarts>>

\* Gate, caches and watches live in memory; the modes are in the database.
Restart ==
    /\ restarts < MaxRestarts
    /\ restarts' = restarts + 1
    /\ headCache' = [a \in Anchors |-> NoHead]
    /\ pending' = [a \in Anchors |-> NoClaim]
    /\ firedAt' = [a \in Anchors |-> [t \in Detected |-> 0]]
    /\ lastFire' = [a \in Anchors |-> [t \in Types |-> 0]]
    /\ window' = [a \in Anchors |-> {}]
    /\ target' = [a \in Anchors |-> NoTarget]
    /\ accepted' = [a \in Anchors |-> {}]
    /\ reported' = [a \in Anchors |-> <<>>]
    /\ cleared' = [a \in Anchors |-> {}]
    /\ sent' = [a \in Anchors |-> NoTarget]
    /\ UNCHANGED <<worldVars, mode>>

Next ==
    \/ Tick
    \/ \E a \in Anchors :
         \/ WriteClaim(a) \/ ScrollOut(a) \/ GitCommit(a)
         \/ \E s \in Sessions \cup {None} : BindSupervisor(a, s)
         \/ \E m \in {"event", "polling"} : SetMode(a, m)
         \/ ProcessChange(a)
         \/ ExpectationDrift(a)
    \/ Restart

Spec == Init /\ [][Next]_vars

-----------------------------------------------------------------------------
HourlyCap ==
    \A a \in Anchors : \A e \in accepted[a] :
        Cardinality({f \in accepted[a] : e.at <= f.at /\ f.at < e.at + Hour}) <= Cap

TypeGap ==
    \A a \in Anchors : \A e, f \in accepted[a] :
        e.type = f.type /\ e.at < f.at => f.at - e.at >= Gap

\* Whatever the listener and the expectation supervisor offer, in any order and
\* however many at once, a project gets no more than Cap events in any span of
\* Hour, wherever the span starts, though the window is pruned only when an
\* event is accepted; and two events of one type are at least Gap apart.
Rationed == HourlyCap /\ TypeGap

\* While the cap is no higher than the kill switch's limit, as the defaults
\* have it (12 and 20), no step of the listener ever takes a project out of
\* event mode: the kill switch never trips.
CapHidesKillSwitch ==
    [][Cap <= KillLimit =>
         \A a \in Anchors : ProcessChange(a) => mode'[a] = mode[a]]_vars

\* An event goes only to a session that supervised its own project less than
\* TargetTtl ago, through every rebinding of the supervisors.
DeliveredToSupervisor ==
    [][\A a \in Anchors : sent'[a] # sent[a] /\ sent'[a].session # None =>
          \/ supervisor[a] = sent'[a].session
          \/ now - heldAt[a][sent'[a].session] < TargetTtl]_vars

\* A claim is reported at most once while HEAD stays where it is, however
\* often the tail that holds it is read.
ReportedOncePerHead ==
    \A a \in Anchors : \A i, j \in 1..Len(reported[a]) :
        reported[a][i] = reported[a][j] => i = j

\* worker-event-detect.ts:307-308: HEAD advanced, so the claim is cleared: "a
\* commit landed for it, no false shipment".  It is not reported after that.
ClearedStaysCleared ==
    [][\A a \in Anchors : Len(reported'[a]) > Len(reported[a]) =>
          reported'[a][Len(reported'[a])].claim \notin cleared[a]]_vars
=============================================================================
