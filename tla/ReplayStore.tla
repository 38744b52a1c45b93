---------------------------- MODULE ReplayStore ----------------------------
(***************************************************************************)
(* Recorded worlds, their pool and its report (evo-storage replay.rs, the  *)
(* collector and the pool replay of evo-engine replay.rs): a world is      *)
(* collected observation by observation, sealed, put in a pool, and played *)
(* into a report, while runs are recorded and revoked.                     *)
(*                                                                         *)
(* Every action that touches the store is one session.  A world's content  *)
(* is the sequence of runs it rests on, its baseline first; edges are what *)
(* the store knows of that, and what a cleanup follows.                    *)
(***************************************************************************)
EXTENDS Common

CONSTANTS
    RWorlds,            \* world identities, of both partitions together a pool
    ROwn(_),            \* the runs a world may rest on, a sequence: its baseline, then observations
    RAdmins,            \* admins who collect, each with a copy of a world at most
    RWorkers,           \* workers who play the pool
    RStarts,            \* management originals that registered the exploration world, in their order
    RevokeBound         \* revocations, at most

VARIABLES
    rmark,      \* the revoke watermark
    rruns,      \* runs recorded
    rdead,      \* runs revoked: their tombstones
    rstarts,    \* originals stored: how many of RStarts, and which
    rworld,     \* world -> None, or [state, runs, mark, proof]
    redges,     \* <<record, upstream record or run>>
    rpool,      \* "none", "live", "redacted"
    rreport,    \* None, [of] or "redacted"
    rcopy,      \* admin -> None or the world it holds: [id, runs, mark, proof]
    rplayer     \* worker -> [pc, pool]: "idle", "played"

rvars == <<rmark, rruns, rdead, rstarts, rworld, redges, rpool, rreport, rcopy, rplayer>>

\* Names of the pool and report records, beside the worlds.
POOL == "pool"
REPORT == "report"

StartSet == {RStarts[i] : i \in DOMAIN RStarts}

RRuns == UNION {{ROwn(w)[i] : i \in DOMAIN ROwn(w)} : w \in RWorlds}

\* The identities of worlds, pool and report are apart.
ASSUME ReplayStoreShape ==
    /\ RevokeBound \in Nat /\ RStarts \in Seq(StartSet)
    /\ \A w \in RWorlds : ROwn(w) \in Seq(RRuns) /\ Len(ROwn(w)) >= 1
    /\ POOL \notin RWorlds /\ REPORT \notin RWorlds

StoredWorld == [state : {"collecting", "sealed", "redacted"}, runs : Seq(RRuns), mark : Nat, proof : StartSet \cup {"chain"}]
CopiedWorld == [id : RWorlds, runs : Seq(RRuns), mark : Nat, proof : StartSet \cup {"chain"}]

ASSUME ReplayStoreAbsent == None \notin StoredWorld /\ None \notin CopiedWorld /\ None \notin StartSet \cup {"chain"}

RunSet(seq) == {seq[i] : i \in DOMAIN seq}
IsPrefixOf(s, t) == Len(s) <= Len(t) /\ \A i \in DOMAIN s : s[i] = t[i]

-----------------------------------------------------------------------------
(* What a session accepts.                                                 *)

\* live_replay_run_v3: recorded, and not revoked.
run_live(r) == r \in rruns /\ r \notin rdead

\* What a new world names: the first original there is, or else the source chain.
first_proof ==
    IF rstarts = {} THEN "chain"
    ELSE RStarts[CHOOSE i \in DOMAIN RStarts :
                   RStarts[i] \in rstarts /\ \A j \in 1..(i - 1) : RStarts[j] \notin rstarts]

\* reconstruct_replay_root_source: a stored world keeps the original it named
\* as long as that is there, a new one names the first.
root_proof(stored) ==
    IF stored # None /\ (stored = "chain" \/ stored \in rstarts) THEN stored ELSE first_proof

\* The exact dependency rows a world must have.
world_edges(w, runs, proof) ==
    {<<w, r>> : r \in RunSet(runs)} \cup (IF proof = "chain" THEN {} ELSE {<<w, proof>>})

EdgesOf(w) == {e \in redges : e[1] = w}

\* validate_replay_v3_observations, _s0 and the root source, of a content.
observations_live(w, content) ==
    /\ content.mark = rmark
    /\ \A r \in RunSet(content.runs) : run_live(r)

\* load_replay_world_v3: sealed, live, and its edges as they must be.
world_loads(w) ==
    /\ rworld[w] # None /\ rworld[w].state = "sealed"
    /\ observations_live(w, rworld[w])
    /\ rworld[w].proof = root_proof(rworld[w].proof)
    /\ EdgesOf(w) = world_edges(w, rworld[w].runs, rworld[w].proof)

pool_loads == rpool = "live" /\ \A w \in RWorlds : world_loads(w)

\* What a report of the pool says: a function of the sealed worlds.
replayed == [w \in RWorlds |-> rworld[w].runs]

report_edges == {<<REPORT, POOL>>} \cup {<<REPORT, w>> : w \in RWorlds}

-----------------------------------------------------------------------------
(* Collecting.                                                             *)

\* A second start of the same exploration leaves another original.
start_again(s) ==
    /\ s \in StartSet \ rstarts
    /\ rstarts' = rstarts \cup {s}
    /\ UNCHANGED <<rmark, rruns, rdead, rworld, redges, rpool, rreport, rcopy, rplayer>>

\* A trusted host records a run.
record_run(r) ==
    /\ r \in RRuns \ rruns
    /\ rruns' = rruns \cup {r}
    /\ UNCHANGED <<rmark, rdead, rstarts, rworld, redges, rpool, rreport, rcopy, rplayer>>

\* prepare_replay_world_v3: nothing is written, and the baseline need not be there yet.
prepare_world(a, w) ==
    /\ rcopy[a] = None
    /\ rcopy' = [rcopy EXCEPT ![a] = [id |-> w, runs |-> <<ROwn(w)[1]>>, mark |-> rmark,
                                      proof |-> root_proof(None)]]
    /\ UNCHANGED <<rmark, rruns, rdead, rstarts, rworld, redges, rpool, rreport, rplayer>>

\* load_replay_world_v3_collecting: an admin takes a copy of what is collected.
collecting_loads(w) ==
    /\ rworld[w] # None /\ rworld[w].state = "collecting"
    /\ observations_live(w, rworld[w])
    /\ rworld[w].proof = root_proof(rworld[w].proof)
    /\ EdgesOf(w) = world_edges(w, rworld[w].runs, rworld[w].proof)

copy_world(a, w) ==
    /\ rcopy[a] = None /\ collecting_loads(w)
    /\ rcopy' = [rcopy EXCEPT ![a] = [id |-> w, runs |-> rworld[w].runs, mark |-> rworld[w].mark,
                                      proof |-> rworld[w].proof]]
    /\ UNCHANGED <<rmark, rruns, rdead, rstarts, rworld, redges, rpool, rreport, rplayer>>

\* The admin adds an observation to its copy.
extend_copy(a, r) ==
    /\ rcopy[a] # None /\ r \in RunSet(ROwn(rcopy[a].id)) \ RunSet(rcopy[a].runs)
    /\ rcopy' = [rcopy EXCEPT ![a].runs = Append(@, r)]
    /\ UNCHANGED <<rmark, rruns, rdead, rstarts, rworld, redges, rpool, rreport, rplayer>>

\* validate_replay_v3_collecting_extension.
collecting_extension(old, new) == new.proof = old.proof /\ new.mark = old.mark /\ IsPrefixOf(old.runs, new.runs)

\* put_replay_world_v3_draft: what is stored and the edges to it, in one session.
put_draft(w, content) ==
    /\ rworld' = [rworld EXCEPT ![w] = [state |-> "collecting", runs |-> content.runs,
                                        mark |-> content.mark, proof |-> content.proof]]
    /\ redges' = redges \cup world_edges(w, content.runs, content.proof)

\* collect_replay_world_v3_draft.
collect_draft(a) ==
    /\ rcopy[a] # None
    /\ LET w == rcopy[a].id IN
       /\ rworld[w] = None => rcopy[a].proof = root_proof(None)
       /\ rworld[w] # None => /\ collecting_loads(w)
                              /\ collecting_extension(rworld[w], rcopy[a])
       /\ observations_live(w, rcopy[a])
       /\ put_draft(w, rcopy[a])
    /\ rcopy' = [rcopy EXCEPT ![a] = None]
    /\ UNCHANGED <<rmark, rruns, rdead, rstarts, rpool, rreport, rplayer>>

\* collect_replay_transition_v3: an observation straight onto what is stored.
collect_transition(w, r) ==
    /\ collecting_loads(w) /\ r \in RunSet(ROwn(w)) \ RunSet(rworld[w].runs) /\ run_live(r)
    /\ put_draft(w, [rworld[w] EXCEPT !.runs = Append(@, r)])
    /\ UNCHANGED <<rmark, rruns, rdead, rstarts, rpool, rreport, rcopy, rplayer>>

\* seal_replay_world_v3: freezes what is stored, adds nothing.
seal_world(w) ==
    /\ collecting_loads(w)
    /\ rworld' = [rworld EXCEPT ![w].state = "sealed"]
    /\ UNCHANGED <<rmark, rruns, rdead, rstarts, redges, rpool, rreport, rcopy, rplayer>>

-----------------------------------------------------------------------------
(* The pool and its report.                                                *)

\* register_replay_pool.
register_pool ==
    /\ rpool = "none" /\ \A w \in RWorlds : world_loads(w)
    /\ \A v, w \in RWorlds : rworld[v].mark = rworld[w].mark
    /\ rpool' = "live"
    /\ redges' = redges \cup {<<POOL, w>> : w \in RWorlds}
    /\ UNCHANGED <<rmark, rruns, rdead, rstarts, rworld, rreport, rcopy, rplayer>>

\* run_and_persist_pool_replay: the pool is loaded and looked up in one
\* session, played outside any, ...
play_pool(k) ==
    /\ rplayer[k].pc = "idle" /\ pool_loads /\ rreport = None
    /\ rplayer' = [rplayer EXCEPT ![k] = [pc |-> "played", of |-> replayed]]
    /\ UNCHANGED <<rmark, rruns, rdead, rstarts, rworld, redges, rpool, rreport, rcopy>>

\* ... and stored in another, which loads everything and plays it again; a
\* report that is there already stands.
store_report(k) ==
    /\ rplayer[k].pc = "played"
    /\ IF pool_loads /\ rreport = None /\ replayed = rplayer[k].of
       THEN /\ rreport' = [of |-> rplayer[k].of]
            /\ redges' = redges \cup report_edges
       ELSE UNCHANGED <<rreport, redges>>
    /\ rplayer' = [rplayer EXCEPT ![k] = [pc |-> "idle", of |-> None]]
    /\ UNCHANGED <<rmark, rruns, rdead, rstarts, rworld, rpool, rcopy>>

\* The worker dies with what it played.
player_crash(k) ==
    /\ rplayer[k].pc = "played"
    /\ rplayer' = [rplayer EXCEPT ![k] = [pc |-> "idle", of |-> None]]
    /\ UNCHANGED <<rmark, rruns, rdead, rstarts, rworld, redges, rpool, rreport, rcopy>>

-----------------------------------------------------------------------------
(* Revocation.                                                             *)

revoke_run(r) ==
    /\ r \in rruns \ rdead /\ rmark < RevokeBound
    /\ rdead' = rdead \cup {r} /\ rmark' = rmark + 1
    /\ UNCHANGED <<rruns, rstarts, rworld, redges, rpool, rreport, rcopy, rplayer>>

Upstream(x) == {e[2] : e \in {e \in redges : e[1] = x}}

\* A cleanup redacts the records whose upstream, by the edges, is revoked or redacted.
redact_world(w) ==
    /\ rworld[w] # None /\ rworld[w].state # "redacted" /\ Upstream(w) \cap rdead # {}
    /\ rworld' = [rworld EXCEPT ![w] = [@ EXCEPT !.state = "redacted", !.runs = <<>>]]
    /\ UNCHANGED <<rmark, rruns, rdead, rstarts, redges, rpool, rreport, rcopy, rplayer>>

Redacted(x) == x \in RWorlds /\ rworld[x] # None /\ rworld[x].state = "redacted"

redact_pool ==
    /\ rpool = "live" /\ \E w \in Upstream(POOL) : Redacted(w)
    /\ rpool' = "redacted"
    /\ UNCHANGED <<rmark, rruns, rdead, rstarts, rworld, redges, rreport, rcopy, rplayer>>

redact_report ==
    /\ rreport # None /\ rreport.of # None
    /\ \E x \in Upstream(REPORT) : Redacted(x) \/ (x = POOL /\ rpool = "redacted")
    /\ rreport' = [of |-> None]
    /\ UNCHANGED <<rmark, rruns, rdead, rstarts, rworld, redges, rpool, rcopy, rplayer>>

-----------------------------------------------------------------------------
replay_store_init ==
    /\ rmark = 0 /\ rruns = {} /\ rdead = {} /\ rstarts = {}
    /\ rworld = [w \in RWorlds |-> None] /\ redges = {}
    /\ rpool = "none" /\ rreport = None
    /\ rcopy = [a \in RAdmins |-> None]
    /\ rplayer = [k \in RWorkers |-> [pc |-> "idle", of |-> None]]

replay_cleanup == (\E w \in RWorlds : redact_world(w)) \/ redact_pool \/ redact_report

replay_store_next ==
    \/ \E s \in StartSet : start_again(s)
    \/ \E r \in RRuns : record_run(r) \/ revoke_run(r)
    \/ \E a \in RAdmins : \/ \E w \in RWorlds : prepare_world(a, w) \/ copy_world(a, w)
                          \/ \E r \in RRuns : extend_copy(a, r)
                          \/ collect_draft(a)
    \/ \E w \in RWorlds : seal_world(w) \/ \E r \in RRuns : collect_transition(w, r)
    \/ register_pool
    \/ \E k \in RWorkers : play_pool(k) \/ store_report(k) \/ player_crash(k)
    \/ replay_cleanup

ReplayStoreSpec == replay_store_init /\ [][replay_store_next]_rvars

-----------------------------------------------------------------------------
(* Properties.                                                             *)

\* ReplayWorldV3: its baseline, then observations of its own, none twice; nothing
\* once redacted.
ValidWorld(w, x) ==
    /\ x.state \in {"collecting", "sealed", "redacted"}
    /\ x.mark \in 0..rmark /\ x.proof \in StartSet \cup {"chain"}
    /\ x.state = "redacted" => x.runs = <<>>
    /\ x.state # "redacted" => /\ RunSet(x.runs) \subseteq RunSet(ROwn(w)) /\ x.runs[1] = ROwn(w)[1]
                               /\ \A i, j \in DOMAIN x.runs : x.runs[i] = x.runs[j] => i = j

PoolState == {"none", "live", "redacted"}

\* ReplayReportV3: one result for each world of its pool, or nothing once redacted.
ValidReport(x) == x.of = None \/ DOMAIN x.of = RWorlds

ReplayStoreTypeOK ==
    /\ rmark \in 0..RevokeBound /\ rruns \subseteq RRuns /\ rdead \subseteq rruns
    /\ \A w \in RWorlds : rworld[w] # None => ValidWorld(w, rworld[w])
    /\ rpool \in PoolState
    /\ rreport # None => ValidReport(rreport)

Rests(w) == IF rworld[w] = None THEN {} ELSE RunSet(rworld[w].runs)

\* Two admins who collect one world from copies, and observations written
\* straight onto it, lose nothing of each other: what is collected only grows
\* at its end, a sealed world never changes, and only a cleanup takes anything
\* away.
CollectedGrows ==
    [][\A w \in RWorlds : rworld[w] # None =>
         \/ rworld'[w].state = "redacted"
         \/ /\ IsPrefixOf(rworld[w].runs, rworld'[w].runs)
            /\ rworld[w].state = "sealed" => rworld'[w] = rworld[w]
            /\ rworld[w].state = "redacted" => FALSE]_rvars

\* What is written rests on runs that are recorded and not revoked in the
\* session that writes it, however old the copy or the played report is.
WrittenOnLiveRuns ==
    [][/\ \A w \in RWorlds : (rworld'[w] # rworld[w] /\ rworld'[w].state # "redacted") =>
            RunSet(rworld'[w].runs) \subseteq rruns \ rdead
       /\ (rreport = None /\ rreport' # None) =>
            \A w \in RWorlds : rreport'.of[w] = rworld[w].runs /\ Rests(w) # {} /\ Rests(w) \subseteq rruns \ rdead]_rvars

\* As long as its runs are live a sealed world can be loaded, whatever other
\* originals of its registration have been stored since: a later start of the
\* same exploration does not take the proof from a world that named one.
SealedLoads ==
    \A w \in RWorlds :
      (rworld[w] # None /\ rworld[w].state = "sealed" /\ rworld[w].mark = rmark
         /\ Rests(w) \cap rdead = {}) => world_loads(w)

\* What rests on a revoked run is redacted in the end: the edges a cleanup
\* follows name every run a world, and through it the pool and the report, has
\* been given.
RevokedIsRedacted ==
    rdead # {} ~> /\ \A w \in RWorlds : Rests(w) \cap rdead = {}
                  /\ (rreport # None /\ rreport.of # None) =>
                       \A w \in RWorlds : RunSet(rreport.of[w]) \cap rdead = {}
=============================================================================
