------------------------------- MODULE Release -------------------------------
(***************************************************************************)
(* Candidates, their approval and the pointer of a profile (evo-engine     *)
(* release_store.rs, with the compiler binding of compiler.rs and the      *)
(* registered principals of formal_authority.rs).                          *)
(*                                                                         *)
(* Every operation is one transaction of the store.  What is hard is that  *)
(* each one judges a release again against state that other transactions   *)
(* move in between: the namespace's revocation watermark, the selected     *)
(* registration of the profile, the pointer, and the rows of the releases  *)
(* a candidate descends from.                                              *)
(*                                                                         *)
(* Candidates are positive integers, a parent is smaller than its child,   *)
(* and 0 is the authorized empty root.  Each report is a judgment of one   *)
(* candidate; the release approved from it has its name.                   *)
(***************************************************************************)
EXTENDS Common

CONSTANTS
    Profiles,
    Candidates,     \* 1..n
    ProfileOf,      \* [Candidates -> Profiles]
    ParentOf,       \* [Candidates -> Candidates \cup {0}]
    SourcesOf,      \* [Candidates -> SUBSET Sources]
    Sources,        \* revocable sources of the namespace
    Reports,        \* names of reports and of the releases approved from them
    Judges,         \* [Reports -> Candidates]
    Registrations,  \* frozen profiles an Admin may select
    HostOf,         \* [Registrations -> hosts]: whose principals sign
    RootOf          \* the registration the empty root is authorized for

ASSUME ReleaseShape ==
    /\ Candidates \subseteq Nat \ {0} /\ IsFiniteSet(Candidates)
    /\ ProfileOf \in [Candidates -> Profiles]
    /\ \A c \in Candidates : /\ ParentOf[c] \in Candidates \cup {0} /\ ParentOf[c] < c
                             /\ SourcesOf[c] \subseteq Sources
    /\ Judges \in [Reports -> Candidates]
    /\ RootOf \in Registrations
    /\ None \notin Reports /\ IsFiniteSet(Sources)

VARIABLES
    revoked,        \* sources with a tombstone
    selection,      \* formal-profile-<id>: the selected registration
    cand,           \* the binding a candidate was staged with
    issued,         \* formal-authority-<report>
    rel,            \* releases
    parentSel,      \* formal_parent: the release that approved a bundle
    pointer         \* profile-pointer-<id>

relVars == <<revoked, selection, cand, issued, rel, parentSel, pointer>>

States == {"none", "approved", "canary", "active", "superseded", "rolled_back"}
HostIds == {None} \cup {HostOf[g] : g \in Registrations}
ReleaseRecord == [state : States, writes : Nat, base : Reports \cup {None}, host : HostIds]
Pointer == [active : Reports \cup {None}, epoch : Nat, host : HostIds]

\* The state of an ancestor's row is part of every closure read below it: the body
\* of the release and of its principal action, both written anew with each state.
Lines == SUBSET (Reports \X Nat)
Binding == [at : Pointer, watermark : Nat, line : Lines, reg : Registrations]
Authority == [watermark : Nat, line : Lines, reg : Registrations]
Unstaged == None
Unissued == None

ReleaseTypeOK ==
    /\ revoked \subseteq Sources
    /\ selection \in [Profiles -> Registrations]
    /\ cand \in [Candidates -> {Unstaged} \cup Binding]
    /\ issued \in [Reports -> {Unissued} \cup Authority]
    /\ rel \in [Reports -> ReleaseRecord]
    /\ parentSel \in [Candidates -> Reports \cup {None}]
    /\ pointer \in [Profiles -> Pointer]
    /\ \A p \in Profiles : pointer[p].epoch = 0 <=> pointer[p].active = None

ReleaseInit ==
    /\ revoked = {}
    /\ selection = [p \in Profiles |-> RootOf]
    /\ cand = [c \in Candidates |-> Unstaged]
    /\ issued = [r \in Reports |-> Unissued]
    /\ rel = [r \in Reports |-> [state |-> "none", writes |-> 0, base |-> None, host |-> None]]
    /\ parentSel = [c \in Candidates |-> None]
    /\ pointer = [p \in Profiles |-> [active |-> None, epoch |-> 0, host |-> None]]

-----------------------------------------------------------------------------
(* What the gates read.                                                    *)

\* Each new tombstone moves the watermark of the namespace.
watermark == Cardinality(revoked)

ReleaseProfile(r) == ProfileOf[Judges[r]]
SelectedHost(p) == HostOf[selection[p]]

\* The candidate and its ancestors: the least set with the candidate and, with each
\* of its members, the parent.
WithParents(S) == \A k \in S : ParentOf[k] # 0 => ParentOf[k] \in S
Ancestry(c) == {k \in Candidates : \A S \in SUBSET Candidates : c \in S /\ WithParents(S) => k \in S}

\* read_typed_closure over a candidate: the rows of the releases it descends from.
Line(c, rels) ==
    {<<parentSel[k], rels[parentSel[k]].writes>> : k \in {a \in Ancestry(c) \ {c} : parentSel[a] # None}}

\* validate_stored_sources: live, and at the watermark the candidate recorded.
SourcesStand(c, w) == w = watermark /\ SourcesOf[c] \cap revoked = {}

\* load_pointer: an existing pointer needs the action of the selected host's Admin.
PointerReads(p) == pointer[p].epoch = 0 \/ pointer[p].host = SelectedHost(p)

\* verify_read_release_principal: the row's Admin action is the selected host's.
Signed(r, rels) == rels[r].state # "none" /\ rels[r].host = SelectedHost(ReleaseProfile(r))

\* verify_read_issued_authority: watermark, closure and registration are those of
\* the issue.
AuthorityStands(r, rels) ==
    /\ issued[r] # Unissued
    /\ issued[r].watermark = watermark
    /\ issued[r].line = Line(Judges[r], rels)
    /\ issued[r].reg = selection[ReleaseProfile(r)]

\* parent_selection: the empty root of this registration, or an approved release.
ParentStands(c, rels) ==
    IF ParentOf[c] = 0
    THEN selection[ProfileOf[c]] = RootOf
    ELSE \E r \in Reports :
           /\ parentSel[ParentOf[c]] = r
           /\ rels[r].state \in {"approved", "canary", "active", "superseded"}
           /\ ReleaseProfile(r) = ProfileOf[c]
           /\ Signed(r, rels) /\ AuthorityStands(r, rels)

\* resolve_current_compiler_inputs for a candidate staged at watermark w.
Resolves(c, w, rels) ==
    /\ w = watermark
    /\ SourcesOf[c] \cap revoked = {}
    /\ PointerReads(ProfileOf[c])
    /\ ParentStands(c, rels)

BindingNow(c) ==
    [at |-> pointer[ProfileOf[c]], watermark |-> watermark, line |-> Line(c, rel),
     reg |-> selection[ProfileOf[c]]]

\* bind_release_principal: each write of a row resolves its bundle again.
Writable(r, rels) == cand[Judges[r]] # Unstaged /\ Resolves(Judges[r], cand[Judges[r]].watermark, rels)

Revalidates(r) ==
    /\ Signed(r, rel)
    /\ cand[Judges[r]] # Unstaged
    /\ SourcesStand(Judges[r], cand[Judges[r]].watermark)
    /\ AuthorityStands(r, rel)

\* verify_current_bundle_in_session: resolved again, the binding is the staged one.
BundleVerifies(c) ==
    /\ cand[c] # Unstaged
    /\ Resolves(c, cand[c].watermark, rel)
    /\ BindingNow(c) = cand[c]

\* write_release_state: the row, its witness and the Admin's action.
Written(rels, r, state) ==
    [rels EXCEPT ![r].state = state, ![r].writes = @ + 1, ![r].host = SelectedHost(ReleaseProfile(r))]

-----------------------------------------------------------------------------
(* Operations.                                                             *)

begin_revoke_source(s) ==
    /\ s \notin revoked
    /\ revoked' = revoked \cup {s}
    /\ UNCHANGED <<selection, cand, issued, rel, parentSel, pointer>>

\* freeze_profile_original overwrites the selection; the registration is immutable.
freeze_profile_original(p, g) ==
    /\ g # selection[p]
    /\ selection' = [selection EXCEPT ![p] = g]
    /\ UNCHANGED <<revoked, cand, issued, rel, parentSel, pointer>>

stage_current_bundle(c) ==
    /\ cand[c] = Unstaged
    /\ Resolves(c, watermark, rel)
    /\ cand' = [cand EXCEPT ![c] = BindingNow(c)]
    /\ UNCHANGED <<revoked, selection, issued, rel, parentSel, pointer>>

\* The evaluation of a candidate ends in an authority over its closure.
issue_complete_authority(r) ==
    /\ issued[r] = Unissued
    /\ Writable(r, rel)
    /\ issued' = [issued EXCEPT ![r] = [watermark |-> watermark, line |-> Line(Judges[r], rel),
                                        reg |-> selection[ReleaseProfile(r)]]]
    /\ UNCHANGED <<revoked, selection, cand, rel, parentSel, pointer>>

\* A second report of a bundle cannot become its parent selection: immutable.
record_parent_approval(r) ==
    /\ parentSel[Judges[r]] \in {None, r}
    /\ parentSel' = [parentSel EXCEPT ![Judges[r]] = r]

approve_verified(r) ==
    LET p == ReleaseProfile(r) IN
    /\ rel[r].state = "none"
    /\ cand[Judges[r]] # Unstaged
    /\ SourcesStand(Judges[r], cand[Judges[r]].watermark)
    /\ AuthorityStands(r, rel)
    /\ PointerReads(p)
    /\ Writable(r, rel)
    /\ rel' = [Written(rel, r, "approved") EXCEPT ![r].base = pointer[p].active]
    /\ record_parent_approval(r)
    /\ UNCHANGED <<revoked, selection, cand, issued, pointer>>

advance_canary(r) ==
    /\ rel[r].state = "approved"
    /\ Revalidates(r) /\ Writable(r, rel)
    /\ rel' = Written(rel, r, "canary")
    /\ UNCHANGED <<revoked, selection, cand, issued, parentSel, pointer>>

\* Mistake: the epoch stays.
cas_pointer_alone(p, epoch, expected, next) ==
    /\ PointerReads(p) /\ pointer[p].epoch = epoch /\ pointer[p].active = expected
    /\ pointer' = [pointer EXCEPT ![p] = [active |-> next, epoch |-> epoch, host |-> SelectedHost(p)]]

\* cas_pointer_in_session with the epoch the caller read.
cas_pointer(p, epoch, expected, next) ==
    /\ PointerReads(p)
    /\ pointer[p].epoch = epoch
    /\ pointer[p].active = expected
    /\ pointer' = [pointer EXCEPT ![p] = [active |-> next, epoch |-> epoch + 1, host |-> SelectedHost(p)]]

\* The release approved against this one as its base gives way to it.
Supersede(rels, r) ==
    IF rels[r].base = None THEN rels ELSE Written(rels, rels[r].base, "superseded")

activate(r, epoch) ==
    LET base == rel[r].base
        without == Supersede(rel, r)
    IN
    /\ rel[r].state = "canary"
    /\ Revalidates(r)
    /\ cas_pointer(ReleaseProfile(r), epoch, base, r)
    /\ base # None => /\ rel[base].state = "active"
                      /\ Signed(base, rel)
                      /\ Writable(base, rel)
    /\ Writable(r, without)
    /\ rel' = Written(without, r, "active")
    /\ UNCHANGED <<revoked, selection, cand, issued, parentSel>>

\* The states a rollback may return to.
RollbackStates == {"superseded"}

rollback(p, target, epoch) ==
    LET current == pointer[p].active
        without == Written(rel, current, "rolled_back")
    IN
    /\ current \notin {None, target}
    /\ Signed(current, rel)
    /\ ReleaseProfile(target) = p /\ rel[target].state \in RollbackStates
    /\ Revalidates(target)
    /\ cas_pointer(p, epoch, current, target)
    /\ Writable(current, rel) /\ Writable(target, without)
    /\ rel' = Written(without, target, "active")
    /\ UNCHANGED <<revoked, selection, cand, issued, parentSel>>

ReleaseNext ==
    \/ \E s \in Sources : begin_revoke_source(s)
    \/ \E p \in Profiles, g \in Registrations : freeze_profile_original(p, g)
    \/ \E c \in Candidates : stage_current_bundle(c)
    \/ \E r \in Reports :
         \/ issue_complete_authority(r)
         \/ approve_verified(r)
         \/ advance_canary(r)
         \/ \E e \in 0..pointer[ReleaseProfile(r)].epoch : activate(r, e)
         \/ \E e \in 0..pointer[ReleaseProfile(r)].epoch : rollback(ReleaseProfile(r), r, e)

ReleaseSpec == ReleaseInit /\ [][ReleaseNext]_relVars
-----------------------------------------------------------------------------
(* Properties.                                                             *)

\* Candidates and releases a release rests on.
Foundations(r) == UNION {SourcesOf[c] : c \in Ancestry(Judges[r])}

\* The pointer of a profile names its one active release: activate and rollback
\* change the pointer and two rows in one transaction, for whatever base the
\* approval recorded.
OneActive ==
    \A p \in Profiles :
      {r \in Reports : ReleaseProfile(r) = p /\ rel[r].state = "active"} = {pointer[p].active} \ {None}

\* One bundle is approved through one report: a second judgment of the candidate
\* (record_parent_approval) is refused, so a lineage has one release per bundle.
OneApprovalPerBundle ==
    \A c \in Candidates : Cardinality({r \in Reports : Judges[r] = c /\ rel[r].state # "none"}) <= 1

\* No step makes a release active when a source of it, or of any candidate it
\* descends from, has been revoked since (revalidate_current_release).
ActivatedIsClean ==
    [][\A r \in Reports : rel[r].state # "active" /\ rel'[r].state = "active"
                           => Foundations(r) \cap revoked = {}]_relVars

\* A release that was rolled back never serves again.
RolledBackIsFinal ==
    [][\A r \in Reports : rel[r].state = "rolled_back" => rel'[r] = rel[r]]_relVars

=============================================================================
