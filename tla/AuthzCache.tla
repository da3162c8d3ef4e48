----------------------------- MODULE AuthzCache ------------------------------
(***************************************************************************)
(* The authorisation cache of the portal (lib/server/cache.ts, authz.ts),  *)
(* as the lists use it (routes/(app)/devices and gateways, deviceQuery.ts) *)
(* and as the administration invalidates it (grants, roles, groups,        *)
(* personas, settings).                                                    *)
(*                                                                         *)
(* A list request resolves the user's groups (cached per user), reads the  *)
(* generation (cached in the process for GEN_SOFT_MS), derives the         *)
(* signature of the groups' scopes (cached under generation and groups),   *)
(* reads the generation again, and takes the page of that generation and   *)
(* signature from the cache or from the database.  An edit of grants is    *)
(* committed and then raises the generation; a change of membership is     *)
(* committed and then deletes the user's groups.                           *)
(*                                                                         *)
(* A signature is a hash of scope ids: here it is the set of scopes.  A    *)
(* page is here the set of scopes its devices are in; filters, cursors and *)
(* the count, which takes the same path, are left out.  Grants inherited   *)
(* from ancestor groups count as a group's own.  Any GET may find that its *)
(* entry has expired; a GET or SET that fails, or finds the cache switched *)
(* off, is no different from that.  What else may fail is counted: reading *)
(* the generation, raising it, deleting a key, a step of deleteGroup.      *)
(***************************************************************************)
EXTENDS Naturals, FiniteSets

CONSTANTS
    Proc,       \* portal processes
    Req,        \* list requests that are served at a time
    Admin,      \* administrators' requests that are served at a time
    User,       \* personas
    persona,    \* persona[r]: whom r serves
    Group,      \* groups
    Scope,      \* scopes
    grants0,    \* the scopes each group is granted at first
    member0,    \* the groups each user is in at first
    None,       \* no entry
    GEN_SOFT,   \* how long a process reuses the generation it has read
    MaxLists,   \* bound: list requests
    MaxEdits,   \* bound: what administrators do
    MaxClock,   \* bound: the time
    MaxFaults   \* bound: calls that fail

ASSUME AuthzCacheAssumption ==
    /\ persona \in [Req -> User]
    /\ grants0 \in [Group -> SUBSET Scope]
    /\ member0 \in [User -> SUBSET Group]
    /\ IsFiniteSet(Admin)
    /\ GEN_SOFT \in Nat \ {0} /\ MaxLists \in Nat /\ MaxEdits \in Nat
    /\ MaxClock \in Nat /\ MaxFaults \in Nat

VARIABLES
    scopes,    \* GLOBAL database: the scopes each group is granted
    member,    \* LOCAL database: the groups each user is in
    ver,       \* history: committed edits of grants
    gen,       \* Valkey authz:gen, 0 while there is no such key
    groupsKey, \* Valkey authz:groups:<user>
    sigKey,    \* Valkey authz:sig:<g>:<groups>, with the version it was computed at
    pageKey,   \* Valkey list:dev:<g>:<sig>, with what is known of the request that stored it
    memo,      \* genCache of each process
    req,       \* req[r]: the list request r is serving
    adm,       \* adm[a]: the request a is serving
    clock,     \* time
    lists,     \* how many list requests have come
    edits,     \* how often an administrator has acted
    faults,    \* how often a call has failed
    bumped,    \* history: bumped[g], version and time at which g was made
    regressed, \* history: the first SET of authz:gen has undone a bump
    loose      \* history: users whose groups were stored late or not deleted

database == <<scopes, member, ver>>
entries  == <<groupsKey, sigKey, pageKey>>
history  == <<bumped, regressed, loose>>
vars == <<database, gen, entries, memo, req, adm, clock, lists, edits, faults, history>>

Gens      == 0 .. MaxEdits + 1
Vers      == 0 .. MaxEdits
Times     == 0 .. MaxClock
GroupSets == SUBSET Group
Sigs      == SUBSET Scope

SigEntries  == [sig : Sigs, ver : Vers]
PageEntries == [rows : Sigs, overlap : BOOLEAN]
Memos       == [v : Gens \ {0}, at : Times]
Bumps       == [ver : Vers, at : Times]

ReqPhases == {"idle", "groups", "groups-set", "gen", "gen-read", "gen-init",
              "gen-memo", "sig", "sig-set", "page", "page-set"}
AdmPhases == {"idle", "forget", "incr", "del", "global", "local"}

\* A request that is not being served.  turn: the first or the second authzGen() call;
\* start: when it came; blind: its signature has the generation 0 of a failed read;
\* late: the user's groups have changed since it read them.
NoRequest ==
    [pc |-> "idle", process |-> None, groups |-> {}, turn |-> 1, now |-> 0, g |-> 0, sig |-> {},
     rows |-> {}, sver |-> 0, qver |-> 0, start |-> 0, blind |-> FALSE, late |-> FALSE]

Requests ==
    [pc : ReqPhases, process : Proc \cup {None}, groups : GroupSets, turn : {1, 2}, now : Times, g : Gens,
     sig : Sigs, rows : Sigs, sver : Vers, qver : Vers, start : Times, blind : BOOLEAN,
     late : BOOLEAN]

\* An administrator's request: users is whose groups it deletes from the cache, group the
\* group it removes, bump whether it raises the generation in the end.
NoEdit == [pc |-> "idle", users |-> {}, group |-> None, bump |-> FALSE]

EditRequests == [pc : AdmPhases, users : SUBSET User, group : Group \cup {None}, bump : BOOLEAN]

Init ==
    /\ scopes = grants0
    /\ member = member0
    /\ ver = 0
    /\ gen = 0
    /\ groupsKey = [u \in User |-> None]
    /\ sigKey = [k \in Gens \X GroupSets |-> None]
    /\ pageKey = [k \in Gens \X Sigs |-> None]
    /\ memo = [p \in Proc |-> None]
    /\ req = [r \in Req |-> NoRequest]
    /\ adm = [a \in Admin |-> NoEdit]
    /\ clock = 0
    /\ lists = 0
    /\ edits = 0
    /\ faults = 0
    /\ bumped = [g \in Gens |-> [ver |-> 0, at |-> 0]]
    /\ regressed = FALSE
    /\ loose = {}

\* authz_effective_scopes: what a set of groups is granted.
Effective(gs) == UNION {scopes[x] : x \in gs}

Fault == faults < MaxFaults /\ faults' = faults + 1
Works == UNCHANGED faults

--------------------------------------------------------------------------------
(* A list request *)

At(r, pc) == req[r].pc = pc

\* Somebody opens the list, and process p serves it.
Start(r, p) ==
    /\ At(r, "idle")
    /\ lists < MaxLists
    /\ lists' = lists + 1
    /\ req' = [req EXCEPT ![r] = [NoRequest EXCEPT !.pc = "groups", !.process = p,
                                                   !.start = clock]]
    /\ UNCHANGED <<database, gen, entries, memo, adm, clock, edits, faults, history>>

\* The request goes on with the groups it has; without groups there is no list.
WithGroups(r, gs) ==
    IF gs = {} THEN NoRequest
               ELSE [req[r] EXCEPT !.pc = "gen", !.groups = gs, !.late = FALSE]

\* resolveGroupIds: the cached groups, or those of the membership table.
Groups(r) ==
    LET u == persona[r] IN
    /\ At(r, "groups")
    /\ \/ groupsKey[u] # None /\ req' = [req EXCEPT ![r] = WithGroups(r, groupsKey[u])]
       \/ req' = [req EXCEPT ![r].pc = "groups-set", ![r].groups = member[u]]
    /\ UNCHANGED <<database, gen, entries, memo, adm, clock, lists, edits, faults, history>>

GroupsSet(r) ==
    LET u == persona[r] IN
    /\ At(r, "groups-set")
    /\ groupsKey' = [groupsKey EXCEPT ![u] = req[r].groups]
    /\ loose' = IF req[r].late THEN loose \cup {u} ELSE loose
    /\ req' = [req EXCEPT ![r] = WithGroups(r, req[r].groups)]
    /\ UNCHANGED <<database, gen, sigKey, pageKey, memo, adm, clock, lists, edits, faults, bumped,
                   regressed>>

\* What follows authzGen(): the signature after the first call, the page after the second.
WithGen(r, g) ==
    IF req[r].turn = 1
    THEN [req[r] EXCEPT !.pc = "sig", !.g = g, !.now = 0, !.blind = (g = 0)]
    ELSE [req[r] EXCEPT !.pc = "page", !.g = g, !.now = 0]

Fresh(m, now) == m # None /\ now < m.at + GEN_SOFT

\* authzGen: the generation this process has read a short while ago, or a GET; 0 when
\* the cache is switched off.
Gen(r) ==
    LET p == req[r].process IN
    /\ At(r, "gen")
    /\ \/ Fresh(memo[p], clock) /\ Works /\ req' = [req EXCEPT ![r] = WithGen(r, memo[p].v)]
       \/ ~Fresh(memo[p], clock) /\ Works /\ req' = [req EXCEPT ![r].pc = "gen-read", ![r].now = clock]
       \/ Fault /\ req' = [req EXCEPT ![r] = WithGen(r, 0)]
    /\ UNCHANGED <<database, gen, entries, memo, adm, clock, lists, edits, history>>

\* Mutant of GenRead: without the key the generation is 0.
GenReadZero(r) ==
    /\ At(r, "gen-read")
    /\ req' = [req EXCEPT ![r].pc = "gen-memo", ![r].g = gen]
    /\ UNCHANGED <<database, gen, entries, memo, adm, clock, lists, edits, faults, history>>

GenRead(r) ==
    /\ At(r, "gen-read")
    /\ req' = [req EXCEPT ![r].pc = IF gen = 0 THEN "gen-init" ELSE "gen-memo", ![r].g = gen]
    /\ UNCHANGED <<database, gen, entries, memo, adm, clock, lists, edits, faults, history>>

\* There was no such key: it is set to 1, whatever it has become meanwhile.
GenInit(r) ==
    /\ At(r, "gen-init")
    /\ gen' = 1
    /\ regressed' = (regressed \/ gen > 1)
    /\ req' = [req EXCEPT ![r].pc = "gen-memo", ![r].g = 1]
    /\ UNCHANGED <<database, entries, memo, adm, clock, lists, edits, faults, bumped, loose>>

\* Mutant of GenMemo: the process keeps the answer from when it arrives.
GenMemoAnswered(r) ==
    /\ At(r, "gen-memo")
    /\ memo' = [memo EXCEPT ![req[r].process] = [v |-> req[r].g, at |-> clock]]
    /\ req' = [req EXCEPT ![r] = WithGen(r, req[r].g)]
    /\ UNCHANGED <<database, gen, entries, adm, clock, lists, edits, faults, history>>

\* The answer arrives: the process keeps it from the time of the call on.
GenMemo(r) ==
    /\ At(r, "gen-memo")
    /\ memo' = [memo EXCEPT ![req[r].process] = [v |-> req[r].g, at |-> req[r].now]]
    /\ req' = [req EXCEPT ![r] = WithGen(r, req[r].g)]
    /\ UNCHANGED <<database, gen, entries, adm, clock, lists, edits, faults, history>>

\* Mutant of SigKeyOf: the groups are not in the key.
SigKeyOfGen(g, gs) == <<g, {}>>

\* scopeSignature: the signature cached for this generation and these groups, or the
\* scopes the database grants them.
SigKeyOf(g, gs) == <<g, gs>>

WithSig(r, sig, v) ==
    [req[r] EXCEPT !.pc = "gen", !.turn = 2, !.sig = sig, !.sver = v]

Signature(r) ==
    LET hit == sigKey[SigKeyOf(req[r].g, req[r].groups)] IN
    /\ At(r, "sig")
    /\ \/ hit # None /\ req' = [req EXCEPT ![r] = WithSig(r, hit.sig, hit.ver)]
       \/ req' = [req EXCEPT ![r].pc = "sig-set", ![r].sig = Effective(req[r].groups),
                             ![r].sver = ver]
    /\ UNCHANGED <<database, gen, entries, memo, adm, clock, lists, edits, faults, history>>

\* Mutant of SigSet: the key has the generation of when the signature is stored.
SigSetLate(r) ==
    /\ At(r, "sig-set")
    /\ sigKey' = [sigKey EXCEPT ![SigKeyOf(gen, req[r].groups)] =
                      [sig |-> req[r].sig, ver |-> req[r].sver]]
    /\ req' = [req EXCEPT ![r] = WithSig(r, req[r].sig, req[r].sver)]
    /\ UNCHANGED <<database, gen, groupsKey, pageKey, memo, adm, clock, lists, edits, faults, history>>

SigSet(r) ==
    /\ At(r, "sig-set")
    /\ sigKey' = [sigKey EXCEPT ![SigKeyOf(req[r].g, req[r].groups)] =
                      [sig |-> req[r].sig, ver |-> req[r].sver]]
    /\ req' = [req EXCEPT ![r] = WithSig(r, req[r].sig, req[r].sver)]
    /\ UNCHANGED <<database, gen, groupsKey, pageKey, memo, adm, clock, lists, edits, faults, history>>

\* The page of this generation and signature, or the devices the groups may view now.
Page(r) ==
    /\ At(r, "page")
    /\ \/ /\ pageKey[<<req[r].g, req[r].sig>>] # None
          /\ req' = [req EXCEPT ![r] = NoRequest]
       \/ req' = [req EXCEPT ![r].pc = "page-set", ![r].rows = Effective(req[r].groups),
                             ![r].qver = ver]
    /\ UNCHANGED <<database, gen, entries, memo, adm, clock, lists, edits, faults, history>>

\* What a request that came at time start must know: the bumps GEN_SOFT older.
Knows(start, v) ==
    \A g \in 1 .. gen : bumped[g].at + GEN_SOFT <= start => bumped[g].ver <= v

\* The page shows other scopes than its signature's, because an edit was committed between
\* the two, and it was not in force when r came; or r cannot know, see SettledEditSeen.
Overlapped(r) ==
    /\ req[r].rows # req[r].sig
    /\ req[r].sver < req[r].qver
    /\ regressed \/ req[r].blind \/ Knows(req[r].start, req[r].sver)

PageSet(r) ==
    /\ At(r, "page-set")
    /\ pageKey' = [pageKey EXCEPT ![<<req[r].g, req[r].sig>>] =
                       [rows |-> req[r].rows, overlap |-> Overlapped(r)]]
    /\ req' = [req EXCEPT ![r] = NoRequest]
    /\ UNCHANGED <<database, gen, groupsKey, sigKey, memo, adm, clock, lists, edits, faults, history>>

ReqStep(r) ==
    \/ \E p \in Proc : Start(r, p)
    \/ Groups(r) \/ GroupsSet(r)
    \/ Gen(r) \/ GenRead(r) \/ GenInit(r) \/ GenMemo(r)
    \/ Signature(r) \/ SigSet(r)
    \/ Page(r) \/ PageSet(r)

--------------------------------------------------------------------------------
(* An administrator's request *)

Doing(a, pc) == adm[a].pc = pc

Act(a) ==
    /\ Doing(a, "idle")
    /\ edits < MaxEdits
    /\ edits' = edits + 1

\* createGrant, deleteGrant, setPrivileges: the transaction has committed.
CommitGrants(a, x, S) ==
    /\ Act(a)
    /\ S # scopes[x]
    /\ scopes' = [scopes EXCEPT ![x] = S]
    /\ ver' = ver + 1
    /\ adm' = [adm EXCEPT ![a].pc = "forget"]
    /\ UNCHANGED <<member, gen, entries, memo, req, clock, lists, faults, history>>

\* flushCache: nothing is changed.
Flush(a) ==
    /\ Act(a)
    /\ adm' = [adm EXCEPT ![a].pc = "forget"]
    /\ UNCHANGED <<database, gen, entries, memo, req, clock, lists, faults, history>>

\* bumpAuthzGen: the process that serves it forgets the generation it has read,
\* and then increments.
Forget(a, p) ==
    /\ Doing(a, "forget")
    /\ memo' = [memo EXCEPT ![p] = None]
    /\ adm' = [adm EXCEPT ![a].pc = "incr"]
    /\ UNCHANGED <<database, gen, entries, req, clock, lists, edits, faults, history>>

Incr(a) ==
    /\ Doing(a, "incr")
    /\ \/ /\ Works
          /\ gen' = gen + 1
          /\ bumped' = [bumped EXCEPT ![gen + 1] = [ver |-> ver, at |-> clock]]
       \/ Fault /\ UNCHANGED <<gen, bumped>>
    /\ adm' = [adm EXCEPT ![a] = NoEdit]
    /\ UNCHANGED <<database, entries, memo, req, clock, lists, edits, regressed, loose>>

\* The users' groups are no longer what requests in progress have read.
Overtake(users) ==
    req' = [r \in Req |->
              IF persona[r] \in users /\ At(r, "groups-set")
              THEN [req[r] EXCEPT !.late = TRUE] ELSE req[r]]

\* Mutant of CommitMembership: the cached groups are left to expire.
CommitMembershipOnly(a, u, gs) ==
    /\ Act(a)
    /\ gs # member[u]
    /\ member' = [member EXCEPT ![u] = gs]
    /\ Overtake({u})
    /\ UNCHANGED <<scopes, ver, gen, entries, memo, adm, clock, lists, faults, history>>

\* addMember, removeMember, addMembership, removeMembership, and deletePersona, which
\* removes all memberships.
CommitMembership(a, u, gs) ==
    /\ Act(a)
    /\ gs # member[u]
    /\ member' = [member EXCEPT ![u] = gs]
    /\ Overtake({u})
    /\ adm' = [adm EXCEPT ![a].pc = "del", ![a].users = {u}]
    /\ UNCHANGED <<scopes, ver, gen, entries, memo, clock, lists, faults, history>>

\* invalidateUserGroups, for one user after the other; deleteGroup then goes on to
\* bumpAuthzGen.
AfterDel(a, left) ==
    IF left # {} THEN [adm[a] EXCEPT !.users = left]
    ELSE IF adm[a].bump THEN [adm[a] EXCEPT !.pc = "forget", !.users = {}]
    ELSE NoEdit

Del(a, u) ==
    /\ Doing(a, "del")
    /\ u \in adm[a].users
    /\ \/ Works /\ groupsKey' = [groupsKey EXCEPT ![u] = None] /\ loose' = loose \ {u}
       \/ Fault /\ UNCHANGED groupsKey /\ loose' = loose \cup {u}
    /\ adm' = [adm EXCEPT ![a] = AfterDel(a, adm[a].users \ {u})]
    /\ UNCHANGED <<database, gen, sigKey, pageKey, memo, req, clock, lists, edits, bumped, regressed>>

\* deleteGroup: who is in it; then the group and its grants, in the GLOBAL database; then
\* the memberships, in the LOCAL one, which may fail.
DeleteGroup(a, x) ==
    /\ Act(a)
    /\ adm' = [adm EXCEPT ![a] = [pc |-> "global", users |-> {u \in User : x \in member[u]},
                                  group |-> x, bump |-> TRUE]]
    /\ UNCHANGED <<database, gen, entries, memo, req, clock, lists, faults, history>>

DeleteGlobal(a) ==
    /\ Doing(a, "global")
    /\ scopes' = [scopes EXCEPT ![adm[a].group] = {}]
    /\ ver' = ver + 1
    /\ adm' = [adm EXCEPT ![a].pc = "local"]
    /\ UNCHANGED <<member, gen, entries, memo, req, clock, lists, edits, faults, history>>

DeleteLocal(a) ==
    LET x    == adm[a].group
        were == {u \in User : x \in member[u]}
    IN
    /\ Doing(a, "local")
    /\ \/ /\ Works
          /\ member' = [u \in User |-> member[u] \ {x}]
          /\ Overtake(were)
          /\ adm' = [adm EXCEPT ![a] = AfterDel(a, adm[a].users),
                                ![a].pc = IF adm[a].users = {} THEN "forget" ELSE "del"]
          /\ loose' = loose \cup (were \ adm[a].users)
       \/ /\ Fault
          /\ adm' = [adm EXCEPT ![a] = NoEdit]
          /\ UNCHANGED <<member, req, loose>>
    /\ UNCHANGED <<scopes, ver, gen, entries, memo, clock, lists, edits, bumped, regressed>>

AdminStep(a) ==
    \/ \E x \in Group, S \in Sigs : CommitGrants(a, x, S)
    \/ Flush(a)
    \/ \E p \in Proc : Forget(a, p)
    \/ Incr(a)
    \/ \E u \in User, x \in Group :
          \E gs \in {member[u] \cup {x}, member[u] \ {x}, {}} : CommitMembership(a, u, gs)
    \/ \E u \in User : Del(a, u)
    \/ \E x \in Group : DeleteGroup(a, x)
    \/ DeleteGlobal(a) \/ DeleteLocal(a)

--------------------------------------------------------------------------------
(* Time *)

\* Time passes; what a process has memoised for too long is as good as gone.
Tick ==
    /\ clock < MaxClock
    /\ clock' = clock + 1
    /\ memo' = [p \in Proc |-> IF Fresh(memo[p], clock + 1) THEN memo[p] ELSE None]
    /\ UNCHANGED <<database, gen, entries, req, adm, lists, edits, faults, history>>

Next ==
    \/ \E r \in Req : ReqStep(r)
    \/ \E a \in Admin : AdminStep(a)
    \/ Tick

Spec == Init /\ [][Next]_vars

--------------------------------------------------------------------------------
(* Properties *)

\* Types, and what may not be stored at all: a process never memoises the generation 0
\* of a failed or disabled read (authzGen).
TypeOK ==
    /\ scopes \in [Group -> SUBSET Scope]
    /\ member \in [User -> SUBSET Group]
    /\ ver \in Vers
    /\ gen \in Gens
    /\ groupsKey \in [User -> GroupSets \cup {None}]
    /\ sigKey \in [Gens \X GroupSets -> SigEntries \cup {None}]
    /\ pageKey \in [Gens \X Sigs -> PageEntries \cup {None}]
    /\ memo \in [Proc -> Memos \cup {None}]
    /\ req \in [Req -> Requests]
    /\ adm \in [Admin -> EditRequests]
    /\ clock \in Times /\ lists \in 0 .. MaxLists
    /\ edits \in 0 .. MaxEdits /\ faults \in 0 .. MaxFaults
    /\ bumped \in [Gens -> Bumps]
    /\ regressed \in BOOLEAN
    /\ loose \subseteq User

\* "A single INCR logically invalidates all of them at once" (cache.ts): a signature
\* under generation g is of a version that has every edit committed when g was made.
\* The generation is read before the database, so that no signature of older grants is
\* ever stored under it; unless the first SET of the key has undone a bump.
SigReflectsBump ==
    regressed \/ \A g \in Gens, gs \in GroupSets :
        sigKey[<<g, gs>>] # None => sigKey[<<g, gs>>].ver >= bumped[g].ver

HasSig(r) == req[r].pc \in {"sig-set", "page", "page-set"} \/ req[r].turn = 2

\* An edit is in force everywhere GEN_SOFT_MS after its bump: a request that comes later
\* takes its signature from grants that include it, whichever process serves it and
\* however old the answers are that its process has still to receive.  Not so for a
\* request whose GET of the generation failed: entries under 0 are never invalidated.
SettledEditSeen ==
    \A r \in Req : HasSig(r) => regressed \/ req[r].blind \/ Knows(req[r].start, req[r].sver)

\* What EditVisibility sees: the announcements, unless they are lost; of a request, how far
\* it is, the edits that were in force when it came, and the version of its signature.
Announced == IF regressed THEN {} ELSE {bumped[g] : g \in {h \in 1 .. gen : bumped[h].ver > 0}}

EditsAt(t) ==
    {e \in 1 .. ver : \E g \in 1 .. gen : bumped[g].at + GEN_SOFT <= t /\ e <= bumped[g].ver}

StageOf(r) == IF At(r, "idle") THEN "idle" ELSE IF HasSig(r) THEN "read" ELSE "open"
MustOf(r)  == IF At(r, "idle") \/ regressed THEN {} ELSE EditsAt(req[r].start)
SeenOf(r)  == IF StageOf(r) = "read" THEN req[r].sver ELSE 0

Visibility == INSTANCE EditVisibility
                  WITH Requests <- Req, Delay <- GEN_SOFT, announced <- Announced,
                       stage <- [r \in Req |-> StageOf(r)],
                       must <- [r \in Req |-> MustOf(r)],
                       seen <- [r \in Req |-> SeenOf(r)],
                       excused <- {r \in Req : req[r].blind},
                       lapsed <- regressed

\* The generation, its copies in the processes and the entries under it implement
\* EditVisibility: from GEN_SOFT_MS after a bump on, every request that comes works with a
\* signature that has the edits before the bump, and it never changes that signature.
ImplementsVisibility == Visibility!VisSpec

\* The cached groups of a user are those of the membership table, unless the change is
\* about to be deleted from the cache, or a request stored what it had read before the
\* change after the deletion, or the deletion failed.
GroupsStaleOnlyLate ==
    \A u \in User :
        \/ groupsKey[u] \in {None, member[u]}
        \/ u \in loose
        \/ \E a \in Admin : Doing(a, "del") /\ u \in adm[a].users

\* "Users sharing the same visible set collapse onto one cached page" (devices load): the
\* page of a signature shows the devices of that signature.  It shows others only when
\* an edit was committed between the signature and the query, and then that edit had not
\* been in force when the request that stored it came.
ForeignPageOnlyUnsettled ==
    \A g \in Gens, s \in Sigs :
        LET page == pageKey[<<g, s>>] IN
        page # None /\ page.rows # s => page.overlap
=============================================================================
