-------------------------------- MODULE Lan --------------------------------
(***************************************************************************)
(* How a device comes onto the local network and how another one finds it: *)
(* init_app and start_networking (ffi.rs), the stored identity             *)
(* (storage.rs, identity.rs) and the peer table of discovery.rs.           *)
(*                                                                         *)
(* Every call of init_app or start_networking has a number, which also     *)
(* names the identity the call would generate and the port of the stack    *)
(* (endpoint, discovery, connection manager) it would start.  The process  *)
(* of the device may die and start again; the database stays.  The other   *)
(* device keeps one entry per device id, from mDNS or from UDP broadcast,  *)
(* and drops an entry that is EXPIRY ticks old when its UI polls.          *)
(***************************************************************************)
EXTENDS Naturals

CONSTANTS
    Calls,      \* the calls that may ever be made (a bound)
    None,
    EXPIRY      \* age at which known_peers drops an entry (30 s in the code)

ASSUME LanAssumption ==
    /\ None \notin Calls
    /\ EXPIRY \in Nat \ {0}

VARIABLES
    row,        \* the identity in self_identity, or None
    stage,      \* call -> where it stands
    mine,       \* call -> the identity it loaded or generated, or None
    cell,       \* the call whose Session SESSION holds, or None
    live,       \* calls whose stack runs: it accepts and announces
    table       \* at the other device: device id -> entry, or None

vars == <<row, stage, mine, cell, live, table>>

Identities == Calls

Entries == [addr : Calls, via : {"Mdns", "UdpBroadcast"}, age : 0 .. EXPIRY]

\* initLoad, initSave: in init_app; load, save, bind, set: in start_networking.
Stages == {"idle", "initLoad", "initSave", "load", "save", "bind", "set", "done"}

Init ==
    /\ row = None
    /\ stage = [c \in Calls |-> "idle"]
    /\ mine = [c \in Calls |-> None]
    /\ cell = None
    /\ live = {}
    /\ table = [i \in Identities |-> None]

Goto(c, to) == stage' = [stage EXCEPT ![c] = to]

\* Both apps call init_app from the thread of their UI, before anything else:
\* no other call is under way.
InitApp(c) ==
    /\ \A d \in Calls : stage[d] \in {"idle", "done"}
    /\ stage[c] = "idle"
    /\ Goto(c, "initLoad")
    /\ UNCHANGED <<row, mine, cell, live, table>>

\* start_networking, "called once after init_app".  It does nothing if SESSION
\* is set; several threads may pass this test.
StartNetworkingMutantBeforeInit(c) ==   \* Fault: the caller does not wait for init_app
    /\ stage[c] = "idle"
    /\ Goto(c, IF cell # None THEN "done" ELSE "load")
    /\ UNCHANGED <<row, mine, cell, live, table>>

StartNetworking(c) ==
    /\ row # None
    /\ \A d \in Calls : stage[d] \notin {"initLoad", "initSave"}
    /\ stage[c] = "idle"
    /\ Goto(c, IF cell # None THEN "done" ELSE "load")
    /\ UNCHANGED <<row, mine, cell, live, table>>

\* load_or_create_identity: from_stored accepts what to_stored wrote; without
\* a row an identity is generated, and stored in a statement of its own.
LoadMutantAlwaysNew(c) ==   \* Fault: the stored identity is not looked for
    /\ stage[c] \in {"initLoad", "load"}
    /\ mine' = [mine EXCEPT ![c] = c]
    /\ Goto(c, IF stage[c] = "initLoad" THEN "initSave" ELSE "save")
    /\ UNCHANGED <<row, cell, live, table>>

Load(c) ==
    /\ stage[c] \in {"initLoad", "load"}
    /\ IF row # None
       THEN /\ mine' = [mine EXCEPT ![c] = row]
            /\ Goto(c, IF stage[c] = "initLoad" THEN "done" ELSE "bind")
       ELSE /\ mine' = [mine EXCEPT ![c] = c]
            /\ Goto(c, IF stage[c] = "initLoad" THEN "initSave" ELSE "save")
    /\ UNCHANGED <<row, cell, live, table>>

\* save_identity: INSERT OR REPLACE of the one row.
Save(c) ==
    /\ stage[c] \in {"initSave", "save"}
    /\ row' = mine[c]
    /\ Goto(c, IF stage[c] = "initSave" THEN "done" ELSE "bind")
    /\ UNCHANGED <<mine, cell, live, table>>

\* The endpoint is bound, Discovery::start announces the port, the accept loop
\* is spawned.
Bind(c) ==
    /\ stage[c] = "bind"
    /\ live' = live \cup {c}
    /\ Goto(c, "set")
    /\ UNCHANGED <<row, mine, cell, table>>

\* The directory, the endpoint or mDNS fails: an error, nothing runs.
StartFails(c) ==
    /\ stage[c] = "bind"
    /\ Goto(c, "done")
    /\ UNCHANGED <<row, mine, cell, live, table>>

\* SESSION.set: the first call wins.  The stack of a later one is not stopped:
\* its announcer threads and its accept loop do not depend on the Session.
SetSession(c) ==
    /\ stage[c] = "set"
    /\ cell' = IF cell = None THEN c ELSE cell
    /\ Goto(c, "done")
    /\ UNCHANGED <<row, mine, live, table>>

\* Fault: the process dies (and may be started again).
Crash ==
    /\ \E c \in Calls : stage[c] # "idle" /\ (stage[c] # "done" \/ c \in live)
    /\ cell' = None
    /\ live' = {}
    /\ stage' = [c \in Calls |-> IF stage[c] = "idle" THEN "idle" ELSE "done"]
    /\ UNCHANGED <<row, mine, table>>

-----------------------------------------------------------------------------
(* Discovery at the other device *)

EntryMutantNoAddr(c, via) ==   \* Fault: a peer without an address is kept
    [addr |-> None, via |-> via, age |-> 0]

Entry(c, via) == [addr |-> c, via |-> via, age |-> 0]

\* The mDNS browse loop: a resolved service replaces the entry.
ServiceResolvedMutantFirstOnly(c) ==   \* Fault: a known peer keeps its address
    /\ c \in live
    /\ table' = [table EXCEPT ![mine[c]] =
                    IF @ = None THEN Entry(c, "Mdns") ELSE [@ EXCEPT !.age = 0]]
    /\ UNCHANGED <<row, stage, mine, cell, live>>

ServiceResolved(c) ==
    /\ c \in live
    /\ table' = [table EXCEPT ![mine[c]] = Entry(c, "Mdns")]
    /\ UNCHANGED <<row, stage, mine, cell, live>>

\* The UDP listener: an entry from mDNS is only refreshed.
BroadcastHeard(c) ==
    /\ c \in live
    /\ table' = [table EXCEPT ![mine[c]] =
                    IF @ = None \/ @.via # "Mdns" THEN Entry(c, "UdpBroadcast")
                                                  ELSE [@ EXCEPT !.age = 0]]
    /\ UNCHANGED <<row, stage, mine, cell, live>>

\* Time passes; ages are counted up to EXPIRY, beyond which nothing differs.
Tick ==
    /\ \E i \in Identities : table[i] # None /\ table[i].age < EXPIRY
    /\ table' = [i \in Identities |->
                    IF table[i] = None \/ table[i].age = EXPIRY THEN table[i]
                    ELSE [table[i] EXCEPT !.age = @ + 1]]
    /\ UNCHANGED <<row, stage, mine, cell, live>>

\* discover_peers, which the UI calls every few seconds.
KnownPeersMutantKeeps ==   \* Fault: an entry of the last second is kept
    /\ \E i \in Identities : table[i] # None /\ table[i].age > EXPIRY
    /\ table' = [i \in Identities |->
                    IF table[i] # None /\ table[i].age > EXPIRY THEN None ELSE table[i]]
    /\ UNCHANGED <<row, stage, mine, cell, live>>

KnownPeers ==
    /\ \E i \in Identities : table[i] # None /\ table[i].age >= EXPIRY
    /\ table' = [i \in Identities |->
                    IF table[i] # None /\ table[i].age >= EXPIRY THEN None ELSE table[i]]
    /\ UNCHANGED <<row, stage, mine, cell, live>>

CallStep(c) == Load(c) \/ Save(c) \/ Bind(c) \/ StartFails(c) \/ SetSession(c)

Next ==
    \/ \E c \in Calls : \/ InitApp(c) \/ StartNetworking(c) \/ CallStep(c)
                        \/ ServiceResolved(c) \/ BroadcastHeard(c)
    \/ Crash \/ Tick \/ KnownPeers

Spec == Init /\ [][Next]_vars

\* Calls return; time passes; the UI polls; a stack broadcasts every 5 s and
\* its mDNS registration is answered again and again.
FairSpec ==
    /\ Spec
    /\ \A c \in Calls : /\ WF_vars(CallStep(c))
                        /\ WF_vars(ServiceResolved(c))
                        /\ WF_vars(BroadcastHeard(c))
    /\ WF_vars(Tick)
    /\ WF_vars(KnownPeers)

-----------------------------------------------------------------------------
(* Properties *)

TypeOK ==
    /\ row \in Identities \cup {None}
    /\ stage \in [Calls -> Stages]
    /\ mine \in [Calls -> Identities \cup {None}]
    /\ cell \in Calls \cup {None}
    /\ live \subseteq Calls
    /\ table \in [Identities -> Entries \cup {None}]

\* A device has one identity, also across crashes at any point of a first
\* launch and with racing calls of start_networking: whatever runs, runs under
\* the stored identity, and whatever another device has in its peer table is
\* that identity (load_or_create_identity).
OneIdentity ==
    /\ \A c \in live : mine[c] = row
    /\ cell # None => mine[cell] = row
    /\ \A i \in Identities : table[i] # None => i = row

\* Once an identity is stored it stays: a generated identity that could still
\* be written over it never exists (save_identity replaces the row).
IdentityStays == [][row # None => row' = row]_vars

\* A device that went away for good leaves the peer table (known_peers).
GoneIsForgotten ==
    \A i \in Identities :
        <>[](\A c \in live : mine[c] # i) => <>[](table[i] = None)

\* A device whose only stack runs for good is found at the address it listens
\* on, also when it was restarted on another port while its old entry was
\* still in the table.
StackFound(c) ==
    mine[c] # None /\ table[mine[c]] # None /\ table[mine[c]].addr = c
RunningIsFound ==
    \A c \in Calls : <>[](live = {c}) => []<> StackFound(c)

-----------------------------------------------------------------------------
(* What a comment of the code claims, and the code does not do *)

\* start_networking: "Idempotent: calling twice is a no-op".  However its calls
\* race, no second stack announces and accepts beside the first.
OneStack == \A c, d \in live : c = d
=============================================================================
