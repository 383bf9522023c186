----------------------------- MODULE LanProofs -----------------------------
(***************************************************************************)
(* Theorems about Lan: type correctness, and that a device has one         *)
(* identity for good, for every number of calls and crashes.               *)
(***************************************************************************)
EXTENDS Lan, TLAPS

(* What makes OneIdentity inductive.  init_app runs alone, so an identity  *)
(* is generated only while there is no row and nothing else is under way;  *)
(* start_networking is called with a row in place, so it never generates.  *)

Alone ==
    \A c, d \in Calls :
        stage[c] \in {"initLoad", "initSave"} /\ d # c => stage[d] \in {"idle", "done"}

NoRowYet ==
    /\ \A c \in Calls : stage[c] = "initSave" => row = None
    /\ \A c \in Calls : stage[c] # "save"
    /\ \A c \in Calls : stage[c] \in {"load", "bind", "set"} => row # None

LoadedIsRow ==
    /\ \A c \in Calls : stage[c] \in {"bind", "set"} => mine[c] = row
    /\ \A c \in live : stage[c] \in {"set", "done"} /\ mine[c] = row /\ row # None
    /\ cell # None => stage[cell] = "done" /\ mine[cell] = row /\ row # None
    /\ \A i \in Identities : table[i] # None => i = row

IInv == TypeOK /\ Alone /\ NoRowYet /\ LoadedIsRow

-----------------------------------------------------------------------------
LEMMA InitHolds == Init => IInv
BY LanAssumption DEF Init, IInv, TypeOK, Alone, NoRowYet, LoadedIsRow, Identities,
   Entries, Stages

\* The steps of a call before it binds anything.
LEMMA EntryKeeps ==
    ASSUME IInv, NEW c \in Calls, InitApp(c) \/ StartNetworking(c)
    PROVE  IInv'
<1>1. CASE InitApp(c)
  BY <1>1, LanAssumption DEF InitApp, IInv, TypeOK, Alone, NoRowYet, LoadedIsRow,
     Identities, Stages, Goto
<1>2. CASE StartNetworking(c)
  BY <1>2, LanAssumption DEF StartNetworking, IInv, TypeOK, Alone, NoRowYet,
     LoadedIsRow, Identities, Stages, Goto
<1> QED BY <1>1, <1>2

LEMMA IdentityKeeps ==
    ASSUME IInv, NEW c \in Calls, Load(c) \/ Save(c)
    PROVE  IInv'
<1>1. CASE Load(c)
  <2>1. c \notin live /\ cell # c
    BY <1>1, LanAssumption DEF Load, IInv, TypeOK, LoadedIsRow, Stages
  <2>2. TypeOK'
    BY <1>1 DEF Load, IInv, TypeOK, Identities, Stages, Goto
  <2>3. Alone' /\ NoRowYet'
    BY <1>1, LanAssumption DEF Load, IInv, TypeOK, Alone, NoRowYet, Identities,
       Stages, Goto
  <2>4. LoadedIsRow'
    BY <1>1, <2>1, LanAssumption DEF Load, IInv, TypeOK, NoRowYet, LoadedIsRow,
       Identities, Stages, Goto
  <2> QED BY <2>2, <2>3, <2>4 DEF IInv
<1>2. CASE Save(c)
  <2>1. row = None /\ stage[c] = "initSave"
    BY <1>2 DEF Save, IInv, NoRowYet
  <2>2. \A d \in Calls : d # c => stage[d] \in {"idle", "done"}
    BY <2>1 DEF IInv, Alone
  <2>3. live = {} /\ cell = None /\ \A i \in Identities : table[i] = None
    BY <2>1, LanAssumption DEF IInv, TypeOK, LoadedIsRow, Identities
  <2> QED
    BY <1>2, <2>1, <2>2, <2>3, LanAssumption DEF Save, IInv, TypeOK, Alone, NoRowYet,
       LoadedIsRow, Identities, Stages, Goto
<1> QED BY <1>1, <1>2

LEMMA StackKeeps ==
    ASSUME IInv, NEW c \in Calls, Bind(c) \/ StartFails(c) \/ SetSession(c)
    PROVE  IInv'
<1>1. CASE Bind(c)
  BY <1>1, LanAssumption DEF Bind, IInv, TypeOK, Alone, NoRowYet, LoadedIsRow,
     Identities, Stages, Goto
<1>2. CASE StartFails(c)
  BY <1>2, LanAssumption DEF StartFails, IInv, TypeOK, Alone, NoRowYet, LoadedIsRow,
     Identities, Stages, Goto
<1>3. CASE SetSession(c)
  BY <1>3, LanAssumption DEF SetSession, IInv, TypeOK, Alone, NoRowYet, LoadedIsRow,
     Identities, Stages, Goto
<1> QED BY <1>1, <1>2, <1>3

LEMMA CrashKeeps == ASSUME IInv, Crash PROVE IInv'
BY LanAssumption DEF Crash, IInv, TypeOK, Alone, NoRowYet, LoadedIsRow, Identities, Stages

\* Only the table changes, and a new entry is of a stack that runs.
LEMMA TableKeeps ==
    ASSUME IInv, UNCHANGED <<row, stage, mine, cell, live>>,
           table' \in [Identities -> Entries \cup {None}],
           \A i \in Identities : table'[i] # None /\ table[i] = None => i = row
    PROVE  IInv'
BY DEF IInv, TypeOK, Alone, NoRowYet, LoadedIsRow, Identities

LEMMA DiscoveryKeeps ==
    ASSUME IInv, NEW c \in Calls, ServiceResolved(c) \/ BroadcastHeard(c)
    PROVE  IInv'
<1>1. mine[c] = row /\ row \in Identities
  BY DEF ServiceResolved, BroadcastHeard, IInv, TypeOK, LoadedIsRow
<1>2. 0 \in 0 .. EXPIRY
  BY LanAssumption
<1>3. table' \in [Identities -> Entries \cup {None}]
  <2>1. CASE ServiceResolved(c)
    BY <1>1, <1>2, <2>1 DEF ServiceResolved, IInv, TypeOK, Entries, Entry, Identities
  <2>2. CASE BroadcastHeard(c)
    BY <1>1, <1>2, <2>2 DEF BroadcastHeard, IInv, TypeOK, Entries, Entry, Identities
  <2> QED BY <2>1, <2>2
<1>4. \A i \in Identities : table'[i] # None /\ table[i] = None => i = row
  BY <1>1 DEF ServiceResolved, BroadcastHeard, IInv, TypeOK
<1> QED BY <1>3, <1>4, TableKeeps DEF ServiceResolved, BroadcastHeard

LEMMA TimeKeeps == ASSUME IInv, Tick \/ KnownPeers PROVE IInv'
<1>1. table' \in [Identities -> Entries \cup {None}]
  <2>1. CASE Tick
    <3>1. ASSUME NEW i \in Identities PROVE table'[i] \in Entries \cup {None}
      <4>1. CASE table[i] = None \/ table[i].age = EXPIRY
        BY <2>1, <4>1 DEF Tick, IInv, TypeOK
      <4>2. CASE ~ (table[i] = None \/ table[i].age = EXPIRY)
        <5>1. /\ table[i] \in Entries
              /\ table'[i] = [table[i] EXCEPT !.age = @ + 1]
          BY <2>1, <4>2 DEF Tick, IInv, TypeOK
        <5>2. table[i].age + 1 \in 0 .. EXPIRY
          BY <4>2, <5>1, LanAssumption DEF Entries
        <5> QED BY <5>1, <5>2 DEF Entries
      <4> QED BY <4>1, <4>2
    <3> QED BY <2>1, <3>1 DEF Tick
  <2>2. CASE KnownPeers
    BY <2>2 DEF KnownPeers, IInv, TypeOK
  <2> QED BY <2>1, <2>2
<1>2. \A i \in Identities : table'[i] # None /\ table[i] = None => i = row
  BY DEF Tick, KnownPeers, IInv, TypeOK
<1> QED BY <1>1, <1>2, TableKeeps DEF Tick, KnownPeers

LEMMA NextKeeps == ASSUME IInv, [Next]_vars PROVE IInv'
<1>1. CASE Next
  BY <1>1, EntryKeeps, IdentityKeeps, StackKeeps, CrashKeeps, DiscoveryKeeps, TimeKeeps
     DEF Next, CallStep
<1>2. CASE UNCHANGED vars
  BY <1>2 DEF vars, IInv, TypeOK, Alone, NoRowYet, LoadedIsRow
<1> QED BY <1>1, <1>2

\* IInv holds in every state of every behaviour.
THEOREM InductiveInvariant == Spec => []IInv
BY InitHolds, NextKeeps, PTL DEF Spec

\* The variables of init_app, start_networking and the peer table keep their
\* types, for every number of calls and every expiry.
THEOREM TypeCorrect == Spec => []TypeOK
<1>1. IInv => TypeOK
  BY DEF IInv
<1> QED BY <1>1, InductiveInvariant, PTL

\* Whatever runs, is held in SESSION or is known to another device is the
\* stored identity (load_or_create_identity), whatever crashes and races.
THEOREM OneIdentityHolds == Spec => []OneIdentity
<1>1. IInv => OneIdentity
  BY DEF IInv, LoadedIsRow, OneIdentity
<1> QED BY <1>1, InductiveInvariant, PTL

\* A stored identity is never replaced (save_identity).
THEOREM IdentityIsKept == Spec => IdentityStays
<1>1. ASSUME IInv, [Next]_vars PROVE row # None => row' = row
  <2>1. ASSUME NEW c \in Calls, Save(c) PROVE row = None
    BY <1>1, <2>1 DEF Save, IInv, NoRowYet
  <2> QED
    BY <1>1, <2>1 DEF Next, CallStep, InitApp, StartNetworking, Load, Bind, StartFails,
       SetSession, ServiceResolved, BroadcastHeard, Crash, Tick, KnownPeers, vars
<1>2. IInv /\ [Next]_vars => [row # None => row' = row]_vars
  BY <1>1
<1> QED BY <1>2, InductiveInvariant, PTL DEF Spec, IdentityStays
=============================================================================
