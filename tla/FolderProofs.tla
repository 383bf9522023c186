---------------------------- MODULE FolderProofs ----------------------------
(***************************************************************************)
(* Theorems about Folder: type correctness, that nothing is offered that   *)
(* R's user did not accept, that the results of a call are exact and that  *)
(* an answer reaches the call that waits for it, for every number of       *)
(* calls, every folder and every number of faults.                         *)
(***************************************************************************)
EXTENDS Folder, TLAPS

(* What makes the three safety properties inductive.                       *)

\* The i-th message under way to R is the offer of batch b.
IsOffer(i, b) == wire["S"][i].kind = "FolderOffer" /\ wire["S"][i].b = b

\* What is under way to S are the decisions of R's user, to R only offers.
WireInv ==
    /\ \A i \in 1 .. Len(wire["R"]) :
          /\ wire["R"][i].kind \in Answers
          /\ decision[wire["R"][i].b] = wire["R"][i].kind
    /\ \A i \in 1 .. Len(wire["S"]) : wire["S"][i].kind \notin Answers

\* A batch is offered once, and R's user is asked about it at most once: while
\* the offer is under way or the question open there is no decision, and before
\* the offer goes out there is nothing at all.
AskInv ==
    \A b \in Batches :
        /\ \A i \in 1 .. Len(wire["S"]) : IsOffer(i, b) =>
              /\ decision[b] = "none" /\ b \notin asked
              /\ stage[b] \notin {"idle", "manifest", "armed"}
              /\ \A j \in 1 .. Len(wire["S"]) : IsOffer(j, b) => j = i
        /\ b \in asked => decision[b] = "none"
        /\ stage[b] \in {"idle", "manifest", "armed"} =>
              decision[b] = "none" /\ b \notin asked

\* What S knows and does follows the decision.
AnswerInv ==
    \A b \in Batches :
        /\ answer[b] # "none" => decision[b] = answer[b]
        /\ stage[b] \in {"agreed", "sending", "persist", "returned"}
              => decision[b] = "accept"

\* The results come from the part of the manifest the loop has passed.
ResultInv ==
    \A b \in Batches :
        /\ stage[b] = "idle" => /\ pos[b] = 1 /\ results[b] = << >>
                                /\ \A f \in Files : <<b, f>> \notin skipped
        /\ \A i \in DOMAIN results[b] :
              \E k \in DOMAIN files[b] : k < pos[b] /\ files[b][k] = results[b][i]

IInv == /\ TypeOK /\ WireInv /\ AskInv /\ AnswerInv /\ ResultInv
        /\ FilesOnlyAfterAccept /\ ResultsExact /\ AnswerIsHeard

-----------------------------------------------------------------------------
\* A folder is a sequence of files.
LEMMA FolderTyped == \A fs \in Folders \cup {<< >>} : fs \in Seq(Files)
<1>1. \A fs \in Folders : fs \in Seq(Files)
  BY FolderAssumption
<1>2. << >> \in Seq(Files)
  OBVIOUS
<1> QED BY <1>1, <1>2

\* A manifest is a finite sequence of files.
LEMMA ManifestTyped ==
    ASSUME TypeOK, NEW b \in Batches
    PROVE  /\ files[b] \in Seq(Files)
           /\ Len(files[b]) \in Nat
           /\ DOMAIN files[b] = 1 .. Len(files[b])
           /\ results[b] \in Seq(Files)
           /\ Len(results[b]) \in Nat
           /\ DOMAIN results[b] = 1 .. Len(results[b])
<1>1. files[b] \in Seq(Files)
  BY FolderTyped DEF TypeOK
<1>2. results[b] \in Seq(Files)
  BY DEF TypeOK
<1> QED BY <1>1, <1>2

\* A step that leaves the calls' results alone, shows R nothing new and lets a
\* call out of its loop only at the end of the manifest.
LEMMA KeepResults ==
    ASSUME IInv, UNCHANGED <<files, pos, results, rows, skipped>>,
           \A b \in Batches :
              /\ stage'[b] = "idle" => stage[b] = "idle"
              /\ stage[b] = "returned" => stage'[b] = "returned"
              /\ stage'[b] \in {"persist", "returned"} =>
                    stage[b] \in {"persist", "returned"} \/ pos[b] = Len(files[b]) + 1,
           \A b \in Batches, f \in Files :
              UnderWay(b, f)' \/ <<b, f>> \in prompted' => UnderWay(b, f) \/ <<b, f>> \in prompted
    PROVE  ResultInv' /\ ResultsExact'
<1>1. ResultInv'
  BY DEF IInv, ResultInv
<1>2. \A b \in Batches, f \in Files : Returned(b, f)' <=> Returned(b, f)
  BY DEF Returned
<1>3. ASSUME NEW b \in Batches
      PROVE  /\ InManifestOrder(b)' /\ EveryFileAccounted(b)' /\ ShownIsReturned(b)'
             /\ RowsAreResults(b)'
  <2>1. InManifestOrder(b) /\ EveryFileAccounted(b) /\ ShownIsReturned(b) /\ RowsAreResults(b)
    BY DEF IInv, ResultsExact
  <2>2. InManifestOrder(b)'
    BY <2>1 DEF InManifestOrder
  <2>3. EveryFileAccounted(b)'
    BY <2>1 DEF EveryFileAccounted, Returned
  <2>4. ShownIsReturned(b)'
    BY <1>2, <2>1 DEF ShownIsReturned
  <2>5. RowsAreResults(b)'
    BY <1>2, <2>1 DEF RowsAreResults
  <2> QED BY <2>2, <2>3, <2>4, <2>5
<1> QED BY <1>1, <1>3 DEF ResultsExact

LEMMA InitHolds == Init => IInv
<1> SUFFICES ASSUME Init PROVE IInv
  OBVIOUS
<1>1. TypeOK
  <2>1. results \in [Batches -> Seq(Files)] /\ wire \in [{"S", "R"} -> Seq(Messages)]
    BY DEF Init
  <2>2. faults \in 0 .. MaxFaults
    BY FolderAssumption DEF Init
  <2>3. \A b \in Batches : pos[b] \in 1 .. Len(files[b]) + 1
    <3> TAKE b \in Batches
    <3>1. pos[b] = 1 /\ files[b] = << >>
      BY DEF Init
    <3>2. Len(<< >>) = 0
      OBVIOUS
    <3> QED BY <3>1, <3>2
  <2> QED BY <2>1, <2>2, <2>3 DEF Init, TypeOK, Stages
<1>2. WireInv /\ AskInv /\ AnswerInv
  BY DEF Init, WireInv, AskInv, AnswerInv
<1> DEFINE empty == << >>
<1>3. DOMAIN empty = {}
  OBVIOUS
<1>4. \A b \in Batches : pos[b] = 1 /\ results[b] = empty
  BY DEF Init
<1>5. offered = {} /\ skipped = {} /\ rows = {} /\ prompted = {}
  BY DEF Init
<1> HIDE DEF empty
<1>6. ResultInv
  BY <1>3, <1>4, <1>5 DEF ResultInv, empty
<1>7. FilesOnlyAfterAccept /\ AnswerIsHeard
  BY DEF Init, FilesOnlyAfterAccept, AnswerIsHeard
<1>8. ResultsExact
  <2>1. \A b \in Batches : files[b] = empty /\ stage[b] = "idle"
    BY DEF Init, empty
  <2>2. wire["S"] = empty
    BY DEF Init, empty
  <2>3. ASSUME NEW b \in Batches
        PROVE  InManifestOrder(b) /\ EveryFileAccounted(b) /\ ShownIsReturned(b) /\ RowsAreResults(b)
    <3>1. InManifestOrder(b)
      BY <1>3, <1>4 DEF InManifestOrder
    <3>2. EveryFileAccounted(b)
      BY <1>3, <2>1 DEF EveryFileAccounted
    <3>3. ShownIsReturned(b)
      BY <1>3, <1>5, <2>2 DEF ShownIsReturned, UnderWay
    <3>4. RowsAreResults(b)
      BY <1>5 DEF RowsAreResults
    <3> QED BY <3>1, <3>2, <3>3, <3>4
  <2> QED BY <2>3 DEF ResultsExact
<1> QED BY <1>1, <1>2, <1>6, <1>7, <1>8 DEF IInv

-----------------------------------------------------------------------------
(* The steps of a call that send nothing                                   *)

LEMMA CollectKeeps ==
    ASSUME IInv, NEW b \in Batches, NEW fs \in Folders, Collect(b, fs)
    PROVE  IInv'
<1>1. /\ UNCHANGED <<pos, results, pending, answer, rows, conv, told, up, sess, wire,
                     asked, decision, prompted, offered, skipped, faults>>
      /\ stage[b] = "idle" /\ pos[b] = 1 /\ results[b] = << >>
      /\ \A c \in Batches : stage'[c] # stage[c] =>
            c = b /\ stage'[c] \in {"manifest", "failed"}
      /\ \A c \in Batches : c # b => files'[c] = files[c]
  BY DEF Collect, Goto, IInv, TypeOK, ResultInv, offer, net, receiver, history
<1>2. TypeOK'
  <2>1. stage' \in [Batches -> Stages] /\ files' \in [Batches -> Folders \cup {<< >>}]
    <3>1. CASE files' = [files EXCEPT ![b] = fs] /\ Goto(b, "manifest")
      BY <3>1 DEF Goto, IInv, TypeOK, Stages
    <3>2. CASE Goto(b, "failed") /\ UNCHANGED files
      BY <3>2 DEF Goto, IInv, TypeOK, Stages
    <3> QED BY <3>1, <3>2 DEF Collect
  <2>2. \A c \in Batches : pos'[c] \in 1 .. Len(files'[c]) + 1
    <3> TAKE c \in Batches
    <3>1. files'[c] \in Seq(Files)
      BY <2>1, FolderTyped
    <3>2. CASE c = b
      BY <1>1, <3>1, <3>2
    <3>3. CASE c # b
      BY <1>1, <3>3 DEF IInv, TypeOK
    <3> QED BY <3>2, <3>3
  <2> QED BY <1>1, <2>1, <2>2 DEF IInv, TypeOK
<1>3. WireInv' /\ AskInv' /\ AnswerInv' /\ FilesOnlyAfterAccept'
  BY <1>1 DEF IInv, WireInv, AskInv, AnswerInv, FilesOnlyAfterAccept, IsOffer
<1>4. AnswerIsHeard'
  BY <1>1 DEF IInv, AnswerIsHeard
<1>5. ResultInv'
  BY <1>1 DEF IInv, ResultInv
<1>6. ASSUME NEW c \in Batches
      PROVE  /\ InManifestOrder(c)' /\ EveryFileAccounted(c)' /\ ShownIsReturned(c)'
             /\ RowsAreResults(c)'
  <2>1. InManifestOrder(c) /\ EveryFileAccounted(c) /\ ShownIsReturned(c) /\ RowsAreResults(c)
    BY DEF IInv, ResultsExact
  <2>2. \A f \in Files : (Returned(c, f)' <=> Returned(c, f)) /\ (UnderWay(c, f)' <=> UnderWay(c, f))
    BY <1>1 DEF Returned, UnderWay
  <2>3. ShownIsReturned(c)'
    BY <1>1, <2>1, <2>2 DEF ShownIsReturned
  <2>4. RowsAreResults(c)'
    BY <1>1, <2>1, <2>2 DEF RowsAreResults
  <2>5. CASE c # b
    <3>1. InManifestOrder(c)'
      BY <1>1, <2>1, <2>5 DEF InManifestOrder
    <3>2. stage'[c] = stage[c] /\ files'[c] = files[c]
      BY <1>1, <2>5
    <3>3. EveryFileAccounted(c)'
      BY <1>1, <2>1, <3>2 DEF EveryFileAccounted, Returned
    <3> QED BY <2>3, <2>4, <3>1, <3>3
  <2>6. CASE c = b
    <3>1. DOMAIN results[b] = {} /\ \A f \in Files : <<b, f>> \notin skipped
      BY <1>1 DEF IInv, ResultInv
    <3>2. InManifestOrder(c)'
      BY <1>1, <2>6, <3>1 DEF InManifestOrder
    <3>3. \A k \in DOMAIN files'[b] : k >= 1 /\ files'[b][k] \in Files
      <4>1. files'[b] \in Seq(Files)
        BY <1>2, FolderTyped DEF TypeOK
      <4> QED BY <4>1
    <3>4. pos'[b] = 1 /\ stage'[b] \notin {"persist", "returned"}
      BY <1>1
    <3>5. EveryFileAccounted(c)'
      <4>1. \A f \in Files : ~ Returned(b, f)' /\ <<b, f>> \notin skipped'
        BY <1>1, <3>1 DEF Returned
      <4>2. \A k \in DOMAIN files'[b] : ~ (k < pos'[b])
        BY <3>3, <3>4, FolderTyped, <1>2 DEF TypeOK
      <4> QED BY <2>6, <3>3, <3>4, <4>1, <4>2 DEF EveryFileAccounted, Returned
    <3> QED BY <2>3, <2>4, <3>2, <3>5
  <2> QED BY <2>5, <2>6
<1>7. ResultsExact'
  BY <1>6 DEF ResultsExact
<1> QED BY <1>2, <1>3, <1>4, <1>5, <1>7 DEF IInv

\* The entry is armed, the wait ends, the entry is removed, the loop ends.
LEMMA CallKeeps ==
    ASSUME IInv, NEW b \in Batches,
           Arm(b) \/ Answered(b) \/ TimesOut(b) \/ Disarm(b) \/ LoopEnds(b)
    PROVE  IInv'
<1>1. UNCHANGED <<files, pos, results, answer, rows, conv, told, up, sess, wire,
                  asked, decision, prompted, offered, skipped, faults>>
  BY DEF Arm, Answered, TimesOut, Disarm, LoopEnds, offer, net, receiver, history
<1>2. PICK to \in Stages \ {"idle"} : Goto(b, to)
  BY DEF Arm, Answered, TimesOut, Disarm, LoopEnds, Stages
<1>3. \A c \in Batches : stage'[c] = IF c = b THEN to ELSE stage[c]
  BY <1>2 DEF Goto, IInv, TypeOK
<1>4. TypeOK'
  <2>1. stage' \in [Batches -> Stages]
    BY <1>2 DEF Goto, IInv, TypeOK
  <2>2. pending' \in [Batches -> {"none", "armed", "taken"}]
    BY DEF Arm, Answered, TimesOut, Disarm, LoopEnds, offer, IInv, TypeOK
  <2> QED BY <1>1, <2>1, <2>2 DEF IInv, TypeOK
<1>5. WireInv' /\ FilesOnlyAfterAccept'
  BY <1>1 DEF IInv, WireInv, FilesOnlyAfterAccept
<1>6. stage[b] \notin {"idle", "returned", "failed"}
      /\ (stage[b] = "manifest" <=> to = "armed")
  BY <1>3 DEF Arm, Answered, TimesOut, Disarm, LoopEnds, Goto, IInv, TypeOK
<1>7. to \notin {"manifest", "waiting"}
  BY <1>3 DEF Arm, Answered, TimesOut, Disarm, LoopEnds, Goto, IInv, TypeOK
<1>8. AskInv'
  BY <1>1, <1>3, <1>6, <1>7 DEF IInv, AskInv, IsOffer
<1>9. AnswerInv'
  <2>1. to \in {"agreed", "sending", "persist", "returned"} => decision[b] = "accept"
    BY <1>3 DEF Arm, Answered, TimesOut, Disarm, LoopEnds, Goto, IInv, TypeOK, AnswerInv
  <2> QED BY <1>1, <1>3, <2>1 DEF IInv, AnswerInv
<1>10. AnswerIsHeard'
  <2>1. \A c \in Batches : c # b => pending'[c] = pending[c]
    BY DEF Arm, Answered, TimesOut, Disarm, LoopEnds, offer, IInv, TypeOK
  <2>2. to = "armed" => pending'[b] = "armed"
    BY <1>3 DEF Arm, Answered, TimesOut, Disarm, LoopEnds, Goto, IInv, TypeOK
  <2> QED BY <1>1, <1>3, <1>7, <2>1, <2>2 DEF IInv, AnswerIsHeard
<1>11. ResultInv' /\ ResultsExact'
  <2>1. to # "returned" /\ (to = "persist" => pos[b] > Len(files[b]))
    BY <1>3 DEF Arm, Answered, TimesOut, Disarm, LoopEnds, Goto, IInv, TypeOK
  <2>2. pos[b] \in 1 .. Len(files[b]) + 1 /\ Len(files[b]) \in Nat
    BY ManifestTyped DEF IInv, TypeOK
  <2>3. to = "persist" => pos[b] = Len(files[b]) + 1
    BY <2>1, <2>2
  <2> QED BY <1>1, <1>3, <1>6, <2>1, <2>3, KeepResults DEF UnderWay
<1> QED BY <1>4, <1>5, <1>8, <1>9, <1>10, <1>11 DEF IInv

LEMMA PersistKeeps == ASSUME IInv, NEW b \in Batches, PersistRows(b) PROVE IInv'
<1>1. /\ UNCHANGED <<files, pos, results, pending, answer, conv, told, up, sess, wire,
                     asked, decision, prompted, offered, skipped, faults>>
      /\ stage[b] = "persist"
      /\ \A c \in Batches : stage'[c] = IF c = b THEN "returned" ELSE stage[c]
      /\ stage' \in [Batches -> Stages]
  BY DEF PersistRows, Goto, IInv, TypeOK, offer, net, receiver, history, Stages
<1>2. /\ \A c \in Batches, f \in Files : c # b => (<<c, f>> \in rows' <=> <<c, f>> \in rows)
      /\ \/ \A f \in Files : <<b, f>> \in rows' <=> <<b, f>> \in rows
         \/ \A f \in Files : <<b, f>> \in rows' <=> <<b, f>> \in rows \/ Returned(b, f)
  BY DEF PersistRows, Returned
<1>3. rows' \subseteq Batches \X Files
  <2>1. \A i \in DOMAIN results[b] : results[b][i] \in Files
    BY ManifestTyped DEF IInv
  <2> QED BY <2>1 DEF PersistRows, IInv, TypeOK
<1>4. TypeOK'
  BY <1>1, <1>3 DEF IInv, TypeOK
<1>5. WireInv' /\ AskInv' /\ AnswerInv' /\ FilesOnlyAfterAccept' /\ AnswerIsHeard'
  BY <1>1 DEF IInv, WireInv, AskInv, AnswerInv, FilesOnlyAfterAccept, AnswerIsHeard, IsOffer
<1>6. ResultInv'
  BY <1>1 DEF IInv, ResultInv
<1>7. ASSUME NEW c \in Batches
      PROVE  /\ InManifestOrder(c)' /\ EveryFileAccounted(c)' /\ ShownIsReturned(c)'
             /\ RowsAreResults(c)'
  <2>1. InManifestOrder(c) /\ EveryFileAccounted(c) /\ ShownIsReturned(c) /\ RowsAreResults(c)
    BY DEF IInv, ResultsExact
  <2>2. \A f \in Files : (Returned(c, f)' <=> Returned(c, f)) /\ (UnderWay(c, f)' <=> UnderWay(c, f))
    BY <1>1 DEF Returned, UnderWay
  <2>3. InManifestOrder(c)' /\ EveryFileAccounted(c)'
    BY <1>1, <2>1 DEF InManifestOrder, EveryFileAccounted, Returned
  <2>4. ShownIsReturned(c)'
    BY <1>1, <2>1, <2>2 DEF ShownIsReturned
  <2>5. RowsAreResults(c)'
    <3>1. CASE c # b
      BY <1>1, <1>2, <2>1, <2>2, <3>1 DEF RowsAreResults
    <3>2. CASE c = b
      <4>1. \A f \in Files : <<b, f>> \notin rows
        BY <1>1, <2>1, <3>2 DEF RowsAreResults
      <4> QED BY <1>1, <1>2, <2>2, <3>2, <4>1 DEF RowsAreResults
    <3> QED BY <3>1, <3>2
  <2> QED BY <2>3, <2>4, <2>5
<1>8. ResultsExact'
  BY <1>7 DEF ResultsExact
<1> QED BY <1>4, <1>5, <1>6, <1>8 DEF IInv

-----------------------------------------------------------------------------
(* The steps that send                                                     *)

\* A message that is sent is the last one under way, or lost.
LEMMA Sends ==
    ASSUME TypeOK, NEW d \in {"S", "R"}, NEW m \in Messages,
           send_to(d, m) \/ send_to_fails(d)
    PROVE  /\ wire' \in [{"S", "R"} -> Seq(Messages)]
           /\ \A e \in {"S", "R"} : e # d => wire'[e] = wire[e]
           /\ \/ wire'[d] = wire[d]
              \/ wire'[d] = Append(wire[d], m)
<1>1. wire[d] \in Seq(Messages) /\ Append(wire[d], m) \in Seq(Messages)
  BY DEF TypeOK
<1>2. CASE UNCHANGED wire
  BY <1>2 DEF TypeOK
<1>3. CASE wire' = [wire EXCEPT ![d] = Append(@, m)]
  BY <1>1, <1>3 DEF TypeOK
<1> QED BY <1>2, <1>3 DEF send_to, send_to_fails

LEMMA SendOfferKeeps == ASSUME IInv, NEW b \in Batches, SendOffer(b) PROVE IInv'
<1>1. /\ UNCHANGED <<files, pos, results, pending, answer, rows, conv, told, up, sess,
                     asked, decision, prompted, offered, skipped, faults>>
      /\ stage[b] = "armed"
  BY DEF SendOffer, offer, net, receiver, history
<1>2. PICK to \in {"waiting", "failed"} : Goto(b, to)
  BY DEF SendOffer
<1>3. \A c \in Batches : stage'[c] = IF c = b THEN to ELSE stage[c]
  BY <1>2 DEF Goto, IInv, TypeOK
<1>4. FolderOffer(b) \in Messages
  BY DEF FolderOffer, Messages
<1>5. /\ wire' \in [{"S", "R"} -> Seq(Messages)]
      /\ wire'["R"] = wire["R"]
      /\ wire'["S"] = wire["S"] \/ wire'["S"] = Append(wire["S"], FolderOffer(b))
  <2>1. send_to("S", FolderOffer(b)) \/ send_to_fails("S")
    BY DEF SendOffer
  <2> QED BY <1>4, <2>1, Sends DEF IInv
<1>6. TypeOK'
  <2>1. stage' \in [Batches -> Stages]
    BY <1>2 DEF Goto, IInv, TypeOK, Stages
  <2> QED BY <1>1, <1>5, <2>1 DEF IInv, TypeOK
<1>7. /\ wire["S"] \in Seq(Messages)
      /\ FolderOffer(b).kind = "FolderOffer" /\ FolderOffer(b).b = b
  BY DEF IInv, TypeOK, FolderOffer
<1>8. WireInv'
  <2>1. \A i \in 1 .. Len(wire'["S"]) : wire'["S"][i].kind \notin Answers
    BY <1>5, <1>7 DEF IInv, WireInv, Answers
  <2> QED BY <1>1, <1>5, <2>1 DEF IInv, WireInv
<1>9. AskInv'
  <2>1. \A i \in 1 .. Len(wire["S"]) : ~ IsOffer(i, b)
    BY <1>1 DEF IInv, AskInv
  <2>2. CASE wire'["S"] = wire["S"]
    BY <1>1, <1>3, <2>1, <2>2 DEF IInv, AskInv, IsOffer
  <2>3. CASE wire'["S"] = Append(wire["S"], FolderOffer(b))
    <3>1. \A i \in 1 .. Len(wire'["S"]), c \in Batches :
             IsOffer(i, c)' <=> \/ i \in 1 .. Len(wire["S"]) /\ IsOffer(i, c)
                                \/ i = Len(wire["S"]) + 1 /\ c = b
      BY <1>7, <2>3 DEF IsOffer
    <3>2. Len(wire'["S"]) = Len(wire["S"]) + 1 /\ Len(wire["S"]) \in Nat
      BY <1>7, <2>3
    <3> QED BY <1>1, <1>3, <2>1, <3>1, <3>2 DEF IInv, AskInv
  <2> QED BY <1>5, <2>2, <2>3
<1>10. AnswerInv' /\ FilesOnlyAfterAccept' /\ AnswerIsHeard'
  BY <1>1, <1>3 DEF IInv, AnswerInv, FilesOnlyAfterAccept, AnswerIsHeard
<1>11. ResultInv' /\ ResultsExact'
  <2>1. \A c \in Batches, f \in Files : UnderWay(c, f)' => UnderWay(c, f)
    <3>1. \A c \in Batches, f \in Files : FolderOffer(b) # FileOffer(c, f)
      BY <1>7 DEF FileOffer
    <3>2. CASE wire'["S"] = wire["S"]
      BY <3>2 DEF UnderWay
    <3>3. CASE wire'["S"] = Append(wire["S"], FolderOffer(b))
      BY <1>7, <3>1, <3>3 DEF UnderWay
    <3> QED BY <1>5, <3>2, <3>3
  <2> QED BY <1>1, <1>3, <2>1, KeepResults
<1> QED BY <1>6, <1>8, <1>9, <1>10, <1>11 DEF IInv

LEMMA OfferFileKeeps == ASSUME IInv, NEW b \in Batches, OfferFile(b) PROVE IInv'
<1>0. PICK f : f = files[b][pos[b]]
  OBVIOUS
<1>1. /\ UNCHANGED <<stage, files, pending, answer, rows, conv, told, up, sess,
                     asked, decision, prompted, faults>>
      /\ stage[b] = "sending" /\ pos[b] <= Len(files[b])
      /\ pos' = [pos EXCEPT ![b] = @ + 1]
      /\ send_to("S", FileOffer(b, f)) \/ send_to_fails("S")
      /\ \/ /\ results' = [results EXCEPT ![b] = Append(@, f)]
            /\ offered' = offered \cup {<<b, f>>}
            /\ skipped' = skipped
         \/ /\ UNCHANGED <<results, offered>>
            /\ skipped' = skipped \cup {<<b, f>>}
            /\ send_to_fails("S")
  BY <1>0 DEF OfferFile, offer, net, receiver, history
<1>2. pos[b] \in DOMAIN files[b] /\ f \in Files
  <2>1. files[b] \in Seq(Files) /\ DOMAIN files[b] = 1 .. Len(files[b])
    BY ManifestTyped DEF IInv
  <2>2. pos[b] \in 1 .. Len(files[b]) + 1
    BY DEF IInv, TypeOK
  <2> QED BY <1>0, <1>1, <2>1, <2>2
<1>3. FileOffer(b, f) \in Messages /\ FileOffer(b, f).kind = "FileOffer"
  BY <1>2 DEF FileOffer, Messages
<1>4. /\ wire' \in [{"S", "R"} -> Seq(Messages)]
      /\ wire'["R"] = wire["R"]
      /\ wire'["S"] = wire["S"] \/ wire'["S"] = Append(wire["S"], FileOffer(b, f))
  BY <1>1, <1>3, Sends DEF IInv
<1>5. TypeOK'
  <2>1. pos' \in [Batches -> Nat] /\ \A c \in Batches : pos'[c] \in 1 .. Len(files'[c]) + 1
    <3>1. pos \in [Batches -> Nat] /\ \A c \in Batches : pos[c] \in 1 .. Len(files[c]) + 1
      BY DEF IInv, TypeOK
    <3>2. \A c \in Batches : Len(files[c]) \in Nat
      BY ManifestTyped DEF IInv
    <3>3. \A c \in Batches : pos'[c] = IF c = b THEN pos[b] + 1 ELSE pos[c]
      BY <1>1, <3>1
    <3>4. pos' \in [Batches -> Nat]
      BY <1>1, <3>1
    <3> QED BY <1>1, <3>1, <3>2, <3>3, <3>4
  <2>2. Append(results[b], f) \in Seq(Files)
    BY <1>2, ManifestTyped DEF IInv
  <2>3. /\ results' \in [Batches -> Seq(Files)]
        /\ offered' \subseteq Batches \X Files /\ skipped' \subseteq Batches \X Files
    <3>1. /\ results \in [Batches -> Seq(Files)]
          /\ offered \subseteq Batches \X Files /\ skipped \subseteq Batches \X Files
      BY DEF IInv, TypeOK
    <3>2. CASE UNCHANGED <<results, offered>> /\ skipped' = skipped \cup {<<b, f>>}
      BY <1>2, <3>1, <3>2
    <3>3. CASE /\ results' = [results EXCEPT ![b] = Append(@, f)]
               /\ offered' = offered \cup {<<b, f>>}
               /\ skipped' = skipped
      BY <1>2, <2>2, <3>1, <3>3
    <3> QED BY <1>1, <3>2, <3>3
  <2> QED BY <1>1, <1>4, <2>1, <2>3 DEF IInv, TypeOK
<1>6. wire["S"] \in Seq(Messages)
  BY DEF IInv, TypeOK
<1>7. WireInv'
  <2>1. \A i \in 1 .. Len(wire'["S"]) : wire'["S"][i].kind \notin Answers
    <3>1. \A i \in 1 .. Len(wire["S"]) : wire["S"][i].kind \notin Answers
      BY DEF IInv, WireInv
    <3>2. FileOffer(b, f).kind \notin Answers
      BY <1>3 DEF Answers
    <3> QED BY <1>4, <1>6, <3>1, <3>2
  <2> QED BY <1>1, <1>4, <2>1 DEF IInv, WireInv
<1>8. AskInv'
  <2>1. CASE wire'["S"] = wire["S"]
    BY <1>1, <2>1 DEF IInv, AskInv, IsOffer
  <2>2. CASE wire'["S"] = Append(wire["S"], FileOffer(b, f))
    <3>1. \A i \in 1 .. Len(wire'["S"]), c \in Batches :
             IsOffer(i, c)' => i \in 1 .. Len(wire["S"]) /\ IsOffer(i, c)
      BY <1>3, <1>6, <2>2 DEF IsOffer
    <3> QED BY <1>1, <3>1 DEF IInv, AskInv
  <2> QED BY <1>4, <2>1, <2>2
<1>9. AnswerInv' /\ AnswerIsHeard'
  BY <1>1 DEF IInv, AnswerInv, AnswerIsHeard
<1>10. FilesOnlyAfterAccept'
  BY <1>1 DEF IInv, AnswerInv, FilesOnlyAfterAccept
<1>11. /\ \A c \in Batches : c # b => results'[c] = results[c] /\ pos'[c] = pos[c]
       /\ pos'[b] = pos[b] + 1 /\ pos[b] \in Nat
       /\ \A c \in Batches, g \in Files :
             <<c, g>> # <<b, f>> => (<<c, g>> \in skipped' <=> <<c, g>> \in skipped)
  BY <1>1 DEF IInv, TypeOK
<1>12. /\ results[b] \in Seq(Files) /\ Len(results[b]) \in Nat
       /\ DOMAIN results[b] = 1 .. Len(results[b])
       /\ files[b] \in Seq(Files) /\ Len(files[b]) \in Nat
       /\ DOMAIN files[b] = 1 .. Len(files[b])
  BY ManifestTyped DEF IInv
<1>13. \A k \in DOMAIN files[b] : files[b][k] = f => k = pos[b]
  <2>1. files[b] \in Folders
    BY <1>2 DEF IInv, TypeOK
  <2> QED BY <1>2, <2>1, FolderAssumption, <1>0
\* The file the loop is at is neither among the results nor skipped.
<1>14. ~ Returned(b, f) /\ <<b, f>> \notin skipped
  <2>1. EveryFileAccounted(b)
    BY DEF IInv, ResultsExact
  <2>2. pos[b] < pos[b] <=> Returned(b, f) \/ <<b, f>> \in skipped
    BY <1>0, <1>2, <2>1 DEF EveryFileAccounted
  <2>3. ~ (pos[b] < pos[b])
    BY <1>11
  <2> QED BY <2>2, <2>3
\* Either it joins the results or it is skipped.
<1>15. \/ /\ results'[b] = Append(results[b], f) /\ <<b, f>> \notin skipped'
       \/ /\ results'[b] = results[b] /\ <<b, f>> \in skipped'
          /\ wire'["S"] = wire["S"]
  BY <1>1, <1>14 DEF IInv, TypeOK, send_to_fails
<1>16. /\ \A g \in Files : g # f => (Returned(b, g)' <=> Returned(b, g))
       /\ Returned(b, f)' <=> <<b, f>> \notin skipped'
       /\ \A g \in Files : Returned(b, g) => Returned(b, g)'
  <2>1. CASE results'[b] = Append(results[b], f) /\ <<b, f>> \notin skipped'
    <3>1. /\ DOMAIN results'[b] = 1 .. Len(results[b]) + 1
          /\ \A i \in DOMAIN results[b] : results'[b][i] = results[b][i]
          /\ results'[b][Len(results[b]) + 1] = f
      BY <1>2, <1>12, <2>1
    <3>2. Returned(b, f)'
      BY <1>12, <3>1 DEF Returned
    <3> QED BY <1>12, <2>1, <3>1, <3>2 DEF Returned
  <2>2. CASE results'[b] = results[b] /\ <<b, f>> \in skipped'
    BY <1>14, <2>2 DEF Returned
  <2> QED BY <1>15, <2>1, <2>2
<1>17. ResultInv'
  <2>1. \A i \in DOMAIN results[b] :
           \E k \in DOMAIN files[b] : k < pos[b] /\ files[b][k] = results[b][i]
    BY DEF IInv, ResultInv
  <2>2. \A i \in DOMAIN results'[b] :
           \E k \in DOMAIN files[b] : k < pos'[b] /\ files[b][k] = results'[b][i]
    <3>1. CASE results'[b] = results[b]
      BY <1>11, <1>12, <2>1, <3>1
    <3>2. CASE results'[b] = Append(results[b], f)
      <4> TAKE i \in DOMAIN results'[b]
      <4>1. CASE i \in DOMAIN results[b]
        BY <1>2, <1>11, <1>12, <2>1, <3>2, <4>1
      <4>2. CASE i = Len(results[b]) + 1
        BY <1>2, <1>11, <1>12, <3>2, <4>2, <1>0
      <4> QED BY <1>2, <1>12, <3>2, <4>1, <4>2
    <3> QED BY <1>15, <3>1, <3>2
  <2>3. ASSUME NEW c \in Batches, c # b
        PROVE  /\ stage'[c] = "idle" => /\ pos'[c] = 1 /\ results'[c] = << >>
                                        /\ \A g \in Files : <<c, g>> \notin skipped'
               /\ \A i \in DOMAIN results'[c] :
                     \E k \in DOMAIN files'[c] : k < pos'[c] /\ files'[c][k] = results'[c][i]
    BY <1>1, <1>11, <2>3 DEF IInv, ResultInv
  <2> QED BY <1>1, <2>2, <2>3 DEF ResultInv
<1>18. InManifestOrder(b)'
  <2> SUFFICES ASSUME NEW i \in DOMAIN results'[b], NEW j \in DOMAIN results'[b], i < j
               PROVE  \E k, l \in DOMAIN files[b] :
                         /\ k < l /\ files[b][k] = results'[b][i]
                         /\ files[b][l] = results'[b][j]
    BY <1>1 DEF InManifestOrder
  <2>0. InManifestOrder(b)
    BY DEF IInv, ResultsExact
  <2>1. CASE results'[b] = results[b]
    BY <2>0, <2>1 DEF InManifestOrder
  <2>2. CASE results'[b] = Append(results[b], f)
    <3>1. /\ DOMAIN results'[b] = 1 .. Len(results[b]) + 1
          /\ \A n \in DOMAIN results[b] : results'[b][n] = results[b][n]
          /\ results'[b][Len(results[b]) + 1] = f
      BY <1>2, <1>12, <2>2
    <3>2. i \in DOMAIN results[b]
      BY <1>12, <3>1
    <3>3. CASE j \in DOMAIN results[b]
      <4>1. \E k, l \in DOMAIN files[b] :
               k < l /\ files[b][k] = results[b][i] /\ files[b][l] = results[b][j]
        BY <2>0, <3>2, <3>3 DEF InManifestOrder
      <4> QED BY <3>1, <3>2, <3>3, <4>1
    <3>4. CASE j = Len(results[b]) + 1
      <4>1. PICK k \in DOMAIN files[b] : k < pos[b] /\ files[b][k] = results[b][i]
        BY <3>2 DEF IInv, ResultInv
      <4> QED BY <1>2, <3>1, <3>2, <3>4, <4>1, <1>0
    <3> QED BY <1>12, <3>1, <3>3, <3>4
  <2> QED BY <1>15, <2>1, <2>2
<1>19. EveryFileAccounted(b)'
  <2>1. ASSUME NEW k \in DOMAIN files[b]
        PROVE  /\ k < pos'[b] <=> Returned(b, files[b][k])' \/ <<b, files[b][k]>> \in skipped'
               /\ ~ (Returned(b, files[b][k])' /\ <<b, files[b][k]>> \in skipped')
    <3>1. PICK g \in Files : g = files[b][k]
      BY <1>12
    <3>2. /\ k < pos[b] <=> Returned(b, g) \/ <<b, g>> \in skipped
          /\ ~ (Returned(b, g) /\ <<b, g>> \in skipped)
      BY <3>1 DEF IInv, ResultsExact, EveryFileAccounted
    <3>3. CASE g = f
      <4>1. k = pos[b]
        BY <1>13, <3>1, <3>3
      <4>2. k < pos'[b]
        BY <1>11, <4>1
      <4>3. Returned(b, files[b][k])' <=> Returned(b, f)'
        BY <1>1, <3>1, <3>3 DEF Returned
      <4> QED BY <1>16, <3>1, <3>3, <4>2, <4>3
    <3>4. CASE g # f
      <4>1. k # pos[b]
        BY <3>1, <3>4, <1>0
      <4>2. k < pos'[b] <=> k < pos[b]
        BY <1>11, <1>12, <4>1
      <4>3. (Returned(b, g)' <=> Returned(b, g)) /\ (<<b, g>> \in skipped' <=> <<b, g>> \in skipped)
        BY <1>11, <1>16, <3>4
      <4>4. Returned(b, files[b][k])' <=> Returned(b, g)'
        BY <1>1, <3>1 DEF Returned
      <4> QED BY <3>1, <3>2, <4>2, <4>3, <4>4
    <3> QED BY <3>3, <3>4
  <2> QED BY <1>1, <2>1 DEF EveryFileAccounted, Returned
<1>20. ShownIsReturned(b)'
  <2> SUFFICES ASSUME NEW g \in Files, UnderWay(b, g)' \/ <<b, g>> \in prompted'
               PROVE  Returned(b, g)'
    BY DEF ShownIsReturned
  <2>1. ShownIsReturned(b)
    BY DEF IInv, ResultsExact
  <2>2. CASE UnderWay(b, g) \/ <<b, g>> \in prompted
    BY <1>16, <2>1, <2>2 DEF ShownIsReturned
  <2>3. CASE UnderWay(b, g)' /\ ~ UnderWay(b, g)
    <3>1. wire'["S"] # wire["S"]
      BY <2>3 DEF UnderWay
    <3>2. wire'["S"] = Append(wire["S"], FileOffer(b, f)) /\ Returned(b, f)'
      BY <1>4, <1>15, <1>16, <3>1
    <3>3. FileOffer(b, g) = FileOffer(b, f)
      BY <1>6, <2>3, <3>2 DEF UnderWay
    <3>4. g = f
      BY <3>3 DEF FileOffer
    <3> QED BY <3>2, <3>4
  <2> QED BY <1>1, <2>2, <2>3
<1>21. RowsAreResults(b)'
  BY <1>1 DEF IInv, ResultsExact, RowsAreResults
<1>22. ASSUME NEW c \in Batches, c # b
       PROVE  /\ InManifestOrder(c)' /\ EveryFileAccounted(c)' /\ ShownIsReturned(c)'
              /\ RowsAreResults(c)'
  <2>1. InManifestOrder(c) /\ EveryFileAccounted(c) /\ ShownIsReturned(c) /\ RowsAreResults(c)
    BY DEF IInv, ResultsExact
  <2>2. \A g \in Files : Returned(c, g)' <=> Returned(c, g)
    BY <1>11, <1>22 DEF Returned
  <2>3. \A g \in Files : UnderWay(c, g)' => UnderWay(c, g)
    <3>1. \A g \in Files : FileOffer(b, f) # FileOffer(c, g)
      BY <1>22 DEF FileOffer
    <3>2. CASE wire'["S"] = wire["S"]
      BY <3>2 DEF UnderWay
    <3>3. CASE wire'["S"] = Append(wire["S"], FileOffer(b, f))
      BY <1>3, <1>6, <3>1, <3>3 DEF UnderWay
    <3> QED BY <1>4, <3>2, <3>3
  <2>4. InManifestOrder(c)'
    BY <1>1, <1>11, <1>22, <2>1 DEF InManifestOrder
  <2>5. EveryFileAccounted(c)'
    <3>1. \A k \in DOMAIN files[c] : files[c][k] \in Files
      BY ManifestTyped DEF IInv
    <3> QED BY <1>1, <1>11, <1>22, <2>1, <2>2, <3>1 DEF EveryFileAccounted, Returned
  <2>6. ShownIsReturned(c)'
    BY <1>1, <2>1, <2>2, <2>3 DEF ShownIsReturned
  <2>7. RowsAreResults(c)'
    BY <1>1, <2>1, <2>2 DEF RowsAreResults
  <2> QED BY <2>4, <2>5, <2>6, <2>7
<1>23. ResultsExact'
  BY <1>18, <1>19, <1>20, <1>21, <1>22 DEF ResultsExact
<1> QED BY <1>5, <1>7, <1>8, <1>9, <1>10, <1>17, <1>23 DEF IInv

LEMMA DecideKeeps ==
    ASSUME IInv, NEW b \in Batches, NEW a \in Answers, Decide(b, a)
    PROVE  IInv'
<1>1. /\ UNCHANGED <<stage, files, pos, results, pending, answer, rows, conv, told, up,
                     sess, prompted, offered, skipped, faults>>
      /\ b \in asked /\ asked' = asked \ {b}
      /\ decision' = [decision EXCEPT ![b] = a]
      /\ send_to("R", FolderAnswer(b, a)) \/ send_to_fails("R")
  BY DEF Decide, call, offer, net, history
<1>2. decision[b] = "none" /\ a # "none"
  BY <1>1 DEF IInv, AskInv, Answers
<1>3. \A c \in Batches : decision'[c] = IF c = b THEN a ELSE decision[c]
  BY <1>1 DEF IInv, TypeOK
<1>4. /\ FolderAnswer(b, a) \in Messages
      /\ FolderAnswer(b, a).kind = a /\ FolderAnswer(b, a).b = b
  BY DEF FolderAnswer, Messages
<1>5. /\ wire' \in [{"S", "R"} -> Seq(Messages)]
      /\ wire'["S"] = wire["S"]
      /\ wire'["R"] = wire["R"] \/ wire'["R"] = Append(wire["R"], FolderAnswer(b, a))
  BY <1>1, <1>4, Sends DEF IInv
<1>6. TypeOK'
  <2>1. decision' \in [Batches -> Answers \cup {"none"}]
    BY <1>1 DEF IInv, TypeOK
  <2> QED BY <1>1, <1>5, <2>1 DEF IInv, TypeOK
<1>7. WireInv'
  <2>1. wire["R"] \in Seq(Messages) /\ \A m \in Messages : m.b \in Batches
    BY DEF IInv, TypeOK, Messages
  <2>2. ASSUME NEW i \in 1 .. Len(wire["R"])
        PROVE  wire["R"][i].kind \in Answers /\ decision'[wire["R"][i].b] = wire["R"][i].kind
    <3>1. /\ wire["R"][i].kind \in Answers
          /\ decision[wire["R"][i].b] = wire["R"][i].kind
          /\ wire["R"][i].b \in Batches
      BY <2>1 DEF IInv, WireInv
    <3>2. wire["R"][i].b # b
      BY <1>2, <3>1 DEF Answers
    <3> QED BY <1>3, <3>1, <3>2
  <2>3. \A i \in 1 .. Len(wire'["R"]) :
           /\ wire'["R"][i].kind \in Answers
           /\ decision'[wire'["R"][i].b] = wire'["R"][i].kind
    <3>1. CASE wire'["R"] = wire["R"]
      BY <2>2, <3>1
    <3>2. CASE wire'["R"] = Append(wire["R"], FolderAnswer(b, a))
      BY <1>3, <1>4, <2>1, <2>2, <3>2
    <3> QED BY <1>5, <3>1, <3>2
  <2> QED BY <1>5, <2>3 DEF IInv, WireInv
<1>8. AskInv'
  BY <1>1, <1>3, <1>5 DEF IInv, AskInv, IsOffer
<1>9. AnswerInv' /\ AnswerIsHeard'
  BY <1>1, <1>2, <1>3 DEF IInv, TypeOK, AnswerInv, AnswerIsHeard
<1>10. FilesOnlyAfterAccept'
  BY <1>1, <1>2, <1>3 DEF IInv, FilesOnlyAfterAccept, Answers
<1>11. ResultInv' /\ ResultsExact'
  BY <1>1, <1>5, KeepResults DEF UnderWay
<1> QED BY <1>6, <1>7, <1>8, <1>9, <1>10, <1>11 DEF IInv

-----------------------------------------------------------------------------
(* The steps that take a message                                           *)

\* The answer that arrives is the decision about a batch that was offered.
LEMMA DispatchAtSKeeps == ASSUME IInv, DispatchAtS PROVE IInv'
<1> DEFINE m == Head(wire["R"])
           b == m.b
           a == m.kind
<1>1. /\ UNCHANGED <<stage, files, pos, results, rows, conv, up, sess, asked, decision,
                     prompted, offered, skipped, faults>>
      /\ wire["R"] # << >>
      /\ wire' = [wire EXCEPT !["R"] = Tail(@)]
      /\ HandleAnswer(b, a)
  BY DEF DispatchAtS, call, net, receiver, history
<1>2. wire["R"] \in Seq(Messages) /\ wire["S"] \in Seq(Messages)
  BY DEF IInv, TypeOK
<1>3. m \in Messages /\ m = wire["R"][1] /\ 1 \in 1 .. Len(wire["R"])
  BY <1>1, <1>2
<1>4. b \in Batches /\ a \in Answers /\ decision[b] = a
  <2>1. a \in Answers /\ decision[b] = a
    BY <1>3 DEF IInv, WireInv
  <2>2. b \in Batches
    BY <1>3 DEF Messages
  <2> QED BY <2>1, <2>2
<1>5. /\ wire' \in [{"S", "R"} -> Seq(Messages)]
      /\ wire'["S"] = wire["S"] /\ wire'["R"] = Tail(wire["R"])
  BY <1>1, <1>2 DEF IInv, TypeOK
<1> HIDE DEF m, b, a
<1>6. /\ \A c \in Batches : c # b => pending'[c] = pending[c] /\ answer'[c] = answer[c]
      /\ answer'[b] = answer[b] \/ answer'[b] = a
      /\ pending[b] = "armed" /\ stage[b] = "waiting" => answer'[b] = a
      /\ told' = told \cup {<<b, a>>}
  BY <1>1, <1>4 DEF HandleAnswer, IInv, TypeOK
<1>7. TypeOK'
  <2>1. /\ answer' \in [Batches -> Answers \cup {"none"}]
        /\ pending' \in [Batches -> {"none", "armed", "taken"}]
    BY <1>1, <1>4 DEF HandleAnswer, IInv, TypeOK
  <2>2. told' \subseteq Batches \X Answers
    BY <1>4, <1>6 DEF IInv, TypeOK
  <2> QED BY <1>1, <1>5, <2>1, <2>2 DEF IInv, TypeOK
<1>8. WireInv'
  <2>1. /\ Len(wire'["R"]) = Len(wire["R"]) - 1 /\ Len(wire["R"]) \in Nat
        /\ \A i \in 1 .. Len(wire'["R"]) : wire'["R"][i] = wire["R"][i + 1]
    BY <1>1, <1>2, <1>5
  <2>2. \A i \in 1 .. Len(wire'["R"]) : i + 1 \in 1 .. Len(wire["R"])
    BY <2>1
  <2> QED BY <1>1, <1>5, <2>1, <2>2 DEF IInv, WireInv
<1>9. AskInv'
  BY <1>1, <1>5 DEF IInv, AskInv, IsOffer
<1>10. AnswerInv'
  BY <1>1, <1>4, <1>6 DEF IInv, AnswerInv
<1>11. FilesOnlyAfterAccept'
  BY <1>1, <1>4, <1>6 DEF IInv, FilesOnlyAfterAccept
<1>12. AnswerIsHeard'
  <2>1. stage[b] # "armed" /\ a # "none"
    BY <1>4 DEF IInv, AskInv, Answers
  <2> QED BY <1>1, <1>6, <2>1 DEF IInv, AnswerIsHeard
<1>13. ResultInv' /\ ResultsExact'
  BY <1>1, <1>5, KeepResults DEF UnderWay
<1> QED BY <1>7, <1>8, <1>9, <1>10, <1>11, <1>12, <1>13 DEF IInv

\* An offer that arrives was not asked about before.
LEMMA DispatchAtRKeeps == ASSUME IInv, DispatchAtR PROVE IInv'
<1> DEFINE m == Head(wire["S"])
<1>1. /\ UNCHANGED <<stage, files, pos, results, pending, answer, rows, conv, told, up,
                     sess, decision, offered, skipped, faults>>
      /\ wire["S"] # << >>
      /\ wire' = [wire EXCEPT !["S"] = Tail(@)]
      /\ \/ m.kind = "FolderOffer" /\ asked' = asked \cup {m.b} /\ prompted' = prompted
         \/ /\ m.kind # "FolderOffer"
            /\ asked' = asked /\ prompted' = prompted \cup {<<m.b, m.f>>}
  BY DEF DispatchAtR, call, offer, net, history
<1>2. wire["R"] \in Seq(Messages) /\ wire["S"] \in Seq(Messages)
  BY DEF IInv, TypeOK
<1>3. m \in Messages /\ m = wire["S"][1] /\ 1 \in 1 .. Len(wire["S"])
  BY <1>1, <1>2
<1>4. m.b \in Batches /\ (m.kind # "FolderOffer" => m.f \in Files)
  <2>1. m.kind \notin Answers
    BY <1>3 DEF IInv, WireInv
  <2> QED BY <1>3, <2>1 DEF Messages
<1>5. /\ wire' \in [{"S", "R"} -> Seq(Messages)]
      /\ wire'["R"] = wire["R"] /\ wire'["S"] = Tail(wire["S"])
  BY <1>1, <1>2 DEF IInv, TypeOK
<1> HIDE DEF m
<1>6. TypeOK'
  <2>1. asked' \subseteq Batches /\ prompted' \subseteq Batches \X Files
    BY <1>1, <1>4 DEF IInv, TypeOK
  <2> QED BY <1>1, <1>5, <2>1 DEF IInv, TypeOK
<1>7. /\ Len(wire'["S"]) = Len(wire["S"]) - 1 /\ Len(wire["S"]) \in Nat
      /\ \A i \in 1 .. Len(wire'["S"]) :
            i + 1 \in 1 .. Len(wire["S"]) /\ wire'["S"][i] = wire["S"][i + 1]
  BY <1>1, <1>2, <1>5
<1>8. WireInv'
  BY <1>1, <1>5, <1>7 DEF IInv, WireInv
<1>9. AskInv'
  <2>1. \A i \in 1 .. Len(wire'["S"]), c \in Batches : IsOffer(i, c)' => IsOffer(i + 1, c)
    BY <1>7 DEF IsOffer
  <2>2. m.kind = "FolderOffer" => IsOffer(1, m.b)
    BY <1>3 DEF IsOffer
  <2>3. CASE m.kind # "FolderOffer"
    BY <1>1, <1>7, <2>1, <2>3 DEF IInv, AskInv
  <2>4. CASE m.kind = "FolderOffer"
    <3>1. PICK b \in Batches : b = m.b
      BY <1>4
    <3>2. /\ decision[b] = "none"
          /\ stage[b] \notin {"idle", "manifest", "armed"}
          /\ \A j \in 1 .. Len(wire["S"]) : IsOffer(j, b) => j = 1
      BY <1>3, <2>2, <2>4, <3>1 DEF IInv, AskInv
    <3>3. \A i \in 1 .. Len(wire'["S"]) : ~ IsOffer(i, b)'
      BY <1>7, <2>1, <3>2
    <3>4. asked' = asked \cup {b}
      BY <1>1, <2>4, <3>1
    <3>5. ASSUME NEW c \in Batches, NEW i \in 1 .. Len(wire'["S"]), IsOffer(i, c)'
          PROVE  /\ decision[c] = "none" /\ c \notin asked'
                 /\ stage[c] \notin {"idle", "manifest", "armed"}
                 /\ \A j \in 1 .. Len(wire'["S"]) : IsOffer(j, c)' => j = i
      <4>1. c # b /\ IsOffer(i + 1, c) /\ i + 1 \in 1 .. Len(wire["S"])
        BY <1>7, <2>1, <3>3, <3>5
      <4>2. /\ decision[c] = "none" /\ c \notin asked
            /\ stage[c] \notin {"idle", "manifest", "armed"}
            /\ \A j \in 1 .. Len(wire["S"]) : IsOffer(j, c) => j = i + 1
        BY <4>1 DEF IInv, AskInv
      <4> QED BY <1>7, <2>1, <3>4, <4>1, <4>2
    <3> QED BY <1>1, <3>2, <3>4, <3>5 DEF IInv, AskInv
  <2> QED BY <2>3, <2>4
<1>10. AnswerInv' /\ FilesOnlyAfterAccept' /\ AnswerIsHeard'
  BY <1>1 DEF IInv, AnswerInv, FilesOnlyAfterAccept, AnswerIsHeard
<1>11. ResultInv' /\ ResultsExact'
  <2>1. ASSUME NEW c \in Batches, NEW f \in Files, UnderWay(c, f)' PROVE UnderWay(c, f)
    <3>1. PICK i \in 1 .. Len(wire'["S"]) : wire'["S"][i] = FileOffer(c, f)
      BY <1>5, <2>1 DEF UnderWay
    <3>2. i + 1 \in DOMAIN wire["S"] /\ wire["S"][i + 1] = FileOffer(c, f)
      BY <1>2, <1>7, <3>1
    <3> QED BY <3>2 DEF UnderWay
  <2>2. ASSUME NEW c \in Batches, NEW f \in Files, <<c, f>> \in prompted'
        PROVE  UnderWay(c, f) \/ <<c, f>> \in prompted
    <3>1. CASE <<c, f>> \in prompted
      BY <3>1
    <3>2. CASE m.kind # "FolderOffer" /\ c = m.b /\ f = m.f
      <4>1. m.kind \notin Answers
        BY <1>3 DEF IInv, WireInv
      <4>2. m \in [kind : {"FileOffer"}, b : Batches, f : Files]
        BY <1>3, <3>2, <4>1 DEF Messages
      <4>3. m = FileOffer(c, f)
        BY <3>2, <4>2 DEF FileOffer
      <4>4. 1 \in DOMAIN wire["S"] /\ wire["S"][1] = FileOffer(c, f)
        BY <1>2, <1>3, <4>3
      <4> QED BY <4>4 DEF UnderWay
    <3> QED BY <1>1, <2>2, <3>1, <3>2
  <2> QED BY <1>1, <2>1, <2>2, KeepResults
<1> QED BY <1>6, <1>8, <1>9, <1>10, <1>11 DEF IInv

-----------------------------------------------------------------------------
(* Connections, crashes and what does not concern the calls                *)

\* A step that empties the wire or leaves it, and ends calls or leaves them.
LEMMA FaultKeeps ==
    ASSUME IInv, TypeOK',
           UNCHANGED <<files, pos, results, rows, decision, offered, skipped>>,
           \/ UNCHANGED wire
           \/ wire' = [d \in {"S", "R"} |-> << >>],
           asked' \subseteq asked, told' \subseteq told, prompted' \subseteq prompted,
           \/ UNCHANGED <<stage, pending, answer>>
           \/ \A b \in Batches :
                 /\ answer'[b] = "none"
                 /\ stage'[b] \in {stage[b], "failed"}
                 /\ stage[b] \in {"armed", "waiting", "persist"} => stage'[b] = "failed"
                 /\ stage[b] = "returned" => stage'[b] = "returned"
    PROVE  IInv'
<1>1. WireInv'
  <2>1. CASE UNCHANGED wire
    BY <2>1 DEF IInv, WireInv
  <2>2. CASE wire' = [d \in {"S", "R"} |-> << >>]
    BY <2>2 DEF WireInv
  <2> QED BY <2>1, <2>2
<1>2. AskInv'
  <2>1. CASE UNCHANGED wire
    BY <2>1 DEF IInv, AskInv, IsOffer
  <2>2. CASE wire' = [d \in {"S", "R"} |-> << >>]
    BY <2>2 DEF IInv, AskInv
  <2> QED BY <2>1, <2>2
<1>3. AnswerInv' /\ FilesOnlyAfterAccept'
  BY DEF IInv, AnswerInv, FilesOnlyAfterAccept
<1>4. AnswerIsHeard'
  BY DEF IInv, AnswerIsHeard
<1>5. ResultInv' /\ ResultsExact'
  <2>1. \A c \in Batches, f \in Files : UnderWay(c, f)' => UnderWay(c, f)
    <3>1. CASE UNCHANGED wire
      BY <3>1 DEF UnderWay
    <3>2. CASE wire' = [d \in {"S", "R"} |-> << >>]
      BY <3>2 DEF UnderWay
    <3> QED BY <3>1, <3>2
  <2> QED BY <2>1, KeepResults
<1> QED BY <1>1, <1>2, <1>3, <1>4, <1>5 DEF IInv

LEMMA EnvironmentKeeps ==
    ASSUME IInv,
           \/ ConversationCreated \/ ConnectionLost \/ Reconnect \/ CrashS \/ CrashR
           \/ \E d \in {"S", "R"} : ReaderEnds(d)
    PROVE  IInv'
<1>1. [d \in {"S", "R"} |-> << >>] \in [{"S", "R"} -> Seq(Messages)]
  OBVIOUS
<1>2. CASE ConversationCreated
  <2>1. TypeOK'
    BY <1>2 DEF ConversationCreated, IInv, TypeOK, call, offer, net, receiver, history
  <2> QED BY <1>2, <2>1, FaultKeeps
          DEF ConversationCreated, call, offer, net, receiver, history
<1>3. CASE ConnectionLost
  <2>1. TypeOK'
    <3>1. faults' \in 0 .. MaxFaults
      BY <1>3, FolderAssumption DEF ConnectionLost, IInv, TypeOK
    <3> QED BY <1>1, <1>3, <3>1 DEF ConnectionLost, IInv, TypeOK, call, offer, receiver, history
  <2> QED BY <1>3, <2>1, FaultKeeps DEF ConnectionLost, call, offer, receiver, history
<1>4. CASE Reconnect
  <2>1. TypeOK'
    BY <1>4 DEF Reconnect, IInv, TypeOK, call, offer, receiver, history
  <2> QED BY <1>4, <2>1, FaultKeeps DEF Reconnect, call, offer, receiver, history
<1>5. CASE CrashS
  <2>1. TypeOK'
    <3>1. stage' \in [Batches -> Stages]
      BY <1>5 DEF CrashS, IInv, TypeOK, Stages
    <3>2. faults' \in 0 .. MaxFaults
      BY <1>5, FolderAssumption DEF CrashS, IInv, TypeOK
    <3> QED BY <1>1, <1>5, <3>1, <3>2 DEF CrashS, IInv, TypeOK, receiver, history
  <2>2. \A b \in Batches :
           /\ answer'[b] = "none"
           /\ stage'[b] \in {stage[b], "failed"}
           /\ stage[b] \in {"armed", "waiting", "persist"} => stage'[b] = "failed"
           /\ stage[b] = "returned" => stage'[b] = "returned"
    BY <1>5 DEF CrashS, Over
  <2> QED BY <1>5, <2>1, <2>2, FaultKeeps DEF CrashS, receiver, history
<1>6. CASE CrashR
  <2>1. TypeOK'
    <3>1. faults' \in 0 .. MaxFaults
      BY <1>6, FolderAssumption DEF CrashR, IInv, TypeOK
    <3> QED BY <1>1, <1>6, <3>1 DEF CrashR, IInv, TypeOK, call, offer, history
  <2> QED BY <1>6, <2>1, FaultKeeps DEF CrashR, call, offer, history
<1>7. CASE \E d \in {"S", "R"} : ReaderEnds(d)
  <2>1. TypeOK'
    BY <1>7 DEF ReaderEnds, IInv, TypeOK, call, offer, receiver, history
  <2> QED BY <1>7, <2>1, FaultKeeps DEF ReaderEnds, call, offer, receiver, history
<1> QED BY <1>2, <1>3, <1>4, <1>5, <1>6, <1>7

-----------------------------------------------------------------------------
LEMMA NextKeeps == ASSUME IInv, [Next]_vars PROVE IInv'
<1>1. CASE Next
  BY <1>1, CollectKeeps, CallKeeps, PersistKeeps, SendOfferKeeps, OfferFileKeeps,
     DecideKeeps, DispatchAtSKeeps, DispatchAtRKeeps, EnvironmentKeeps
     DEF Next, CallStep
<1>2. CASE UNCHANGED vars
  <2>1. TypeOK'
    BY <1>2 DEF vars, call, offer, net, receiver, history, IInv, TypeOK
  <2> QED BY <1>2, <2>1, FaultKeeps DEF vars, call, offer, net, receiver, history
<1> QED BY <1>1, <1>2

\* IInv holds in every state of every behaviour.
THEOREM InductiveInvariant == Spec => []IInv
BY InitHolds, NextKeeps, PTL DEF Spec

\* The state of send_folder at both devices keeps its types, for every number of
\* calls and every folder; the loop never runs past the manifest.
THEOREM TypeCorrect == Spec => []TypeOK
<1>1. IInv => TypeOK
  BY DEF IInv
<1> QED BY <1>1, InductiveInvariant, PTL

\* No file is offered, and nothing reported to S's user, that R's user did not
\* decide (send_folder, handle_folder_accept, handle_folder_reject).
THEOREM OfferedIsAccepted == Spec => []FilesOnlyAfterAccept
<1>1. IInv => FilesOnlyAfterAccept
  BY DEF IInv
<1> QED BY <1>1, InductiveInvariant, PTL

\* What a call returns is in manifest order and leaves out just the files whose
\* own offer failed; R is shown nothing else, and the rows are those of the
\* results (send_folder of connection_manager.rs and ffi.rs).
THEOREM ResultsAreExact == Spec => []ResultsExact
<1>1. IInv => ResultsExact
  BY DEF IInv
<1> QED BY <1>1, InductiveInvariant, PTL

\* The entry of a call that waits is armed until its answer is in the channel
\* (pending_folder_offers).
THEOREM AnswersAreHeard == Spec => []AnswerIsHeard
<1>1. IInv => AnswerIsHeard
  BY DEF IInv
<1> QED BY <1>1, InductiveInvariant, PTL
=============================================================================
