------------------------------- MODULE Folder -------------------------------
(***************************************************************************)
(* Sending folders: send_folder of connection_manager.rs and of ffi.rs at  *)
(* device S, the answer of the user of R, and the offers of the files.     *)
(*                                                                         *)
(* A call lists the folder, arms an entry of pending_folder_offers, sends  *)
(* one FolderOffer and waits for the one answer or 120 seconds.  Then it   *)
(* offers the files one by one, leaving out those whose offer fails, and   *)
(* the caller writes a row of `messages` for each one offered.  What       *)
(* becomes of an offered file is in Transfer; its row of `file_transfers`  *)
(* is never written, because it refers to a message id that has no row.    *)
(***************************************************************************)
EXTENDS Naturals, Sequences

CONSTANTS
    Batches,    \* the calls of send_folder that may ever be made (a bound)
    Folders,    \* the contents a folder may have: sequences of files
    MaxFaults   \* bound on lost connections and crashes

Files == UNION {{fs[i] : i \in DOMAIN fs} : fs \in Folders}

ASSUME FolderAssumption ==
    /\ \A fs \in Folders : fs \in Seq(Files)
    /\ \A fs \in Folders : \A i, j \in DOMAIN fs : fs[i] = fs[j] => i = j
    /\ MaxFaults \in Nat

VARIABLES
    stage,      \* b -> where the call stands
    files,      \* b -> the manifest
    pos,        \* b -> next file of it to offer
    pending,    \* b -> its entry in pending_folder_offers
    answer,     \* b -> what the oneshot channel holds
    results,    \* b -> the files offered, as the call will return them
    rows,       \* <<b, f>> that have a row in `messages`
    conv,       \* whether `conversations` has a row for R
    told,       \* <<b, answer>> in the event queue of S
    up,         \* the connection is open
    sess,       \* devices that have an entry for the peer in `sessions`
    wire,       \* device -> messages it sent that are not dispatched yet
    asked,      \* batches the user of R is asked about
    decision,   \* b -> the answer of R's user (history)
    prompted,   \* <<b, f>> whose FileOffer has reached R
    offered,    \* <<b, f>> whose FileOffer was enqueued (history)
    skipped,    \* <<b, f>> whose send_file failed (history)
    faults      \* faults so far

call == <<stage, files, pos, results>>
offer == <<pending, answer>>
net == <<up, sess>>
receiver == <<asked, decision, prompted>>
history == <<offered, skipped>>
vars == <<call, offer, rows, conv, told, net, wire, receiver, history, faults>>

-----------------------------------------------------------------------------
\* manifest: listed; armed: the entry is there; waiting: the offer is out;
\* agreed, refused: the wait is over, the entry still there; sending: between
\* two files; persist: ffi.rs writes the rows; returned, failed: the end.
Stages == {"idle", "manifest", "armed", "waiting", "agreed", "refused", "sending",
           "persist", "returned", "failed"}
Over == {"returned", "failed"}
Answers == {"accept", "reject"}

FolderOffer(b) == [kind |-> "FolderOffer", b |-> b]
FolderAnswer(b, a) == [kind |-> a, b |-> b]
FileOffer(b, f) == [kind |-> "FileOffer", b |-> b, f |-> f]

Messages == [kind : {"FolderOffer"} \cup Answers, b : Batches]
            \cup [kind : {"FileOffer"}, b : Batches, f : Files]

Goto(b, s) == stage' = [stage EXCEPT ![b] = s]

Init ==
    /\ stage = [b \in Batches |-> "idle"]
    /\ files = [b \in Batches |-> << >>]
    /\ pos = [b \in Batches |-> 1]
    /\ pending = [b \in Batches |-> "none"]
    /\ answer = [b \in Batches |-> "none"]
    /\ results = [b \in Batches |-> << >>]
    /\ rows = {} /\ told = {} /\ asked = {} /\ prompted = {}
    /\ offered = {} /\ skipped = {}
    /\ conv \in BOOLEAN
    /\ up = TRUE
    /\ sess = {"S", "R"}
    /\ wire = [d \in {"S", "R"} |-> << >>]
    /\ decision = [b \in Batches |-> "none"]
    /\ faults = 0

\* send_to: an entry takes the message, which is lost if the connection is;
\* it fails without an entry, or once the writer task has met the loss.
send_to(d, m) ==
    /\ d \in sess
    /\ wire' = IF up THEN [wire EXCEPT ![d] = Append(@, m)] ELSE wire

send_to_fails(d) == (d \notin sess \/ ~up) /\ UNCHANGED wire

-----------------------------------------------------------------------------
(* send_folder at S.                                                       *)

\* collect_files_recursive and the manifest.  An empty folder, a directory
\* that cannot be listed or a file that cannot be examined ends the call.
Collect(b, fs) ==
    /\ stage[b] = "idle"
    /\ \/ /\ fs # << >>
          /\ files' = [files EXCEPT ![b] = fs]
          /\ Goto(b, "manifest")
       \/ Goto(b, "failed") /\ UNCHANGED files
    /\ UNCHANGED <<pos, results, offer, rows, conv, told, net, wire, receiver, history, faults>>

ArmMutantForgets(b) ==   \* Fault: the entry is not inserted
    /\ stage[b] = "manifest"
    /\ Goto(b, "armed")
    /\ UNCHANGED <<files, pos, results, pending, answer, rows, conv, told, net, wire,
                   receiver, history, faults>>

Arm(b) ==
    /\ stage[b] = "manifest"
    /\ pending' = [pending EXCEPT ![b] = "armed"]
    /\ Goto(b, "armed")
    /\ UNCHANGED <<files, pos, results, answer, rows, conv, told, net, wire, receiver,
                   history, faults>>

\* The offer; if it fails the call returns at once and leaves its entry.
SendOffer(b) ==
    /\ stage[b] = "armed"
    /\ \/ send_to("S", FolderOffer(b)) /\ Goto(b, "waiting")
       \/ send_to_fails("S") /\ Goto(b, "failed")
    /\ UNCHANGED <<files, pos, results, offer, rows, conv, told, net, receiver, history, faults>>

\* The wait ends with the answer, or with the timeout while there is none.
Answered(b) ==
    /\ stage[b] = "waiting"
    /\ answer[b] # "none"
    /\ Goto(b, IF answer[b] = "accept" THEN "agreed" ELSE "refused")
    /\ UNCHANGED <<files, pos, results, offer, rows, conv, told, net, wire, receiver,
                   history, faults>>

TimesOutMutantNever(b) ==   \* Fault: waits without a limit
    stage[b] = "waiting" /\ answer[b] = "none" /\ FALSE /\ UNCHANGED vars

TimesOutMutantAgrees(b) ==   \* Fault: anything but a refusal is an acceptance
    /\ stage[b] = "waiting"
    /\ answer[b] = "none"
    /\ Goto(b, "agreed")
    /\ UNCHANGED <<files, pos, results, offer, rows, conv, told, net, wire, receiver,
                   history, faults>>

TimesOut(b) ==
    /\ stage[b] = "waiting"
    /\ answer[b] = "none"
    /\ Goto(b, "refused")
    /\ UNCHANGED <<files, pos, results, offer, rows, conv, told, net, wire, receiver,
                   history, faults>>

\* The entry is removed, whatever the outcome.
Disarm(b) ==
    /\ stage[b] \in {"agreed", "refused"}
    /\ pending' = [pending EXCEPT ![b] = "none"]
    /\ Goto(b, IF stage[b] = "agreed" THEN "sending" ELSE "failed")
    /\ UNCHANGED <<files, pos, results, answer, rows, conv, told, net, wire, receiver,
                   history, faults>>

\* send_file for the next file: its offer goes out and it joins the results,
\* or it fails and is left out.  The source is not opened before R accepts.
OfferFileMutantAll(b) ==   \* Fault: a file whose offer failed is returned too
    LET f == files[b][pos[b]]
    IN  /\ stage[b] = "sending"
        /\ pos[b] <= Len(files[b])
        /\ pos' = [pos EXCEPT ![b] = @ + 1]
        /\ results' = [results EXCEPT ![b] = Append(@, f)]
        /\ \/ /\ send_to("S", FileOffer(b, f))
              /\ offered' = offered \cup {<<b, f>>}
              /\ UNCHANGED skipped
           \/ /\ send_to_fails("S")
              /\ skipped' = skipped \cup {<<b, f>>}
              /\ UNCHANGED offered
        /\ UNCHANGED <<stage, files, offer, rows, conv, told, net, receiver, faults>>

OfferFileMutantTwice(b) ==   \* Fault: the loop advances twice
    LET f == files[b][pos[b]]
    IN  /\ stage[b] = "sending"
        /\ pos[b] <= Len(files[b])
        /\ pos' = [pos EXCEPT ![b] = @ + 2]
        /\ send_to("S", FileOffer(b, f))
        /\ results' = [results EXCEPT ![b] = Append(@, f)]
        /\ offered' = offered \cup {<<b, f>>}
        /\ UNCHANGED <<stage, files, offer, rows, conv, told, net, receiver, skipped, faults>>

OfferFile(b) ==
    LET f == files[b][pos[b]]
    IN  /\ stage[b] = "sending"
        /\ pos[b] <= Len(files[b])
        /\ pos' = [pos EXCEPT ![b] = @ + 1]
        /\ \/ /\ send_to("S", FileOffer(b, f))
              /\ results' = [results EXCEPT ![b] = Append(@, f)]
              /\ offered' = offered \cup {<<b, f>>}
              /\ UNCHANGED skipped
           \/ /\ send_to_fails("S")
              /\ skipped' = skipped \cup {<<b, f>>}
              /\ UNCHANGED <<results, offered>>
        /\ UNCHANGED <<stage, files, offer, rows, conv, told, net, receiver, faults>>

\* The end of the loop: a call that offered nothing fails.
LoopEnds(b) ==
    /\ stage[b] = "sending"
    /\ pos[b] > Len(files[b])
    /\ Goto(b, IF results[b] = << >> THEN "failed" ELSE "persist")
    /\ UNCHANGED <<files, pos, results, offer, rows, conv, told, net, wire, receiver,
                   history, faults>>

\* ffi.rs writes a row per result under one lock; each needs the
\* conversation, and a row that fails is passed over.
PersistRows(b) ==
    /\ stage[b] = "persist"
    /\ rows' = IF conv THEN rows \cup {<<b, results[b][i]>> : i \in DOMAIN results[b]} ELSE rows
    /\ Goto(b, "returned")
    /\ UNCHANGED <<files, pos, results, offer, conv, told, net, wire, receiver, history, faults>>

\* A text to R creates the conversation (see Chat).
ConversationCreated ==
    /\ ~conv
    /\ conv' = TRUE
    /\ UNCHANGED <<call, offer, rows, told, net, wire, receiver, history, faults>>

-----------------------------------------------------------------------------
(* Dispatch.                                                               *)

\* handle_folder_accept and handle_folder_reject take the sender out of the
\* entry, if both are still there, pass the answer on if somebody waits for
\* it, and tell the user.  A rejection also removes the entry.
HandleAnswer(b, a) ==
    /\ answer' = IF pending[b] = "armed" /\ stage[b] = "waiting"
                   THEN [answer EXCEPT ![b] = a] ELSE answer
    /\ pending' = [pending EXCEPT ![b] =
                     IF a = "reject" THEN "none" ELSE IF @ = "armed" THEN "taken" ELSE @]
    /\ told' = told \cup {<<b, a>>}

DispatchAtS ==
    /\ up /\ "S" \in sess
    /\ wire["R"] # << >>
    /\ LET m == Head(wire["R"]) IN HandleAnswer(m.b, m.kind)
    /\ wire' = [wire EXCEPT !["R"] = Tail(@)]
    /\ UNCHANGED <<call, rows, conv, net, receiver, history, faults>>

\* At R an offer only becomes an event, for the folder or for one file.
DispatchAtR ==
    /\ up /\ "R" \in sess
    /\ wire["S"] # << >>
    /\ LET m == Head(wire["S"])
       IN  IF m.kind = "FolderOffer"
             THEN asked' = asked \cup {m.b} /\ UNCHANGED prompted
             ELSE prompted' = prompted \cup {<<m.b, m.f>>} /\ UNCHANGED asked
    /\ wire' = [wire EXCEPT !["S"] = Tail(@)]
    /\ UNCHANGED <<call, offer, rows, conv, told, net, decision, history, faults>>

\* accept_folder or reject_folder: the user of R answers once.
Decide(b, a) ==
    /\ b \in asked
    /\ asked' = asked \ {b}
    /\ decision' = [decision EXCEPT ![b] = a]
    /\ send_to("R", FolderAnswer(b, a)) \/ send_to_fails("R")
    /\ UNCHANGED <<call, offer, rows, conv, told, net, prompted, history, faults>>

-----------------------------------------------------------------------------
(* Connections and processes.                                              *)

ConnectionLost ==
    /\ up
    /\ faults < MaxFaults
    /\ up' = FALSE
    /\ wire' = [d \in {"S", "R"} |-> << >>]
    /\ faults' = faults + 1
    /\ UNCHANGED <<call, offer, rows, conv, told, sess, receiver, history>>

ReaderEnds(d) ==
    /\ ~up
    /\ d \in sess
    /\ sess' = sess \ {d}
    /\ UNCHANGED <<call, offer, rows, conv, told, up, wire, receiver, history, faults>>

Reconnect ==
    /\ ~up
    /\ sess = {}
    /\ up' = TRUE
    /\ sess' = {"S", "R"}
    /\ UNCHANGED <<call, offer, rows, conv, told, wire, receiver, history, faults>>

\* S dies, and its calls with it; or R does, and forgets what it was asked.
CrashS ==
    /\ faults < MaxFaults
    /\ stage' = [b \in Batches |-> IF stage[b] \in Over \cup {"idle"} THEN stage[b] ELSE "failed"]
    /\ pending' = [b \in Batches |-> "none"]
    /\ answer' = [b \in Batches |-> "none"]
    /\ told' = {}
    /\ up' = FALSE
    /\ sess' = sess \ {"S"}
    /\ wire' = [d \in {"S", "R"} |-> << >>]
    /\ faults' = faults + 1
    /\ UNCHANGED <<files, pos, results, rows, conv, receiver, history>>

CrashR ==
    /\ faults < MaxFaults
    /\ asked' = {}
    /\ prompted' = {}
    /\ up' = FALSE
    /\ sess' = sess \ {"R"}
    /\ wire' = [d \in {"S", "R"} |-> << >>]
    /\ faults' = faults + 1
    /\ UNCHANGED <<call, offer, rows, conv, told, decision, history>>

-----------------------------------------------------------------------------
CallStep(b) ==
    \/ Arm(b) \/ SendOffer(b) \/ Answered(b) \/ TimesOut(b) \/ Disarm(b)
    \/ OfferFile(b) \/ LoopEnds(b) \/ PersistRows(b)

Next ==
    \/ \E b \in Batches, fs \in Folders : Collect(b, fs)
    \/ \E b \in Batches : CallStep(b)
    \/ \E b \in Batches, a \in Answers : Decide(b, a)
    \/ DispatchAtS \/ DispatchAtR \/ ConversationCreated
    \/ ConnectionLost \/ Reconnect \/ CrashS \/ CrashR
    \/ \E d \in {"S", "R"} : ReaderEnds(d)

Spec == Init /\ [][Next]_vars

\* Fair are the call itself, whose timer runs out, and nothing else: R's user
\* need not answer, and no message need arrive.
FairSpec == Spec /\ \A b \in Batches : WF_vars(CallStep(b))

-----------------------------------------------------------------------------
TypeOK ==
    /\ stage \in [Batches -> Stages]
    /\ files \in [Batches -> Folders \cup {<< >>}]
    /\ pos \in [Batches -> Nat]
    /\ \A b \in Batches : pos[b] \in 1 .. Len(files[b]) + 1
    /\ pending \in [Batches -> {"none", "armed", "taken"}]
    /\ answer \in [Batches -> Answers \cup {"none"}]
    /\ results \in [Batches -> Seq(Files)]
    /\ rows \subseteq Batches \X Files
    /\ conv \in BOOLEAN
    /\ told \subseteq Batches \X Answers
    /\ up \in BOOLEAN
    /\ sess \subseteq {"S", "R"}
    /\ wire \in [{"S", "R"} -> Seq(Messages)]
    /\ asked \subseteq Batches
    /\ decision \in [Batches -> Answers \cup {"none"}]
    /\ prompted \subseteq Batches \X Files
    /\ offered \subseteq Batches \X Files
    /\ skipped \subseteq Batches \X Files
    /\ faults \in 0 .. MaxFaults

\* No file is offered that R did not agree to receive: whatever times out,
\* crashes or reconnects, a FileOffer of a batch leaves S only if the user of
\* R accepted that batch, and the user of S is told nothing else.
FilesOnlyAfterAccept ==
    \A b \in Batches :
        /\ \A f \in Files : <<b, f>> \in offered => decision[b] = "accept"
        /\ \A a \in Answers : <<b, a>> \in told => decision[b] = a

Returned(b, f) == \E i \in DOMAIN results[b] : results[b][i] = f
UnderWay(b, f) == \E i \in DOMAIN wire["S"] : wire["S"][i] = FileOffer(b, f)

InManifestOrder(b) ==
    \A i, j \in DOMAIN results[b] : i < j =>
        \E k, l \in DOMAIN files[b] :
            k < l /\ files[b][k] = results[b][i] /\ files[b][l] = results[b][j]

\* Every file the loop has passed, and no other, is among the results or had
\* an offer of its own that failed, and not both; the loop passes them all.
EveryFileAccounted(b) ==
    /\ \A k \in DOMAIN files[b] :
          /\ k < pos[b] <=> Returned(b, files[b][k]) \/ <<b, files[b][k]>> \in skipped
          /\ ~ (Returned(b, files[b][k]) /\ <<b, files[b][k]>> \in skipped)
    /\ stage[b] \in {"persist", "returned"} => pos[b] = Len(files[b]) + 1

\* R is shown no file that the call does not return.
ShownIsReturned(b) ==
    \A f \in Files : UnderWay(b, f) \/ <<b, f>> \in prompted => Returned(b, f)

\* A call that has returned left a row for each of its results, or, without a
\* conversation, for none; before that there is no row.
RowsAreResults(b) ==
    \/ \A f \in Files : <<b, f>> \notin rows
    \/ stage[b] = "returned" /\ \A f \in Files : <<b, f>> \in rows <=> Returned(b, f)

\* The results of a call are in the order of the manifest; a file of it is
\* missing only if its own offer failed; R is shown no other file, whatever
\* was lost, replaced or crashed meanwhile; and the rows of `messages` are
\* those of the results.
ResultsExact ==
    \A b \in Batches :
        InManifestOrder(b) /\ EveryFileAccounted(b) /\ ShownIsReturned(b) /\ RowsAreResults(b)

\* While a call waits, an answer that arrives will reach it, unless it has
\* already: its entry is armed for as long as the channel is empty.
AnswerIsHeard ==
    \A b \in Batches :
        stage[b] \in {"armed", "waiting"} /\ answer[b] = "none" => pending[b] = "armed"

\* Every call returns: the answer, the timeout or an error ends it, whether
\* or not R answers and whatever becomes of the connection.
FolderReturns ==
    \A b \in Batches : stage[b] # "idle" ~> stage[b] \in Over
=============================================================================
