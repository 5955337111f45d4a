----------------------------- MODULE HeaderBatch -----------------------------
(***************************************************************************)
(* VerifyHeaders and verifyHeaderWorker (ethash/consensus.go): a batch of  *)
(* headers is verified by several goroutines, and one more hands out the   *)
(* indices and sends the results on in the order of the headers, until all *)
(* are sent or the caller closes abort.                                    *)
(***************************************************************************)
EXTENDS Integers, Sequences, FiniteSets

CONSTANTS
  Batches,  \* batches to verify: sequences of HeaderInfo
  Procs     \* runtime.GOMAXPROCS(0)

\* What a worker finds out of a header: whether its parent is the header
\* before it (the first one: is known), whether it is known itself, whether
\* verifyHeader accepts it.
HeaderInfo == [linked : BOOLEAN, known : BOOLEAN, sound : BOOLEAN]

ASSUME BatchAssumption ==
  Procs \in Nat \ {0} /\ Batches \subseteq Seq(HeaderInfo)

VARIABLES
  batch,     \* headers
  nextIn,    \* in
  nextOut,   \* out
  verifiers, \* per worker: where it is, and its index
  doneQ,     \* the done channel, as wide as there are workers
  errs,      \* errors
  checked,   \* checked
  sender,    \* the goroutine between the workers and the caller
  quitting,  \* abort is closed
  emitted    \* results sent to the caller

batchVars == <<batch, nextIn, nextOut, verifiers, doneQ, errs, checked,
               sender, quitting, emitted>>

Outcomes == {"ok", "unknownAncestor", "invalid"}
Size     == Len(batch)
Crew(b)  == 1..(IF Len(b) < Procs THEN Len(b) ELSE Procs)

BatchTypeOK ==
  /\ batch \in Batches /\ nextIn \in 1..(Size + 1) /\ nextOut \in 1..(Size + 1)
  /\ \A w \in Crew(batch) :
       /\ verifiers[w].pc \in {"idle", "verify", "report", "gone"}
       /\ verifiers[w].i \in 0..Size
  /\ Len(doneQ) <= Procs /\ \A k \in 1..Len(doneQ) : doneQ[k] \in 1..Size
  /\ errs \in [1..Size -> Outcomes \union {"unset"}]
  /\ checked \in [1..Size -> BOOLEAN]
  /\ sender \in {"runs", "returned"} /\ quitting \in BOOLEAN
  /\ Len(emitted) <= Size

BatchInit ==
  /\ batch \in Batches
  /\ nextIn = 1 /\ nextOut = 1
  /\ verifiers = [w \in Crew(batch) |-> [pc |-> "idle", i |-> 0]]
  /\ doneQ = <<>>
  /\ errs = [i \in 1..Size |-> "unset"]
  /\ checked = [i \in 1..Size |-> FALSE]
  /\ sender = IF Size = 0 THEN "returned" ELSE "runs"
  /\ quitting = FALSE /\ emitted = <<>>
-----------------------------------------------------------------------------
(* verifyHeaderWorker.                                                     *)

\* A header whose predecessor is bad is still verified against it.
Outcome(h) == IF ~h.linked THEN "unknownAncestor"
              ELSE IF h.known \/ h.sound THEN "ok" ELSE "invalid"

VerifyOne(w) ==
  /\ verifiers[w].pc = "verify"
  /\ errs' = [errs EXCEPT ![verifiers[w].i] = Outcome(batch[verifiers[w].i])]
  /\ verifiers' = [verifiers EXCEPT ![w].pc = "report"]
  /\ UNCHANGED <<batch, nextIn, nextOut, doneQ, checked, sender, quitting,
                 emitted>>

ReportDone(w) ==
  /\ verifiers[w].pc = "report" /\ Len(doneQ) < Len(verifiers)
  /\ doneQ' = Append(doneQ, verifiers[w].i)
  /\ verifiers' = [verifiers EXCEPT ![w] = [pc |-> "idle", i |-> 0]]
  /\ UNCHANGED <<batch, nextIn, nextOut, errs, checked, sender, quitting,
                 emitted>>

\* inputs is closed when the sender returns.
VerifierEnds(w) ==
  /\ verifiers[w].pc = "idle" /\ sender = "returned"
  /\ verifiers' = [verifiers EXCEPT ![w].pc = "gone"]
  /\ UNCHANGED <<batch, nextIn, nextOut, doneQ, errs, checked, sender,
                 quitting, emitted>>
-----------------------------------------------------------------------------
(* VerifyHeaders.                                                          *)

\* Mutant of MoreInputs: the last header is never handed out.
MoreInputsStrict == nextIn < Size

\* Once every index is handed out, the channel of the select is nil.
MoreInputs == nextIn <= Size

HandOut(w) ==
  /\ sender = "runs" /\ MoreInputs /\ verifiers[w].pc = "idle"
  /\ verifiers' = [verifiers EXCEPT ![w] = [pc |-> "verify", i |-> nextIn]]
  /\ nextIn' = nextIn + 1
  /\ UNCHANGED <<batch, nextOut, doneQ, errs, checked, sender, quitting,
                 emitted>>

\* Mutant of ReadyTo: as many results go out as there are, in any order.
ReadyToCount(ck) == 1 + Cardinality({i \in 1..Size : ck[i]})

\* The first index at or after out that is not checked.
ReadyTo(ck) ==
  CHOOSE n \in nextOut..(Size + 1) :
    /\ \A i \in nextOut..(n - 1) : ck[i]
    /\ n = Size + 1 \/ ~ck[n]

\* An index comes back: everything up to the first gap is sent.
Gather ==
  /\ sender = "runs" /\ doneQ # <<>>
  /\ doneQ' = Tail(doneQ)
  /\ checked' = [checked EXCEPT ![Head(doneQ)] = TRUE]
  /\ nextOut' = ReadyTo(checked')
  /\ emitted' = emitted \o SubSeq(errs, nextOut, nextOut' - 1)
  /\ sender' = IF nextOut' = Size + 1 THEN "returned" ELSE "runs"
  /\ UNCHANGED <<batch, nextIn, verifiers, errs, quitting>>

\* The caller has seen enough.
CallerQuits ==
  /\ ~quitting /\ quitting' = TRUE
  /\ UNCHANGED <<batch, nextIn, nextOut, verifiers, doneQ, errs, checked,
                 sender, emitted>>

SenderQuits ==
  /\ sender = "runs" /\ quitting /\ sender' = "returned"
  /\ UNCHANGED <<batch, nextIn, nextOut, verifiers, doneQ, errs, checked,
                 quitting, emitted>>

BatchNext ==
  \/ \E w \in Crew(batch) :
       VerifyOne(w) \/ ReportDone(w) \/ VerifierEnds(w) \/ HandOut(w)
  \/ Gather \/ CallerQuits \/ SenderQuits

\* The goroutines run; the caller need not quit.
VerifierMoves(w) == VerifyOne(w) \/ ReportDone(w) \/ VerifierEnds(w)

BatchFairness ==
  /\ \A w \in 1..Procs :
       WF_batchVars(w \in Crew(batch) /\ (VerifierMoves(w) \/ HandOut(w)))
  /\ WF_batchVars(Gather)

BatchSpec == BatchInit /\ [][BatchNext]_batchVars /\ BatchFairness
-----------------------------------------------------------------------------
(* Properties.                                                             *)

\* The caller gets the verdict on the first header first, then the second's:
\* whatever order the workers finish in, and never before one has finished.
InHeaderOrder ==
  \A i \in 1..Len(emitted) : emitted[i] = Outcome(batch[i])

\* A caller that does not quit gets all results, and no worker is left over.
BatchEnds ==
  <>(quitting \/ /\ Len(emitted) = Size
                 /\ \A w \in Crew(batch) : verifiers[w].pc = "gone")
=============================================================================
