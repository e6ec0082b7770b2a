-------------------------------- MODULE Dnssec --------------------------------
(***************************************************************************)
(* What is made of the proofs of an answer's records (dnssec.rs), of an    *)
(* upstream's answers and errors (upstream/transport.rs, upstream/odoh.rs),*)
(* and what of it a client is shown.                                       *)
(*                                                                         *)
(* A message is a response code, the set of proofs its records carry,      *)
(* whether records of DNSSEC itself are among them, and the AD bit.  What  *)
(* the library hands over is an outcome: an answer, an error with a proof  *)
(* and a message (negative answers whose proof fails), another error, or   *)
(* the end of the stream.                                                  *)
(***************************************************************************)
EXTENDS FiniteSets

Proofs == {"Secure", "Insecure", "Bogus", "Indeterminate"}
Failures == {"ServFail", "Refused", "NotImp"}

(* verdict: one bogus record is enough, secure they must be all. *)
Verdict(proofs) ==
  IF "Bogus" \in proofs THEN "Bogus"
  ELSE IF proofs = {"Secure"} THEN "Secure"
  ELSE IF "Insecure" \in proofs THEN "Insecure"
  ELSE "Indeterminate"

IsEmptyFailure(message) == message.proofs = {} /\ ~message.sigs /\ message.code \in Failures

(* from_error: an error may be a verdict; what came with it is the answer. *)
FromError(outcome) ==
  IF outcome.kind = "nsec" /\ ~IsEmptyFailure(outcome.message)
  THEN {[verdict |-> outcome.proof, message |-> outcome.message]}
  ELSE {}

Failed(why) == [error |-> why]
IsError(result) == "error" \in DOMAIN result

(* apply_verdict: the AD bit stands for our own verdict then. *)
ApplyVerdict(message, verdict) ==
  IF verdict = "Bogus" THEN Failed("Bogus")
  ELSE [message EXCEPT !.ad = (verdict = "Secure"), !.verdict = verdict]

Judged(message) == ApplyVerdict(message, Verdict(message.proofs))

Settled(outcome) ==
  LET found == CHOOSE f \in FromError(outcome) : TRUE
  IN  ApplyVerdict(found.message, found.verdict)

(* Transport::send_checked: what the pool gets of a direct upstream.  Only *)
(* an answer is compared with the question.                                *)
SendChecked(outcome, validate) ==
  CASE outcome.kind = "answer" /\ ~outcome.fits -> Failed("Mismatch")
    [] outcome.kind = "answer" /\ outcome.fits ->
         IF validate THEN Judged(outcome.message) ELSE outcome.message
    [] outcome.kind = "nsec" /\ FromError(outcome) # {} -> Settled(outcome)
    [] outcome.kind = "nsec" /\ FromError(outcome) = {} -> Failed("Unproven")
    [] outcome.kind = "error" -> Failed("Upstream")
    [] outcome.kind = "end" -> Failed("Timeout")

(* OdohBackend::resolve: OdohTransport::send has compared the answer with  *)
(* the question, and the library makes an error of what did not fit.       *)
ObliviousChecked(outcome, validate) ==
  CASE outcome.kind = "answer" /\ ~outcome.fits ->
         Failed(IF validate THEN "Upstream" ELSE "Mismatch")
    [] outcome.kind = "answer" /\ outcome.fits ->
         IF validate THEN Judged(outcome.message) ELSE outcome.message
    [] outcome.kind = "nsec" /\ FromError(outcome) # {} -> Settled(outcome)
    [] outcome.kind = "nsec" /\ FromError(outcome) = {} -> Failed("Upstream")
    [] outcome.kind = "error" -> Failed("Upstream")
    [] outcome.kind = "end" -> Failed("Timeout")

(* for_client, behind the cache: who did not ask for it sees none of it. *)
WantsRecords(request) == request.do
WantsVerdict(request) == request.ad \/ request.do

ForClient(request, message) ==
  [message EXCEPT !.ad = @ /\ WantsVerdict(request),
                  !.sigs = @ /\ WantsRecords(request)]
=============================================================================
