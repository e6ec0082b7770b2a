---------------------------- MODULE GuardsProofs -----------------------------
(***************************************************************************)
(* Theorems about the parts in Guards, for any values of their constants.  *)
(* Every one is about the specification of its part, of which a behaviour  *)
(* of Parts with that part is one.                                         *)
(***************************************************************************)
EXTENDS Guards, FiniteSetTheorems, WellFoundedInduction, TLAPS

-----------------------------------------------------------------------------
(* The order of the naturals, as a relation, is well founded. *)
LessThan == {p \in Nat \X Nat : p[1] < p[2]}

LEMMA LessThanWellFounded == IsWellFoundedOn(LessThan, Nat)
BY NatLessThanWellFounded, Zenon DEF OpToRel, LessThan

(* A non-empty set of naturals has a least member. *)
LEMMA LeastOfNats ==
  ASSUME NEW S, S \subseteq Nat, S # {}
  PROVE  \E x \in S : \A y \in S : x <= y
<1>1. PICK x \in S : \A y \in S : ~(<<y, x>> \in LessThan)
  BY LessThanWellFounded, WFMin
<1>2. ASSUME NEW y \in S PROVE x <= y
  <2>1. x \in Nat /\ y \in Nat /\ (y < x => <<y, x>> \in LessThan)
    BY DEF LessThan
  <2>2. QED
    BY <1>1, <2>1
<1>3. QED
  BY <1>2

(* Names compare label by label, from the right. *)
LEMMA Suffix ==
  ASSUME NEW S, NEW zone \in Seq(S), NEW name \in Seq(S)
  PROVE  Way!Within(name, zone) <=>
           /\ Len(zone) <= Len(name)
           /\ \A i \in 1 .. Len(zone) : zone[i] = name[Len(name) - Len(zone) + i]
<1> DEFINE k == Len(zone)
<1> DEFINE n == Len(name)
<1> DEFINE rz == Way!Reverse(zone)
<1> DEFINE rn == Way!Reverse(name)
<1>1. k \in Nat /\ n \in Nat
  OBVIOUS
<1>2. /\ rz \in Seq(S) /\ Len(rz) = k /\ \A i \in 1 .. k : rz[i] = zone[k - i + 1]
      /\ rn \in Seq(S) /\ Len(rn) = n /\ \A i \in 1 .. n : rn[i] = name[n - i + 1]
  BY DEF Way!Reverse
<1>3. Way!Within(name, zone) <=>
        Len(rz) <= Len(rn) /\ SubSeq(rz, 1, Len(rz)) = SubSeq(rn, 1, Len(rz))
  BY DEF Way!Within, Way!IsSuffix, Way!IsPrefix
<1> HIDE DEF rz, rn, k, n
<1>4. ASSUME k <= n
      PROVE  SubSeq(rz, 1, k) = SubSeq(rn, 1, k) <=> \A i \in 1 .. k : rz[i] = rn[i]
  BY <1>1, <1>2, <1>4
<1>5. ASSUME k <= n
      PROVE  (\A i \in 1 .. k : rz[i] = rn[i]) <=> \A i \in 1 .. k : zone[i] = name[n - k + i]
  <2>1. ASSUME \A i \in 1 .. k : rz[i] = rn[i], NEW i \in 1 .. k
        PROVE  zone[i] = name[n - k + i]
    <3> DEFINE j == k - i + 1
    <3>1. j \in 1 .. k /\ j \in 1 .. n /\ k - j + 1 = i /\ n - j + 1 = n - k + i
      BY <1>1, <1>5
    <3> HIDE DEF j
    <3>2. rz[j] = zone[k - j + 1] /\ rn[j] = name[n - j + 1] /\ rz[j] = rn[j]
      BY <1>2, <2>1, <3>1
    <3>3. QED
      BY <3>1, <3>2
  <2>2. ASSUME \A i \in 1 .. k : zone[i] = name[n - k + i], NEW j \in 1 .. k
        PROVE  rz[j] = rn[j]
    <3> DEFINE i == k - j + 1
    <3>1. i \in 1 .. k /\ j \in 1 .. n /\ k - j + 1 = i /\ n - j + 1 = n - k + i
      BY <1>1, <1>5
    <3> HIDE DEF i
    <3>2. rz[j] = zone[k - j + 1] /\ rn[j] = name[n - j + 1] /\ zone[i] = name[n - k + i]
      BY <1>2, <2>2, <3>1
    <3>3. QED
      BY <3>1, <3>2
  <2>3. QED
    BY <2>1, <2>2
<1>6. QED
  BY <1>1, <1>2, <1>3, <1>4, <1>5 DEF k, n

LEMMA WithinItself == ASSUME NEW S, NEW name \in Seq(S) PROVE Way!Within(name, name)
<1>1. Len(name) <= Len(name) /\ \A i \in 1 .. Len(name) : name[i] = name[Len(name) - Len(name) + i]
  OBVIOUS
<1>2. QED
  BY <1>1, Suffix

(* Of two zones above a name the longer one is within the other. *)
LEMMA WithinEachOther ==
  ASSUME NEW S, NEW name \in Seq(S), NEW a \in Seq(S), NEW b \in Seq(S),
         Way!Within(name, a), Way!Within(name, b), Len(a) <= Len(b)
  PROVE  Way!Within(b, a)
<1>1. /\ \A i \in 1 .. Len(a) : a[i] = name[Len(name) - Len(a) + i]
      /\ \A i \in 1 .. Len(b) : b[i] = name[Len(name) - Len(b) + i]
      /\ Len(b) <= Len(name)
  BY Suffix
<1>2. ASSUME NEW i \in 1 .. Len(a) PROVE a[i] = b[Len(b) - Len(a) + i]
  <2> DEFINE j == Len(b) - Len(a) + i
  <2>1. j \in 1 .. Len(b) /\ Len(name) - Len(b) + j = Len(name) - Len(a) + i
    OBVIOUS
  <2> HIDE DEF j
  <2>2. b[j] = name[Len(name) - Len(b) + j]
    BY <1>1, <2>1
  <2>3. QED
    BY <1>1, <2>1, <2>2 DEF j
<1>3. QED
  BY <1>2, Suffix

(* One of some zones is the deepest one above a name, if any is above it. *)
LEMMA SomeIsDeepest ==
  ASSUME NEW S, NEW name \in Seq(S), NEW zones, zones \subseteq Seq(S)
  PROVE  Way!Deepest(name, zones) = {} <=> \A z \in zones : ~Way!Within(name, z)
<1> DEFINE above == {z \in zones : Way!Within(name, z)}
<1>1. Way!Deepest(name, zones) = {z \in above : \A y \in above : Len(y) <= Len(z)}
  BY DEF Way!Deepest
<1>2. \A z \in above : Len(z) \in Nat /\ Len(z) <= Len(name)
  BY Suffix
<1> HIDE DEF above
<1>3. ASSUME NEW w \in above
      PROVE  \E z \in above : \A y \in above : Len(y) <= Len(z)
  <2> DEFINE Rest == {Len(name) - Len(z) : z \in above}
  <2>1. Rest \subseteq Nat /\ Rest # {}
    BY <1>2, <1>3
  <2> HIDE DEF Rest
  <2>2. PICK x \in Rest : \A y \in Rest : x <= y
    BY <2>1, LeastOfNats
  <2>3. PICK z \in above : x = Len(name) - Len(z)
    BY DEF Rest
  <2>4. ASSUME NEW y \in above PROVE Len(y) <= Len(z)
    <3>1. Len(name) - Len(y) \in Rest
      BY DEF Rest
    <3>2. Len(name) - Len(z) <= Len(name) - Len(y)
      BY <2>2, <2>3, <3>1
    <3>3. QED
      BY <1>2, <3>2
  <2>5. QED
    BY <2>4
<1>4. Way!Deepest(name, zones) = {} <=> above = {}
  BY <1>1, <1>3
<1>5. QED
  BY <1>4 DEF above

(* What is within a zone is within the zones around it. *)
LEMMA WithinAll ==
  ASSUME NEW S, NEW name \in Seq(S), NEW a \in Seq(S), NEW b \in Seq(S),
         Way!Within(name, b), Way!Within(b, a)
  PROVE  Way!Within(name, a)
<1>1. /\ \A i \in 1 .. Len(b) : b[i] = name[Len(name) - Len(b) + i]
      /\ \A i \in 1 .. Len(a) : a[i] = b[Len(b) - Len(a) + i]
      /\ Len(a) <= Len(b) /\ Len(b) <= Len(name)
  BY Suffix
<1>2. ASSUME NEW i \in 1 .. Len(a) PROVE a[i] = name[Len(name) - Len(a) + i]
  <2> DEFINE j == Len(b) - Len(a) + i
  <2>1. j \in 1 .. Len(b) /\ Len(name) - Len(b) + j = Len(name) - Len(a) + i
    BY <1>1
  <2> HIDE DEF j
  <2>2. b[j] = name[Len(name) - Len(b) + j]
    BY <1>1, <2>1
  <2>3. QED
    BY <1>1, <2>1, <2>2 DEF j
<1>3. Len(a) <= Len(name)
  BY <1>1
<1>4. QED
  BY <1>2, <1>3, Suffix

(* A name has one zone of a length above it. *)
LEMMA OneOfALength ==
  ASSUME NEW S, NEW name \in Seq(S), NEW a \in Seq(S), NEW b \in Seq(S),
         Way!Within(name, a), Way!Within(name, b), Len(a) = Len(b)
  PROVE  a = b
<1>1. /\ \A i \in 1 .. Len(a) : a[i] = name[Len(name) - Len(a) + i]
      /\ \A i \in 1 .. Len(b) : b[i] = name[Len(name) - Len(b) + i]
  BY Suffix
<1>2. \A i \in 1 .. Len(a) : a[i] = b[i]
  BY <1>1
<1>3. QED
  BY <1>2

-----------------------------------------------------------------------------
(***************************************************************************)
(* A question's way.  Every answer of the pool that comes back to the      *)
(* cache has its verdict, and its AD bit is that; what a client is shown   *)
(* is such an answer, less what it has not asked for.                      *)
(***************************************************************************)
Judgement(m) ==
  /\ DOMAIN m = {"code", "proofs", "sigs", "ad", "from", "verdict", "addresses", "blocked"}
  /\ m.ad \in BOOLEAN /\ m.sigs \in BOOLEAN /\ m.blocked = FALSE
  /\ m.verdict \in Way!Proofs \ {"Bogus"}
  /\ m.ad <=> m.verdict = "Secure"
  /\ m.proofs = {"Secure"} => m.sigs

Trusted(m) == "from" \in DOMAIN m /\ (m.from = "pool" => Judgement(m))

(* The last reply, once it has gone out. *)
GoneOut ==
  wayRequest # Way!Nobody /\ wayReply # Way!Nobody /\ wayReply.from = "pool" /\ ~wayReply.blocked =>
    \E m : Judgement(m) /\ m.from = "pool" /\ wayReply = Way!ForClient(wayRequest, m)

ProofInv ==
  wayConfig.validate =>
    /\ \A q \in DOMAIN wayCache : Trusted(wayCache[q])
    /\ wayStage = "reply" => Trusted(wayReply)
    /\ wayStage = "idle" => "from" \in DOMAIN wayReply /\ GoneOut
    /\ wayStage \in {"cache", "local", "zone", "pool", "reply"} => wayRequest # Way!Nobody
    /\ wayRequest # Way!Nobody => wayRequest.do \in BOOLEAN /\ wayRequest.ad \in BOOLEAN

(* An answer the pool gets of one of its upstreams has been judged. *)
LEMMA UpstreamJudged ==
  ASSUME NEW outcome \in WayOutcomes, Way!Possible(outcome), wayConfig.validate,
         NEW result,
         \/ result = Way!SendChecked(outcome, wayConfig.validate)
         \/ result = Way!ObliviousChecked(outcome, wayConfig.validate),
         ~Way!IsError(result)
  PROVE  Judgement(result) /\ result.from = "pool"
<1> DEFINE m == outcome.message
<1>1. \A why : Way!IsError(Way!Failed(why))
  BY DEF Way!IsError, Way!Failed
<1>2. ASSUME NEW v \in Way!Proofs, result = Way!ApplyVerdict(m, v),
             outcome.kind \in {"answer", "nsec"}
      PROVE  Judgement(result) /\ result.from = "pool"
  <2>1. v # "Bogus" /\ result = [m EXCEPT !.ad = (v = "Secure"), !.verdict = v]
    BY <1>1, <1>2 DEF Way!ApplyVerdict
  <2>2. QED
    BY <1>2, <2>1, WayAssumption DEF Judgement
<1>3. CASE outcome.kind = "answer"
  <2>1. result = Way!ApplyVerdict(m, Way!Verdict(m.proofs))
    BY <1>1, <1>3 DEF Way!SendChecked, Way!ObliviousChecked, Way!Judged
  <2>2. Way!Verdict(m.proofs) \in Way!Proofs
    BY DEF Way!Verdict, Way!Proofs
  <2>3. QED
    BY <1>2, <1>3, <2>1, <2>2
<1>4. CASE outcome.kind = "nsec"
  <2>1. Way!FromError(outcome) # {} /\ result = Way!Settled(outcome)
    BY <1>1, <1>4 DEF Way!SendChecked, Way!ObliviousChecked
  <2>2. Way!FromError(outcome) = {[verdict |-> outcome.proof, message |-> m]}
    BY <2>1 DEF Way!FromError
  <2>3. result = Way!ApplyVerdict(m, outcome.proof)
    <3> DEFINE f == [verdict |-> outcome.proof, message |-> m]
    <3>1. (CHOOSE g \in {f} : TRUE) = f
      OBVIOUS
    <3>2. f.message = m /\ f.verdict = outcome.proof
      OBVIOUS
    <3> HIDE DEF f
    <3>3. Way!Settled(outcome) = Way!ApplyVerdict(f.message, f.verdict)
      BY <2>2, <3>1 DEF Way!Settled, f
    <3>4. QED
      BY <2>1, <3>2, <3>3
  <2>4. QED
    BY <1>2, <1>4, <2>3, WayAssumption DEF Way!Proofs
<1>5. QED
  BY <1>1, <1>3, <1>4, WayAssumption DEF Way!SendChecked, Way!ObliviousChecked

(* What comes back may be kept for the others. *)
LEMMA ReturnStep ==
  ASSUME ProofInv, NEW m, Trusted(m), Way!Return(m),
         wayStage \in {"local", "zone", "pool"},
         wayConfig' = wayConfig, wayRequest' = wayRequest
  PROVE  ProofInv'
<1>1. wayCache' = wayCache \/ wayCache' = Way!Kept(wayRequest.q, m)
  BY DEF Way!Return
<1>2. wayConfig.validate => \A q \in DOMAIN wayCache' : Trusted(wayCache'[q])
  BY <1>1 DEF ProofInv, Way!Kept
<1>3. wayReply' = m /\ wayStage' = "reply"
  BY DEF Way!Return
<1>4. QED
  BY <1>2, <1>3 DEF ProofInv, Trusted

LEMMA FailingStep ==
  ASSUME ProofInv, NEW code, Way!Failing(code), wayStage \in {"zone", "pool"},
         wayConfig' = wayConfig, wayRequest' = wayRequest
  PROVE  ProofInv'
BY DEF ProofInv, Trusted, Way!Failing, Way!ErrorResponse, Way!Message

(* What is put in the place of an answer is marked. *)
LEMMA Synthesized ==
  \A mode, q, source :
    LET answer == Way!Synthesize(mode, q, source)
    IN  /\ DOMAIN answer = {"code", "proofs", "sigs", "ad", "from", "verdict",
                            "addresses", "blocked"}
        /\ answer.blocked = TRUE /\ answer.from = source
BY DEF Way!Synthesize, Way!Message

LEMMA ProofStep ==
  ASSUME ProofInv, [Way!Next]_wayVars
  PROVE  ProofInv'
<1> USE WayAssumption
<1>1. CASE Way!RefusePacket
  <2>1. \A packet \in Way!Refused :
          Way!ErrorTo(packet) \in {Way!Nobody, Way!ErrorResponse("FormErr"), Way!ErrorResponse("NotImp")}
    BY DEF Way!Refused, Way!ErrorTo
  <2>2. wayReply' \in {Way!Nobody, Way!ErrorResponse("FormErr"), Way!ErrorResponse("NotImp")}
    BY <1>1, <2>1 DEF Way!RefusePacket
  <2>3. \A code : /\ Way!ErrorResponse(code).from = "server"
                  /\ "from" \in DOMAIN Way!ErrorResponse(code)
    BY DEF Way!ErrorResponse, Way!Message
  <2>4. wayReply' = Way!Nobody \/ (wayReply'.from = "server" /\ "from" \in DOMAIN wayReply')
    BY <2>2, <2>3
  <2>5. QED
    BY <1>1, <2>4 DEF Way!RefusePacket, ProofInv, GoneOut, Trusted, Way!settings, Way!Nobody
<1>2. ASSUME NEW q \in WayQuestions, NEW flags \in WayFlags, Way!Receive(q, flags)
      PROVE  ProofInv'
  BY <1>2 DEF Way!Receive, ProofInv, Trusted, Way!settings, Way!Nobody
<1>3. CASE Way!FromCache
  BY <1>3 DEF Way!FromCache, ProofInv, Trusted, Way!settings
<1>4. CASE Way!NotInCache
  BY <1>4 DEF Way!NotInCache, ProofInv, Trusted, Way!settings
<1>5. CASE Way!AnswerLocally
  <2>1. PICK answer \in Way!LocalAnswers :
          Way!Return([Way!Message(answer.code, "local") EXCEPT
                        !.addresses = Way!LocalAddresses(answer.records)])
    BY <1>5 DEF Way!AnswerLocally
  <2>2. Trusted([Way!Message(answer.code, "local") EXCEPT
                   !.addresses = Way!LocalAddresses(answer.records)])
    BY DEF Trusted, Way!Message
  <2>3. QED
    BY <1>5, <2>1, <2>2, ReturnStep DEF Way!AnswerLocally, Way!settings
<1>6. CASE Way!PassOn
  BY <1>6 DEF Way!PassOn, ProofInv, Trusted, Way!settings
<1>7. ASSUME NEW ok \in BOOLEAN, NEW bits \in [ad : BOOLEAN, sigs : BOOLEAN],
             Way!AskServer(ok, bits)
      PROVE  ProofInv'
  <2> DEFINE m(addresses) == [Way!Message("NoError", "zone") EXCEPT
                                !.ad = bits.ad, !.sigs = bits.sigs /\ wayRequest.do,
                                !.addresses = addresses]
  <2>1. \A addresses : Trusted(m(addresses))
    BY DEF Trusted, Way!Message
  <2>2. CASE ok
    BY <1>7, <2>1, <2>2, ReturnStep DEF Way!AskServer, Way!settings
  <2>3. CASE ~ok
    BY <1>7, <2>3, FailingStep DEF Way!AskServer, Way!settings, ProofInv, Trusted
  <2>4. QED
    BY <2>2, <2>3
<1>8. ASSUME NEW u \in WayDirect \cup WayOblivious, NEW outcome \in WayOutcomes,
             Way!AskUpstream(u, outcome)
      PROVE  ProofInv'
  <2> DEFINE result == IF u \in WayDirect THEN Way!SendChecked(outcome, wayConfig.validate)
                       ELSE Way!ObliviousChecked(outcome, wayConfig.validate)
  <2>1. CASE ~wayConfig.validate
    BY <1>8, <2>1 DEF Way!AskUpstream, Way!settings, ProofInv
  <2>2. CASE wayConfig.validate /\ ~Way!IsError(result)
    <3>1. Judgement(result) /\ result.from = "pool"
      <4>1. Way!Possible(outcome)
        BY <1>8 DEF Way!AskUpstream
      <4>2. \/ result = Way!SendChecked(outcome, wayConfig.validate)
            \/ result = Way!ObliviousChecked(outcome, wayConfig.validate)
        OBVIOUS
      <4> HIDE DEF result
      <4>3. QED
        BY <2>2, <4>1, <4>2, UpstreamJudged
    <3>2. QED
      BY <1>8, <2>2, <3>1, ReturnStep DEF Way!AskUpstream, Way!settings, Trusted, Judgement
  <2>3. CASE Way!IsError(result)
    BY <1>8, <2>3, FailingStep DEF Way!AskUpstream, Way!settings, ProofInv, Trusted
  <2>4. QED
    BY <2>1, <2>2, <2>3
<1>9. CASE Way!Reply
  <2> SUFFICES ASSUME wayConfig.validate PROVE ProofInv'
    BY <1>9 DEF Way!Reply, Way!settings, ProofInv
  <2> DEFINE m == Way!Inspect(wayReply)
  <2>1. Trusted(wayReply) /\ wayRequest # Way!Nobody
    BY <1>9 DEF Way!Reply, ProofInv
  <2>2. \/ m = wayReply
        \/ m.blocked = TRUE /\ {"blocked", "from", "ad", "sigs"} \subseteq DOMAIN m
    <3>1. m = wayReply \/ m = Way!Synthesize(wayConfig.mode, wayRequest.q, wayReply.from)
      BY DEF Way!Inspect
    <3> DEFINE s == Way!Synthesize(wayConfig.mode, wayRequest.q, wayReply.from)
    <3>2. DOMAIN s = {"code", "proofs", "sigs", "ad", "from", "verdict",
                      "addresses", "blocked"}
      BY Synthesized
    <3>3. s.blocked = TRUE
      BY Synthesized
    <3> HIDE DEF s, m
    <3>4. QED
      BY <3>1, <3>2, <3>3 DEF s
  <2>3. (wayReply' = wayReply /\ wayReply.from = "server") \/ wayReply' = Way!ForClient(wayRequest, m)
    BY <1>9 DEF Way!Reply
  <2> HIDE DEF m
  <2>4. CASE wayReply' = wayReply /\ wayReply.from = "server"
    BY <1>9, <2>1, <2>4 DEF Way!Reply, Way!settings, ProofInv, Trusted, GoneOut
  <2>5. CASE wayReply' = Way!ForClient(wayRequest, wayReply)
    <3>1. DOMAIN wayReply' = DOMAIN wayReply /\ wayReply'.from = wayReply.from
      BY <2>1, <2>5 DEF Way!ForClient, Trusted
    <3>2. wayReply.from = "pool" => Judgement(wayReply)
      BY <2>1 DEF Trusted
    <3>3. GoneOut'
      BY <1>9, <2>5, <3>1, <3>2 DEF GoneOut, Way!Reply
    <3>4. QED
      BY <1>9, <2>1, <3>1, <3>3 DEF Way!Reply, Way!settings, ProofInv, Trusted
  <2>6. CASE m.blocked = TRUE /\ {"blocked", "from", "ad", "sigs"} \subseteq DOMAIN m
             /\ wayReply' = Way!ForClient(wayRequest, m)
    <3>1. wayReply'.blocked = TRUE /\ "from" \in DOMAIN wayReply'
      BY <2>6 DEF Way!ForClient
    <3>2. QED
      BY <1>9, <2>1, <3>1 DEF Way!Reply, Way!settings, ProofInv, Trusted, GoneOut
  <2>7. QED
    BY <2>2, <2>3, <2>4, <2>5, <2>6
<1>10. CASE Way!Expire
  BY <1>10 DEF Way!Expire, ProofInv, Trusted, Way!settings, GoneOut
<1>11. CASE UNCHANGED wayVars
  BY <1>11 DEF wayVars, ProofInv, Trusted, GoneOut
<1>12. QED
  BY <1>1, <1>2, <1>3, <1>4, <1>5, <1>6, <1>7, <1>8, <1>9, <1>10, <1>11 DEF Way!Next

(* caching.rs:63, dnssec.rs:295: for any household, questions, clients'    *)
(* flags, and whatever upstreams come up with.                             *)
THEOREM SecureProven == Way!Spec => []SecureMeansProven
<1>1. Way!Init => ProofInv
  BY DEF Way!Init, ProofInv, GoneOut, Way!Nobody
<1>2. ProofInv => SecureMeansProven
  <2> SUFFICES ASSUME ProofInv, wayConfig.validate
               PROVE  Way!SecureMeansProven
    BY DEF SecureMeansProven, Way!SecureMeansProven
  <2>1. ASSUME Way!Shown
        PROVE  /\ wayReply.verdict \in Way!Proofs \ {"Bogus"}
               /\ wayReply.ad <=> (wayReply.verdict = "Secure" /\ (wayRequest.do \/ wayRequest.ad))
               /\ wayReply.sigs => wayRequest.do
               /\ (wayReply.proofs = {"Secure"} /\ wayRequest.do) => wayReply.sigs
    <3>1. PICK m : Judgement(m) /\ wayReply = Way!ForClient(wayRequest, m)
      BY <2>1 DEF Way!Shown, ProofInv, GoneOut
    <3>2. wayRequest.do \in BOOLEAN /\ wayRequest.ad \in BOOLEAN
      BY <2>1 DEF Way!Shown, ProofInv
    <3>3. /\ wayReply.verdict = m.verdict /\ wayReply.proofs = m.proofs
          /\ wayReply.ad = (m.ad /\ Way!WantsVerdict(wayRequest))
          /\ wayReply.sigs = (m.sigs /\ Way!WantsRecords(wayRequest))
      BY <3>1 DEF Judgement, Way!ForClient
    <3>4. QED
      BY <3>1, <3>2, <3>3 DEF Judgement, Way!WantsVerdict, Way!WantsRecords
  <2>2. \A q \in DOMAIN wayCache :
          wayCache[q].from = "pool" => wayCache[q].verdict \in Way!Proofs \ {"Bogus"}
    BY DEF ProofInv, Trusted, Judgement
  <2>3. QED
    BY <2>1, <2>2 DEF Way!SecureMeansProven
<1>3. ProofInv /\ [Way!Next]_(Way!vars) => ProofInv'
  BY ProofStep DEF Way!vars, wayVars
<1>4. QED
  BY <1>1, <1>2, <1>3, PTL DEF Way!Spec

-----------------------------------------------------------------------------
(***************************************************************************)
(* Where a message comes from says where its name belongs.                 *)
(***************************************************************************)
Forwarded(name) == \E f \in DOMAIN wayConfig.forward : Way!Within(name, f)

AnsweredHere(q) ==
  Way!LocalAnswer(wayZones, DOMAIN wayConfig.forward, WayDdr, WayBuiltin, q)

Rightful(q, m) ==
  /\ "from" \in DOMAIN m /\ "blocked" \in DOMAIN m /\ "addresses" \in DOMAIN m
  /\ m.from \in {"local", "zone", "pool"} /\ m.blocked = FALSE
  /\ m.from = "zone" => Forwarded(q.name)
  /\ m.from = "local" /\ m.addresses # {} => Way!EntryIn(wayZones, q.name) # {}
  /\ m.from = "pool" => ~Forwarded(q.name) /\ AnsweredHere(q) = {}

OfServer(m) == m.from = "server" /\ m.blocked = FALSE

ZonesFit ==
  \A z \in wayZones :
    /\ z.zone \in Seq(STRING)
    /\ \A n \in DOMAIN z.entries : Way!Within(n, z.zone)

HomeInv ==
  /\ wayConfig \in WayConfigs /\ ZonesFit
  /\ \A q \in DOMAIN wayCache : q \in WayQuestions /\ Rightful(q, wayCache[q])
  /\ wayStage # "idle" => wayRequest.q \in WayQuestions
  /\ wayStage = "zone" => Forwarded(wayRequest.q.name)
  /\ wayStage = "pool" => ~Forwarded(wayRequest.q.name) /\ AnsweredHere(wayRequest.q) = {}
  /\ wayStage = "reply" => OfServer(wayReply) \/ Rightful(wayRequest.q, wayReply)
  /\ wayStage = "idle" =>
       \/ wayReply = Way!Nobody
       \/ OfServer(wayReply)
       \/ /\ wayRequest.q \in WayQuestions
          /\ \E m : /\ Rightful(wayRequest.q, m)
                    /\ wayReply = Way!ForClient(wayRequest, Way!Inspect(m))

(* The zones that build_zones accepts have the names of their tables. *)
LEMMA ZonesAreBuilt == Way!Init => ZonesFit
<1> SUFFICES ASSUME Way!Init, NEW z \in wayZones, NEW n \in DOMAIN z.entries
             PROVE  z.zone \in Seq(STRING) /\ Way!Within(n, z.zone)
  <2>1. ASSUME Way!Init, NEW z \in wayZones PROVE z.zone \in Seq(STRING)
    <3>1. PICK i \in DOMAIN wayConfig.local :
            z = [zone |-> wayConfig.local[i].zone, closed |-> wayConfig.local[i].closed,
                 entries |-> Way!Table(wayConfig.local[i])]
      BY <2>1 DEF Way!Init, Way!BuildZones
    <3>2. wayConfig \in WayConfigs
      BY <2>1 DEF Way!Init
    <3>3. QED
      BY <3>1, <3>2, NamesAssumption
  <2>2. QED
    BY <2>1 DEF ZonesFit
<1>1. PICK i \in DOMAIN wayConfig.local :
        z = [zone |-> wayConfig.local[i].zone, closed |-> wayConfig.local[i].closed,
             entries |-> Way!Table(wayConfig.local[i])]
  BY DEF Way!Init, Way!BuildZones
<1> DEFINE c == wayConfig.local[i]
<1>2. wayConfig \in WayConfigs /\ ~Way!ZonesAreWrong(wayConfig.local)
  BY DEF Way!Init, Way!Accepted
<1>3. ~Way!ZoneIsWrong(c)
  BY <1>2 DEF Way!ZonesAreWrong
<1> HIDE DEF c
<1>4. z.zone = c.zone /\ z.entries = Way!Table(c)
  BY <1>1 DEF c
<1>5. PICK k \in DOMAIN c.records : n = Way!Qualify(c.records[k].name, c.zone)
  BY <1>4 DEF Way!Table
<1>6. Way!Within(n, c.zone)
  BY <1>3, <1>5 DEF Way!ZoneIsWrong
<1>7. QED
  BY <1>1, <1>2, <1>4, <1>6, NamesAssumption DEF c

(* What is not answered from the tables has no entry in any, and no closed *)
(* zone is the deepest one around it, unless it is to be forwarded.        *)
LEMMA NotAnsweredHere ==
  ASSUME NEW q, q.class = "IN", AnsweredHere(q) = {}, ~Forwarded(q.name)
  PROVE  /\ Way!EntryIn(wayZones, q.name) = {}
         /\ \A z \in Way!LocalZoneOf(wayZones, q.name) : ~z.closed
<1>1. ~Way!Overruled(wayZones, DOMAIN wayConfig.forward, q.name)
  BY DEF Forwarded, Way!Overruled, Way!Retained
<1>2. \A code, records : Way!Answered(code, records) # {}
  BY DEF Way!Answered
<1>3. QED
  BY <1>1, <1>2 DEF AnsweredHere, Way!LocalAnswer

LEMMA AnsweredFromTable ==
  ASSUME NEW q, NEW answer \in AnsweredHere(q), Way!EntryIn(wayZones, q.name) = {}
  PROVE  answer.records = {}
<1>1. \A code : \A a \in Way!Answered(code, {}) : a.records = {}
  BY DEF Way!Answered
<1>2. \/ answer \in Way!Answered("NoError", {}) \/ answer \in Way!Answered("NXDomain", {})
  BY DEF AnsweredHere, Way!LocalAnswer
<1>3. QED
  BY <1>1, <1>2

LEMMA ReturnStaysHome ==
  ASSUME HomeInv, NEW m, Rightful(wayRequest.q, m), Way!Return(m), wayStage # "idle",
         UNCHANGED <<wayZones, wayConfig, wayRequest>>
  PROVE  HomeInv'
<1>1. wayCache' = wayCache \/ wayCache' = Way!Kept(wayRequest.q, m)
  BY DEF Way!Return
<1>2. \A q, x : Rightful(q, x) <=> Rightful(q, x)'
  BY DEF Rightful, Forwarded, AnsweredHere
<1>3. \A q \in DOMAIN wayCache' : q \in WayQuestions /\ Rightful(q, wayCache'[q])
  BY <1>1 DEF HomeInv, Way!Kept
<1>4. wayReply' = m /\ wayStage' = "reply"
  BY DEF Way!Return
<1>5. ZonesFit'
  BY DEF HomeInv, ZonesFit
<1>6. QED
  BY <1>2, <1>3, <1>4, <1>5 DEF HomeInv

LEMMA FailingStaysHome ==
  ASSUME HomeInv, NEW code, Way!Failing(code), wayStage # "idle",
         UNCHANGED <<wayZones, wayConfig, wayRequest>>
  PROVE  HomeInv'
<1>1. OfServer(Way!ErrorResponse(code))
  BY DEF OfServer, Way!ErrorResponse, Way!Message
<1>2. \A q, x : Rightful(q, x) <=> Rightful(q, x)'
  BY DEF Rightful, Forwarded, AnsweredHere
<1>3. wayReply' = Way!ErrorResponse(code) /\ wayStage' = "reply" /\ wayCache' = wayCache
  BY DEF Way!Failing
<1>4. OfServer(wayReply)'
  BY <1>1, <1>3 DEF OfServer
<1>5. QED
  BY <1>2, <1>3, <1>4 DEF HomeInv, ZonesFit

LEMMA UpstreamIsOfPool ==
  ASSUME NEW outcome \in WayOutcomes, NEW result,
         \/ result = Way!SendChecked(outcome, wayConfig.validate)
         \/ result = Way!ObliviousChecked(outcome, wayConfig.validate),
         Way!Possible(outcome), ~Way!IsError(result)
  PROVE  /\ "from" \in DOMAIN result /\ "blocked" \in DOMAIN result
         /\ "addresses" \in DOMAIN result
         /\ result.from = "pool" /\ result.blocked = FALSE
<1>1. CASE wayConfig.validate
  <2>1. Judgement(result) /\ result.from = "pool"
    BY <1>1, UpstreamJudged
  <2>2. QED
    BY <2>1 DEF Judgement
<1>2. CASE ~wayConfig.validate
  <2>1. outcome.kind \in {"answer", "error", "end"}
    BY <1>2, WayAssumption DEF Way!Possible
  <2>2. \A why : Way!IsError(Way!Failed(why))
    BY DEF Way!IsError, Way!Failed
  <2>3. outcome.kind = "answer" /\ result = outcome.message
    BY <1>2, <2>1, <2>2 DEF Way!SendChecked, Way!ObliviousChecked
  <2>4. QED
    BY <2>3, WayAssumption
<1>3. QED
  BY <1>1, <1>2

LEMMA HomeStep ==
  ASSUME HomeInv, [Way!Next]_wayVars
  PROVE  HomeInv'
<1>1. ASSUME UNCHANGED <<wayZones, wayConfig>>
      PROVE  /\ \A q, x : Rightful(q, x) <=> Rightful(q, x)'
             /\ ZonesFit' /\ wayConfig' \in WayConfigs
  BY <1>1 DEF Rightful, Forwarded, AnsweredHere, HomeInv, ZonesFit
<1>2. CASE Way!RefusePacket
  <2>1. \A packet \in Way!Refused :
          Way!ErrorTo(packet) \in {Way!Nobody, Way!ErrorResponse("FormErr"), Way!ErrorResponse("NotImp")}
    BY DEF Way!Refused, Way!ErrorTo
  <2>2. \A code : OfServer(Way!ErrorResponse(code))
    BY DEF OfServer, Way!ErrorResponse, Way!Message
  <2>3. wayReply' = Way!Nobody \/ OfServer(wayReply')
    BY <1>2, <2>1, <2>2 DEF Way!RefusePacket
  <2>4. wayReply' = Way!Nobody \/ OfServer(wayReply)'
    BY <2>3 DEF OfServer
  <2>5. UNCHANGED <<wayZones, wayConfig, wayCache, wayStage>> /\ wayStage = "idle"
    BY <1>2 DEF Way!RefusePacket, Way!settings
  <2>6. QED
    BY <1>1, <2>4, <2>5 DEF HomeInv, Way!Nobody
<1>3. ASSUME NEW q \in WayQuestions, NEW flags \in WayFlags, Way!Receive(q, flags)
      PROVE  HomeInv'
  <2>1. /\ UNCHANGED <<wayZones, wayConfig, wayCache>> /\ wayStage' = "cache"
        /\ wayRequest'.q \in WayQuestions
    BY <1>3 DEF Way!Receive, Way!settings
  <2>2. QED
    BY <1>1, <2>1 DEF HomeInv
<1>4. CASE Way!FromCache
  <2>1. /\ UNCHANGED <<wayZones, wayConfig, wayCache, wayRequest>>
        /\ wayStage' = "reply" /\ wayStage = "cache"
        /\ wayRequest.q \in DOMAIN wayCache /\ wayReply' = wayCache[wayRequest.q]
    BY <1>4 DEF Way!FromCache, Way!settings
  <2>2. Rightful(wayRequest.q, wayReply')
    BY <2>1 DEF HomeInv
  <2>3. Rightful(wayRequest.q, wayReply)'
    BY <1>1, <2>1, <2>2
  <2>4. QED
    BY <1>1, <2>1, <2>3 DEF HomeInv
<1>5. CASE Way!NotInCache
  <2>1. /\ UNCHANGED <<wayZones, wayConfig, wayCache, wayRequest>>
        /\ wayStage' = "local" /\ wayStage = "cache"
    BY <1>5 DEF Way!NotInCache, Way!settings
  <2>2. QED
    BY <1>1, <2>1 DEF HomeInv
<1>6. CASE Way!AnswerLocally
  <2>1. PICK answer \in Way!LocalAnswers :
          Way!Return([Way!Message(answer.code, "local") EXCEPT
                        !.addresses = Way!LocalAddresses(answer.records)])
    BY <1>6 DEF Way!AnswerLocally
  <2> DEFINE m == [Way!Message(answer.code, "local") EXCEPT
                     !.addresses = Way!LocalAddresses(answer.records)]
  <2>2. UNCHANGED <<wayZones, wayConfig, wayRequest>> /\ wayStage = "local"
    BY <1>6 DEF Way!AnswerLocally, Way!settings
  <2>3. answer \in AnsweredHere(wayRequest.q)
    BY DEF Way!LocalAnswers, AnsweredHere
  <2>4. answer.records = {} => Way!LocalAddresses(answer.records) = {}
    BY DEF Way!LocalAddresses
  <2>5. Way!LocalAddresses(answer.records) # {} => Way!EntryIn(wayZones, wayRequest.q.name) # {}
    BY <2>3, <2>4, AnsweredFromTable
  <2>6. /\ "from" \in DOMAIN m /\ "blocked" \in DOMAIN m /\ "addresses" \in DOMAIN m
        /\ m.from = "local" /\ m.blocked = FALSE
        /\ m.addresses = Way!LocalAddresses(answer.records)
    BY DEF Way!Message
  <2> HIDE DEF m
  <2>7. Rightful(wayRequest.q, m)
    BY <2>5, <2>6 DEF Rightful
  <2>8. Way!Return(m)
    BY <2>1 DEF m
  <2>9. QED
    BY <2>2, <2>7, <2>8, ReturnStaysHome
<1>7. CASE Way!PassOn
  <2> DEFINE f == DOMAIN wayConfig.forward
  <2> DEFINE name == wayRequest.q.name
  <2>1. /\ UNCHANGED <<wayZones, wayConfig, wayCache, wayRequest>>
        /\ wayStage = "local" /\ AnsweredHere(wayRequest.q) = {}
        /\ \/ Way!Route(f, name) = {} /\ wayStage' = "pool"
           \/ Way!Route(f, name) # {} /\ wayStage' = "zone"
    BY <1>7 DEF Way!PassOn, Way!settings, Way!LocalAnswers, AnsweredHere
  <2>2. name \in Seq(STRING) /\ f \subseteq Seq(STRING)
    BY <2>1, NamesAssumption DEF HomeInv
  <2> HIDE DEF f, name
  <2>3. Way!Route(f, name) = {} <=> \A z \in f : ~Way!Within(name, z)
    BY <2>2, SomeIsDeepest DEF Way!Route
  <2>4. Way!Route(f, name) = {} <=> ~Forwarded(wayRequest.q.name)
    BY <2>3 DEF Forwarded, f, name
  <2>5. (Forwarded(wayRequest.q.name) <=> Forwarded(wayRequest.q.name)')
        /\ AnsweredHere(wayRequest.q) = AnsweredHere(wayRequest.q)'
    BY <2>1 DEF Forwarded, AnsweredHere
  <2>6. QED
    BY <1>1, <2>1, <2>4, <2>5 DEF HomeInv
<1>8. ASSUME NEW ok \in BOOLEAN, NEW bits \in [ad : BOOLEAN, sigs : BOOLEAN],
             Way!AskServer(ok, bits)
      PROVE  HomeInv'
  <2> DEFINE m(addresses) == [Way!Message("NoError", "zone") EXCEPT
                                !.ad = bits.ad, !.sigs = bits.sigs /\ wayRequest.do,
                                !.addresses = addresses]
  <2>1. UNCHANGED <<wayZones, wayConfig, wayRequest>> /\ wayStage = "zone"
    BY <1>8 DEF Way!AskServer, Way!settings
  <2>2. \A addresses : Rightful(wayRequest.q, m(addresses))
    <3>1. \A addresses :
            /\ "from" \in DOMAIN m(addresses) /\ "blocked" \in DOMAIN m(addresses)
            /\ "addresses" \in DOMAIN m(addresses)
            /\ m(addresses).from = "zone" /\ m(addresses).blocked = FALSE
      BY DEF Way!Message
    <3>2. Forwarded(wayRequest.q.name)
      BY <2>1 DEF HomeInv
    <3> HIDE DEF m
    <3>3. QED
      BY <3>1, <3>2 DEF Rightful
  <2>3. CASE ok
    <3>1. PICK addresses : Way!Return(m(addresses))
      BY <1>8, <2>3 DEF Way!AskServer
    <3> HIDE DEF m
    <3>2. QED
      BY <2>1, <2>2, <3>1, ReturnStaysHome
  <2>4. CASE ~ok
    <3>1. \/ Way!Failing("ServFail")
          \/ UNCHANGED <<wayStage, wayReply, wayCache>>
      BY <1>8, <2>4 DEF Way!AskServer
    <3>2. CASE UNCHANGED <<wayStage, wayReply, wayCache>>
      <4>1. Forwarded(wayRequest.q.name) <=> Forwarded(wayRequest.q.name)'
        BY <2>1 DEF Forwarded
      <4>2. QED
        BY <1>1, <2>1, <3>2, <4>1 DEF HomeInv
    <3>3. QED
      BY <2>1, <3>1, <3>2, FailingStaysHome
  <2>5. QED
    BY <2>3, <2>4
<1>9. ASSUME NEW u \in WayDirect \cup WayOblivious, NEW outcome \in WayOutcomes,
             Way!AskUpstream(u, outcome)
      PROVE  HomeInv'
  <2> DEFINE result == IF u \in WayDirect THEN Way!SendChecked(outcome, wayConfig.validate)
                       ELSE Way!ObliviousChecked(outcome, wayConfig.validate)
  <2>1. UNCHANGED <<wayZones, wayConfig, wayRequest>> /\ wayStage = "pool" /\ Way!Possible(outcome)
    BY <1>9 DEF Way!AskUpstream, Way!settings
  <2>2. \/ ~Way!IsError(result) /\ Way!Return(result)
        \/ Way!Failing("ServFail")
        \/ UNCHANGED <<wayStage, wayReply, wayCache>>
    BY <1>9 DEF Way!AskUpstream
  <2>3. \/ result = Way!SendChecked(outcome, wayConfig.validate)
        \/ result = Way!ObliviousChecked(outcome, wayConfig.validate)
    OBVIOUS
  <2> HIDE DEF result
  <2>4. CASE ~Way!IsError(result) /\ Way!Return(result)
    <3>1. /\ "from" \in DOMAIN result /\ "blocked" \in DOMAIN result
          /\ "addresses" \in DOMAIN result
          /\ result.from = "pool" /\ result.blocked = FALSE
      BY <2>1, <2>3, <2>4, UpstreamIsOfPool
    <3>2. Rightful(wayRequest.q, result)
      BY <2>1, <3>1 DEF HomeInv, Rightful
    <3>3. QED
      BY <2>1, <2>4, <3>2, ReturnStaysHome
  <2>5. CASE UNCHANGED <<wayStage, wayReply, wayCache>>
    <3>1. (Forwarded(wayRequest.q.name) <=> Forwarded(wayRequest.q.name)')
          /\ AnsweredHere(wayRequest.q) = AnsweredHere(wayRequest.q)'
      BY <2>1 DEF Forwarded, AnsweredHere
    <3>2. QED
      BY <1>1, <2>1, <2>5, <3>1 DEF HomeInv
  <2>6. QED
    BY <2>1, <2>2, <2>4, <2>5, FailingStaysHome
<1>10. CASE Way!Reply
  <2>1. /\ UNCHANGED <<wayZones, wayConfig, wayCache, wayRequest>>
        /\ wayStage = "reply" /\ wayStage' = "idle"
        /\ wayReply' = IF wayReply.from = "server" THEN wayReply
                       ELSE Way!ForClient(wayRequest, Way!Inspect(wayReply))
    BY <1>10 DEF Way!Reply, Way!settings
  <2>2. OfServer(wayReply) \/ Rightful(wayRequest.q, wayReply)
    BY <2>1 DEF HomeInv
  <2>3. CASE OfServer(wayReply)
    <3>1. OfServer(wayReply)'
      BY <2>1, <2>3 DEF OfServer
    <3>2. QED
      BY <1>1, <2>1, <3>1 DEF HomeInv
  <2>4. CASE Rightful(wayRequest.q, wayReply)
    <3>1. wayReply' = Way!ForClient(wayRequest, Way!Inspect(wayReply))
      BY <2>1, <2>4 DEF Rightful
    <3>2. \A m : (wayReply = Way!ForClient(wayRequest, Way!Inspect(m)))'
                  <=> wayReply' = Way!ForClient(wayRequest, Way!Inspect(m))
      BY <2>1 DEF Way!Inspect, Way!RebindingAllowZones
    <3>3. (\E m : /\ Rightful(wayRequest.q, m)
                  /\ wayReply = Way!ForClient(wayRequest, Way!Inspect(m)))'
      BY <1>1, <2>1, <2>4, <3>1, <3>2
    <3>4. QED
      BY <1>1, <2>1, <3>3 DEF HomeInv
  <2>5. QED
    BY <2>2, <2>3, <2>4
<1>11. ASSUME Way!Expire \/ UNCHANGED wayVars PROVE HomeInv'
  <2>1. /\ UNCHANGED <<wayZones, wayConfig, wayStage, wayRequest, wayReply>>
        /\ \A q \in DOMAIN wayCache' : q \in DOMAIN wayCache /\ wayCache'[q] = wayCache[q]
    BY <1>11 DEF Way!Expire, wayVars, Way!settings
  <2>2. \A m : (wayReply = Way!ForClient(wayRequest, Way!Inspect(m)))'
                <=> wayReply = Way!ForClient(wayRequest, Way!Inspect(m))
    BY <2>1 DEF Way!Inspect, Way!RebindingAllowZones
  <2>3. (Forwarded(wayRequest.q.name) <=> Forwarded(wayRequest.q.name)')
        /\ AnsweredHere(wayRequest.q) = AnsweredHere(wayRequest.q)'
        /\ (OfServer(wayReply) <=> OfServer(wayReply)')
    BY <2>1 DEF Forwarded, AnsweredHere, OfServer
  <2>4. QED
    BY <1>1, <2>1, <2>2, <2>3 DEF HomeInv
<1>12. QED
  BY <1>2, <1>3, <1>4, <1>5, <1>6, <1>7, <1>8, <1>9, <1>10, <1>11 DEF Way!Next

(* The guard blocks nothing of the household's own. *)
LEMMA OwnIsExempt ==
  ASSUME HomeInv, NEW q \in WayQuestions, NEW m, Rightful(q, m), m.from # "pool",
         q = wayRequest.q
  PROVE  Way!RebindingScores(Way!RebindingAllowZones, wayRequest.q.name, m) = {}
<1> DEFINE allowed == Way!RebindingAllowZones
<1> SUFFICES ASSUME m.addresses # {}
             PROVE  \E z \in allowed : Way!Within(q.name, z)
  BY DEF Way!RebindingScores, Way!AddressesOf
<1>1. CASE m.from = "zone"
  <2>1. PICK f \in DOMAIN wayConfig.forward : Way!Within(q.name, f)
    BY <1>1 DEF Rightful, Forwarded
  <2>2. QED
    BY <2>1 DEF Way!RebindingAllowZones
<1>2. CASE m.from = "local"
  <2>1. PICK z \in wayZones : q.name \in DOMAIN z.entries
    BY <1>2 DEF Rightful, Way!EntryIn
  <2>2. Way!Within(q.name, z.zone) /\ Way!Within(q.name, q.name)
    BY <2>1, NamesAssumption, WithinItself DEF HomeInv, ZonesFit
  <2>3. \E e \in Way!RebindingExempt(z) : Way!Within(q.name, e)
    BY <2>1, <2>2 DEF Way!RebindingExempt
  <2>4. QED
    BY <2>3 DEF Way!RebindingAllowZones
<1>3. QED
  BY <1>1, <1>2 DEF Rightful

(* What the guard lets pass of the pool's under one of its zones. *)
LEMMA PassedBy ==
  ASSUME HomeInv, NEW q \in WayQuestions, q = wayRequest.q, q.class = "IN",
         ~Forwarded(q.name), AnsweredHere(q) = {},
         NEW e \in Way!RebindingAllowZones, Way!Within(q.name, e)
  PROVE  \/ Way!Deepest(q.name, wayConfig.allowZones) # {}
         \/ \E z \in wayZones :
              ~z.closed /\ \E n \in DOMAIN z.entries : Way!Within(q.name, n) /\ n # q.name
         \/ \E z, y \in wayZones : /\ z.closed /\ ~y.closed /\ Way!Within(y.zone, z.zone)
                                   /\ Way!Within(q.name, y.zone)
<1>1. q.name \in Seq(STRING) /\ wayConfig.allowZones \subseteq Seq(STRING)
  BY NamesAssumption DEF HomeInv
<1>2. /\ Way!EntryIn(wayZones, q.name) = {}
      /\ \A z \in Way!LocalZoneOf(wayZones, q.name) : ~z.closed
  BY NotAnsweredHere
<1>3. CASE e \in wayConfig.allowZones
  BY <1>1, <1>3, SomeIsDeepest
<1>4. CASE e \in DOMAIN wayConfig.forward
  BY <1>4 DEF Forwarded
<1>5. ASSUME NEW z \in wayZones, e \in Way!RebindingExempt(z), ~z.closed
      PROVE  \E n \in DOMAIN z.entries : Way!Within(q.name, n) /\ n # q.name
  <2>1. e \in DOMAIN z.entries
    BY <1>5 DEF Way!RebindingExempt
  <2>2. e # q.name
    BY <1>2, <2>1 DEF Way!EntryIn
  <2>3. QED
    BY <2>1, <2>2
<1>6. ASSUME NEW z \in wayZones, e \in Way!RebindingExempt(z), z.closed
      PROVE  \E y \in wayZones :
               ~y.closed /\ Way!Within(y.zone, z.zone) /\ Way!Within(q.name, y.zone)
  <2>1. e = z.zone
    BY <1>6 DEF Way!RebindingExempt
  <2> DEFINE apexes == Way!Apexes(wayZones)
  <2>2. apexes \subseteq Seq(STRING) /\ z.zone \in apexes
    BY DEF Way!Apexes, HomeInv, ZonesFit
  <2>3. Way!Deepest(q.name, apexes) # {}
    BY <1>1, <2>1, <2>2, SomeIsDeepest
  <2>4. PICK a \in Way!Deepest(q.name, apexes) : TRUE
    BY <2>3
  <2>5. /\ a \in apexes /\ Way!Within(q.name, a)
        /\ \A b \in apexes : Way!Within(q.name, b) => Len(b) <= Len(a)
    BY <2>4 DEF Way!Deepest
  <2>6. PICK y \in wayZones : y.zone = a
    BY <2>5 DEF Way!Apexes
  <2>7. y \in Way!LocalZoneOf(wayZones, q.name)
    BY <2>4, <2>6 DEF Way!LocalZoneOf
  <2>8. Way!Within(a, z.zone)
    BY <1>1, <2>1, <2>2, <2>5, WithinEachOther
  <2>9. QED
    BY <1>2, <2>5, <2>6, <2>7, <2>8
<1>7. QED
  BY <1>3, <1>4, <1>5, <1>6 DEF Way!RebindingAllowZones

(* policy/mod.rs:804, config.rs:1614: for any household and any names, the *)
(* guard takes nothing of the household's own away, and of the pool's it   *)
(* lets a private address pass only under the zones that are named.        *)
THEOREM GuardHolds == Way!Spec => []PrivateOnlyAtHome
<1>1. Way!Init => HomeInv
  <2>1. Way!Init => ZonesFit
    BY ZonesAreBuilt
  <2>2. QED
    BY <2>1 DEF Way!Init, HomeInv, Way!Nobody
<1>2. HomeInv => PrivateOnlyAtHome
  <2> SUFFICES ASSUME HomeInv PROVE Way!PrivateOnlyAtHome
    BY DEF PrivateOnlyAtHome
  <2> DEFINE q == wayRequest.q
  <2>1. ASSUME wayStage = "idle", wayReply # Way!Nobody, ~OfServer(wayReply)
        PROVE  q \in WayQuestions
               /\ \E m : /\ Rightful(q, m)
                         /\ wayReply = Way!ForClient(wayRequest, Way!Inspect(m))
    BY <2>1 DEF HomeInv
  <2>2. ASSUME NEW m, Rightful(q, m), wayReply = Way!ForClient(wayRequest, Way!Inspect(m)),
               Way!Inspect(m) = m
        PROVE  wayReply.blocked = FALSE /\ wayReply.from = m.from
               /\ wayReply.addresses = m.addresses
    BY <2>2 DEF Rightful, Way!ForClient
  <2>3. ASSUME NEW m, Rightful(q, m), wayReply = Way!ForClient(wayRequest, Way!Inspect(m)),
               Way!Inspect(m) # m
        PROVE  /\ wayReply.blocked = TRUE /\ wayReply.from = m.from
               /\ Way!RebindingScores(Way!RebindingAllowZones, wayRequest.q.name, m) # {}
    <3> DEFINE s == Way!Synthesize(wayConfig.mode, wayRequest.q, m.from)
    <3>1. Way!Inspect(m) = s
          /\ Way!RebindingScores(Way!RebindingAllowZones, wayRequest.q.name, m) # {}
      BY <2>3 DEF Way!Inspect
    <3>2. /\ DOMAIN s = {"code", "proofs", "sigs", "ad", "from", "verdict",
                         "addresses", "blocked"}
          /\ s.blocked = TRUE /\ s.from = m.from
      BY Synthesized
    <3> HIDE DEF s
    <3>3. wayReply = Way!ForClient(wayRequest, s)
      BY <2>3, <3>1
    <3>4. QED
      BY <3>1, <3>2, <3>3 DEF Way!ForClient
  <2>4. ASSUME wayStage = "idle", wayReply # Way!Nobody, wayReply.blocked
        PROVE  wayReply.from = "pool"
    <3>1. ~OfServer(wayReply)
      BY <2>4 DEF OfServer
    <3>2. q \in WayQuestions
      BY <2>1, <2>4, <3>1
    <3>3. PICK m : Rightful(q, m) /\ wayReply = Way!ForClient(wayRequest, Way!Inspect(m))
      BY <2>1, <2>4, <3>1
    <3>4. /\ wayReply.from = m.from
          /\ Way!RebindingScores(Way!RebindingAllowZones, wayRequest.q.name, m) # {}
      BY <2>2, <2>3, <2>4, <3>3
    <3>5. QED
      BY <3>2, <3>3, <3>4, OwnIsExempt
  <2>5. ASSUME Way!Shown, wayConfig.rebinding = "block", q.class = "IN",
               NEW a \in wayReply.addresses, Way!IsPrivate(a)
        PROVE  \/ Way!Deepest(q.name, wayConfig.allowZones) # {}
               \/ \E z \in wayZones :
                    ~z.closed /\ \E n \in DOMAIN z.entries : Way!Within(q.name, n) /\ n # q.name
               \/ \E z, y \in wayZones : /\ z.closed /\ ~y.closed /\ Way!Within(y.zone, z.zone)
                                         /\ Way!Within(q.name, y.zone)
    <3>1. wayStage = "idle" /\ wayReply # Way!Nobody /\ ~OfServer(wayReply)
          /\ wayReply.from = "pool" /\ ~wayReply.blocked
      BY <2>5 DEF Way!Shown, OfServer
    <3>2. q \in WayQuestions
      BY <2>1, <3>1
    <3>3. PICK m : Rightful(q, m) /\ wayReply = Way!ForClient(wayRequest, Way!Inspect(m))
      BY <2>1, <3>1
    <3>4. Way!Inspect(m) = m
      BY <2>3, <3>1, <3>3
    <3>5. m.from = "pool" /\ a \in m.addresses
      BY <2>2, <2>5, <3>1, <3>3, <3>4
    <3>6. Way!RebindingScores(Way!RebindingAllowZones, q.name, m) = {}
      <4>1. \A mode, r, s : Way!Synthesize(mode, r, s) # m
        BY <3>3, Synthesized DEF Rightful
      <4>2. QED
        BY <2>5, <3>4, <4>1 DEF Way!Inspect
    <3>7. PICK e \in Way!RebindingAllowZones : Way!Within(q.name, e)
      BY <2>5, <3>5, <3>6 DEF Way!RebindingScores, Way!AddressesOf
    <3>8. ~Forwarded(q.name) /\ AnsweredHere(q) = {}
      BY <3>3, <3>5 DEF Rightful
    <3>9. QED
      BY <2>5, <3>2, <3>7, <3>8, PassedBy
  <2>6. QED
    BY <2>4, <2>5 DEF Way!PrivateOnlyAtHome
<1>3. HomeInv /\ [Way!Next]_(Way!vars) => HomeInv'
  BY HomeStep DEF Way!vars, wayVars
<1>4. QED
  BY <1>1, <1>2, <1>3, PTL DEF Way!Spec

-----------------------------------------------------------------------------
(***************************************************************************)
(* Where a question has gone.                                              *)
(***************************************************************************)
SentInv ==
  /\ wayStage \in {"cache", "local"} => waySent = {}
  /\ wayStage \in {"zone", "pool"} => AnsweredHere(wayRequest.q) = {}
  /\ waySent # {} => wayRequest.q \in WayQuestions
  /\ \A to \in waySent :
       /\ AnsweredHere(wayRequest.q) = {}
       /\ \/ Forwarded(wayRequest.q.name) /\ to = Way!Route(DOMAIN wayConfig.forward, wayRequest.q.name)
          \/ ~Forwarded(wayRequest.q.name) /\ to = {Way!ThePool}

(* The zones that are accepted: one of a name, here or in the router. *)
ZonesApart ==
  /\ \A z \in wayZones : z.closed \in BOOLEAN /\ z.zone \notin DOMAIN wayConfig.forward
  /\ \A y, z \in wayZones : y.zone = z.zone => y = z

StayInv == HomeInv /\ SentInv /\ ZonesApart

LEMMA ZonesAreApart == Way!Init => ZonesApart
<1> SUFFICES ASSUME Way!Init PROVE ZonesApart
  OBVIOUS
<1> DEFINE Built(i) ==
      [zone |-> wayConfig.local[i].zone, closed |-> wayConfig.local[i].closed,
       entries |-> Way!Table(wayConfig.local[i])]
<1>1. /\ wayConfig \in WayConfigs
      /\ \A i, j \in DOMAIN wayConfig.local :
           i # j => wayConfig.local[i].zone # wayConfig.local[j].zone
      /\ \A i \in DOMAIN wayConfig.local : wayConfig.local[i].zone \notin DOMAIN wayConfig.forward
  BY DEF Way!Init, Way!Accepted, Way!ZonesAreWrong
<1>2. /\ \A z \in wayZones : \E i \in DOMAIN wayConfig.local : z = Built(i)
      /\ \A i \in DOMAIN wayConfig.local :
           Built(i).zone = wayConfig.local[i].zone /\ Built(i).closed = wayConfig.local[i].closed
  BY DEF Way!Init, Way!BuildZones
<1> HIDE DEF Built
<1>3. \A z \in wayZones : z.closed \in BOOLEAN /\ z.zone \notin DOMAIN wayConfig.forward
  BY <1>1, <1>2, NamesAssumption
<1>4. ASSUME NEW y \in wayZones, NEW z \in wayZones, y.zone = z.zone
      PROVE  y = z
  <2>1. PICK i \in DOMAIN wayConfig.local : y = Built(i)
    BY <1>2
  <2>2. PICK j \in DOMAIN wayConfig.local : z = Built(j)
    BY <1>2
  <2>3. i = j
    BY <1>1, <1>2, <1>4, <2>1, <2>2
  <2>4. QED
    BY <2>1, <2>2, <2>3
<1>5. QED
  BY <1>3, <1>4 DEF ZonesApart

LEMMA SentStep ==
  ASSUME HomeInv, SentInv, [Way!Next]_wayVars
  PROVE  SentInv'
<1> USE DEF Way!settings
<1> DEFINE forward == DOMAIN wayConfig.forward
<1>1. CASE UNCHANGED <<wayZones, wayConfig, wayRequest, waySent>>
           /\ wayStage' \in {wayStage, "idle", "reply"}
  <2>1. (\A q : AnsweredHere(q) = {} <=> (AnsweredHere(q) = {})')
        /\ (\A n : Forwarded(n) <=> Forwarded(n)')
    BY <1>1 DEF AnsweredHere, Forwarded
  <2>2. QED
    BY <1>1, <2>1 DEF SentInv
<1>2. ASSUME NEW q \in WayQuestions, NEW flags \in WayFlags, Way!Receive(q, flags)
      PROVE  SentInv'
  BY <1>2 DEF Way!Receive, SentInv
<1>3. CASE Way!NotInCache
  BY <1>3 DEF Way!NotInCache, SentInv
<1>4. CASE Way!PassOn
  <2>1. /\ waySent' = {} /\ (AnsweredHere(wayRequest.q) = {})'
        /\ wayStage' \in {"pool", "zone"}
    BY <1>4 DEF Way!PassOn, SentInv, AnsweredHere, Way!LocalAnswers
  <2>2. QED
    BY <2>1 DEF SentInv
<1>5. ASSUME UNCHANGED <<wayZones, wayConfig, wayRequest>>, wayStage \in {"zone", "pool"},
             wayStage' \in {wayStage, "reply"}, NEW to, waySent' = waySent \cup {to},
             \/ wayStage = "zone" /\ to = Way!Route(forward, wayRequest.q.name)
             \/ wayStage = "pool" /\ to = {Way!ThePool}
      PROVE  SentInv'
  <2>1. (\A q : AnsweredHere(q) = {} <=> (AnsweredHere(q) = {})')
        /\ (\A n : Forwarded(n) <=> Forwarded(n)')
    BY <1>5 DEF AnsweredHere, Forwarded
  <2>2. wayRequest.q \in WayQuestions /\ AnsweredHere(wayRequest.q) = {}
        /\ (wayStage = "zone" => Forwarded(wayRequest.q.name))
        /\ (wayStage = "pool" => ~Forwarded(wayRequest.q.name))
    BY <1>5 DEF HomeInv, SentInv
  <2>3. QED
    BY <1>5, <2>1, <2>2 DEF SentInv
<1>6. ASSUME NEW ok \in BOOLEAN, NEW bits \in [ad : BOOLEAN, sigs : BOOLEAN],
             Way!AskServer(ok, bits)
      PROVE  SentInv'
  BY <1>5, <1>6 DEF Way!AskServer, Way!Return, Way!Failing
<1>7. ASSUME NEW u \in WayDirect \cup WayOblivious, NEW outcome \in WayOutcomes,
             Way!AskUpstream(u, outcome)
      PROVE  SentInv'
  <2>1. /\ UNCHANGED <<wayZones, wayConfig, wayRequest>> /\ wayStage = "pool"
        /\ waySent' = waySent \cup {{Way!ThePool}}
    BY <1>7 DEF Way!AskUpstream
  <2>2. wayStage' \in {wayStage, "reply"}
    BY <1>7 DEF Way!AskUpstream, Way!Return, Way!Failing
  <2>3. QED
    BY <1>5, <2>1, <2>2
<1>8. CASE Way!RefusePacket \/ Way!FromCache \/ Way!AnswerLocally \/ Way!Reply \/ Way!Expire
           \/ UNCHANGED wayVars
  BY <1>1, <1>8 DEF Way!RefusePacket, Way!FromCache, Way!AnswerLocally, Way!Return, Way!Reply,
                    Way!Expire, wayVars
<1>9. QED
  BY <1>2, <1>3, <1>4, <1>6, <1>7, <1>8 DEF Way!Next

(* What a zone that is the deepest one of some tells. *)
LEMMA DeepestIs ==
  \A name, zones, d :
    d \in Way!Deepest(name, zones) <=>
      /\ d \in zones /\ Way!Within(name, d)
      /\ \A z \in zones : Way!Within(name, z) => Len(z) <= Len(d)
BY DEF Way!Deepest

(* Of the local zones around a name, if there are any, one is the deepest. *)
LEMMA LocalZones ==
  ASSUME ZonesFit, NEW name \in Seq(STRING)
  PROVE  /\ Way!Apexes(wayZones) \subseteq Seq(STRING)
         /\ Way!LocalZoneOf(wayZones, name) = {} <=> \A z \in wayZones : ~Way!Within(name, z.zone)
         /\ Way!LocalZoneOf(wayZones, name) = {} <=> Way!Deepest(name, Way!Apexes(wayZones)) = {}
         /\ \A y : y \in Way!LocalZoneOf(wayZones, name) <=>
              /\ y \in wayZones /\ Way!Within(name, y.zone)
              /\ \A z \in wayZones : Way!Within(name, z.zone) => Len(z.zone) <= Len(y.zone)
<1> DEFINE apexes == Way!Apexes(wayZones)
<1>1. /\ apexes \subseteq Seq(STRING) /\ \A z \in wayZones : z.zone \in apexes
      /\ \A a \in apexes : \E z \in wayZones : a = z.zone
  BY DEF Way!Apexes, ZonesFit
<1>2. \A y : y \in Way!LocalZoneOf(wayZones, name) <=>
               y \in wayZones /\ y.zone \in Way!Deepest(name, apexes)
  BY DEF Way!LocalZoneOf
<1>3. \A d \in Way!Deepest(name, apexes) : d \in apexes
  BY DeepestIs
<1> HIDE DEF apexes
<1>4. Way!LocalZoneOf(wayZones, name) = {} <=> Way!Deepest(name, apexes) = {}
  BY <1>1, <1>2, <1>3
<1>5. Way!Deepest(name, apexes) = {} <=> \A z \in apexes : ~Way!Within(name, z)
  BY <1>1, SomeIsDeepest
<1>6. \A y : y \in Way!LocalZoneOf(wayZones, name) <=>
              /\ y \in wayZones /\ Way!Within(name, y.zone)
              /\ \A z \in wayZones : Way!Within(name, z.zone) => Len(z.zone) <= Len(y.zone)
  BY <1>1, <1>2, DeepestIs
<1>7. QED
  BY <1>1, <1>4, <1>5, <1>6 DEF apexes

(* A zone to be forwarded overrules a local one if it is deeper. *)
LEMMA OverruledIs ==
  ASSUME ZonesFit, NEW name \in Seq(STRING), DOMAIN wayConfig.forward \subseteq Seq(STRING)
  PROVE  Way!Overruled(wayZones, DOMAIN wayConfig.forward, name) <=>
           \E z \in Way!LocalZoneOf(wayZones, name), f \in DOMAIN wayConfig.forward :
             Way!Within(name, f) /\ Len(f) > Len(z.zone)
<1> DEFINE forward == DOMAIN wayConfig.forward
<1>1. ASSUME NEW z \in Way!LocalZoneOf(wayZones, name), NEW f \in forward,
             Way!Within(name, f), Len(f) > Len(z.zone)
      PROVE  f \in Way!Retained(wayZones, forward)
  <2>1. z \in wayZones /\ Way!Within(name, z.zone) /\ z.zone \in Seq(STRING)
        /\ z.zone \in Way!Apexes(wayZones)
    BY LocalZones DEF ZonesFit, Way!Apexes
  <2>2. f \in Seq(STRING) /\ Len(z.zone) <= Len(f)
    BY <1>1, <2>1
  <2>3. Way!Within(f, z.zone)
    BY <1>1, <2>1, <2>2, WithinEachOther
  <2>4. QED
    BY <1>1, <2>1, <2>3 DEF Way!Retained
<1>2. \A f \in Way!Retained(wayZones, forward) : f \in forward
  BY DEF Way!Retained
<1>3. QED
  BY <1>1, <1>2 DEF Way!Overruled

(* When the tables leave a question of the Internet to others. *)
LEMMA LeftToOthers ==
  ASSUME NEW q, q.class = "IN"
  PROVE  AnsweredHere(q) = {} <=>
           /\ Way!Deepest(q.name, WayDdr) = {}
           /\ \/ Way!Overruled(wayZones, DOMAIN wayConfig.forward, q.name)
              \/ /\ Way!EntryIn(wayZones, q.name) = {}
                 /\ \A z \in Way!LocalZoneOf(wayZones, q.name) : ~z.closed
                 /\ ~(/\ Way!LocalZoneOf(wayZones, q.name) = {}
                      /\ Way!Deepest(q.name, DOMAIN wayConfig.forward) = {}
                      /\ Way!Deepest(q.name, WayBuiltin) # {})
<1>1. \A code, records : Way!Answered(code, records) # {}
  BY DEF Way!Answered
<1>2. QED
  BY <1>1 DEF AnsweredHere, Way!LocalAnswer

(* What has gone out might. *)
LEMMA ItMightLeave ==
  ASSUME HomeInv, SentInv, NEW to \in waySent, wayRequest.q.class = "IN"
  PROVE  Way!MayLeave(wayRequest.q.name, to)
<1> DEFINE name == wayRequest.q.name
<1> DEFINE forward == DOMAIN wayConfig.forward
<1> DEFINE apexes == Way!Apexes(wayZones)
<1> DEFINE closed == {z.zone : z \in {y \in wayZones : y.closed}}
<1>1. /\ ZonesFit /\ name \in Seq(STRING) /\ forward \subseteq Seq(STRING)
      /\ apexes \subseteq Seq(STRING)
  BY NamesAssumption DEF HomeInv, SentInv, ZonesFit, Way!Apexes
<1>2. AnsweredHere(wayRequest.q) = {}
  BY DEF SentInv
<1>3. IF Way!Deepest(name, forward) = {} THEN to = {Way!ThePool} ELSE to = Way!Deepest(name, forward)
  <2>1. Way!Deepest(name, forward) = {} <=> ~Forwarded(name)
    BY <1>1, SomeIsDeepest DEF Forwarded
  <2>2. QED
    BY <2>1 DEF SentInv, Way!Route
<1>4. CASE Way!Overruled(wayZones, forward, name)
  <2>1. PICK z \in Way!LocalZoneOf(wayZones, name), f \in forward :
          Way!Within(name, f) /\ Len(f) > Len(z.zone)
    BY <1>1, <1>4, OverruledIs
  <2>2. z \in wayZones /\ Way!Within(name, z.zone) /\ z.zone \in Seq(STRING)
        /\ \A y \in wayZones : Way!Within(name, y.zone) => Len(y.zone) <= Len(z.zone)
    BY <1>1, LocalZones DEF ZonesFit
  <2>3. PICK d \in Way!Deepest(name, forward) : TRUE
    <3>1. Way!Deepest(name, forward) # {}
      <4> HIDE DEF name, forward
      <4>1. QED
        BY <1>1, <2>1, SomeIsDeepest
    <3>2. QED
      BY <3>1
  <2>4. d \in forward /\ Len(f) <= Len(d)
    BY <2>1, DeepestIs
  <2>5. ASSUME NEW b \in Way!Deepest(name, apexes) PROVE Len(d) > Len(b)
    <3>1. b \in apexes /\ Way!Within(name, b)
      BY DeepestIs
    <3>2. b \in Seq(STRING) /\ Len(b) <= Len(z.zone)
      BY <1>1, <2>2, <3>1 DEF Way!Apexes
    <3>3. Len(b) \in Nat /\ Len(d) \in Nat /\ Len(f) \in Nat /\ Len(z.zone) \in Nat
      BY <1>1, <2>1, <2>2, <2>4, <3>2
    <3>4. QED
      BY <2>1, <2>4, <3>2, <3>3
  <2>6. Way!Deepest(name, apexes) # {}
    BY <1>1, <2>1, LocalZones
  <2>7. Way!Deeper(name, forward, apexes)
    BY <2>5 DEF Way!Deeper
  <2>8. Way!Deepest(name, WayDdr) = {}
    BY <1>2, LeftToOthers
  <2>9. QED
    BY <1>3, <2>6, <2>7, <2>8 DEF Way!MayLeave
<1>5. CASE ~Way!Overruled(wayZones, forward, name)
  <2>1. /\ Way!Deepest(name, WayDdr) = {} /\ Way!EntryIn(wayZones, name) = {}
        /\ \A z \in Way!LocalZoneOf(wayZones, name) : ~z.closed
        /\ ~(/\ Way!LocalZoneOf(wayZones, name) = {} /\ Way!Deepest(name, forward) = {}
             /\ Way!Deepest(name, WayBuiltin) # {})
    BY <1>2, <1>5, LeftToOthers
  <2>2. \A z \in wayZones : name \notin DOMAIN z.entries
    BY <2>1 DEF Way!EntryIn
  <2>3. ASSUME Way!Deepest(name, apexes) \subseteq closed, Way!Deepest(name, closed) # {}
        PROVE  FALSE
    <3>1. PICK c \in closed : Way!Within(name, c)
      BY <2>3, DeepestIs
    <3>2. PICK z \in wayZones : z.zone = c
      BY <3>1
    <3>3. PICK a \in Way!Deepest(name, apexes) : TRUE
      BY <1>1, <3>1, <3>2, LocalZones
    <3>4. PICK y \in wayZones : y.zone = a /\ y.closed
      BY <2>3, <3>3
    <3>5. y \in Way!LocalZoneOf(wayZones, name)
      BY <3>3, <3>4 DEF Way!LocalZoneOf
    <3>6. QED
      BY <2>1, <3>4, <3>5
  <2>4. ASSUME Way!Deepest(name, WayBuiltin) # {}
        PROVE  Way!Deepest(name, apexes \cup forward) # {}
    <3>1. Way!Deepest(name, apexes) # {} \/ Way!Deepest(name, forward) # {}
      BY <1>1, <2>1, <2>4, LocalZones
    <3>2. PICK a \in apexes \cup forward : Way!Within(name, a)
      BY <3>1, DeepestIs
    <3>3. apexes \cup forward \subseteq Seq(STRING)
      BY <1>1
    <3> HIDE DEF apexes, forward, name
    <3>4. QED
      BY <1>1, <3>2, <3>3, SomeIsDeepest
  <2>5. QED
    BY <1>3, <2>1, <2>2, <2>3, <2>4 DEF Way!MayLeave
<1>6. QED
  BY <1>4, <1>5

(* What `check` says of an open zone is so. *)
LEMMA OpenZoneTold ==
  ASSUME StayInv, NEW q \in WayQuestions, q.class = "IN", Way!Deepest(q.name, WayDdr) = {},
         NEW z \in wayZones, Way!Within(q.name, z.zone), ~z.closed,
         Way!EntryIn(wayZones, q.name) = {},
         \A a \in Way!Deepest(q.name, Way!Apexes(wayZones) \cup DOMAIN wayConfig.forward) :
           Len(a) <= Len(z.zone)
  PROVE  /\ AnsweredHere(q) = {}
         /\ (Way!Route(DOMAIN wayConfig.forward, q.name) = {}) =
              (Way!NamesGoOn(z.zone, DOMAIN wayConfig.forward, WayDdr) = "upstream")
<1> DEFINE name == q.name
<1> DEFINE forward == DOMAIN wayConfig.forward
<1> DEFINE apexes == Way!Apexes(wayZones)
<1> DEFINE all == apexes \cup forward
<1>1. /\ ZonesFit /\ ZonesApart /\ name \in Seq(STRING) /\ forward \subseteq Seq(STRING)
      /\ apexes \subseteq Seq(STRING) /\ z.zone \in apexes /\ z.zone \in Seq(STRING)
      /\ WayDdr \subseteq Seq(STRING)
  BY NamesAssumption DEF StayInv, HomeInv, ZonesFit, Way!Apexes
<1>2. ASSUME NEW a \in all, Way!Within(name, a) PROVE Len(a) <= Len(z.zone)
  <2>1. all \subseteq Seq(STRING) /\ a \in Seq(STRING)
    BY <1>1
  <2> HIDE DEF all, name
  <2>2. PICK d \in Way!Deepest(name, all) : TRUE
    BY <1>1, <1>2, <2>1, SomeIsDeepest
  <2>3. d \in Seq(STRING) /\ Len(a) <= Len(d)
    BY <1>2, <2>1, <2>2, DeepestIs
  <2>4. Len(d) <= Len(z.zone)
    BY <2>2 DEF all, name
  <2>5. Len(a) \in Nat /\ Len(d) \in Nat /\ Len(z.zone) \in Nat
    BY <1>1, <2>1, <2>3
  <2>6. QED
    BY <2>3, <2>4, <2>5
<1>3. ASSUME NEW y \in Way!LocalZoneOf(wayZones, name) PROVE y = z
  <2>1. y \in wayZones /\ Way!Within(name, y.zone) /\ Len(z.zone) <= Len(y.zone)
        /\ y.zone \in Seq(STRING) /\ y.zone \in all
    BY <1>1, LocalZones DEF ZonesFit, Way!Apexes
  <2>2. Len(y.zone) = Len(z.zone)
    BY <1>1, <1>2, <2>1
  <2>3. y.zone = z.zone
    BY <1>1, <2>1, <2>2, OneOfALength
  <2>4. QED
    BY <1>1, <2>1, <2>3 DEF ZonesApart
<1>4. Way!LocalZoneOf(wayZones, name) # {}
  BY <1>1, LocalZones
<1>5. AnsweredHere(q) = {}
  BY <1>3, <1>4, LeftToOthers
<1>6. ASSUME NEW f \in Way!Live(forward, WayDdr), Way!Within(z.zone, f)
      PROVE  Way!Deepest(name, forward) # {}
  <2>1. f \in forward
    BY DEF Way!Live
  <2>2. Way!Within(name, f)
    BY <1>1, <1>6, <2>1, WithinAll
  <2>3. QED
    BY <1>1, <2>1, <2>2, SomeIsDeepest
<1>7. ASSUME NEW f \in Way!Deepest(name, forward)
      PROVE  f \in Way!Live(forward, WayDdr) /\ f # z.zone /\ Way!Within(z.zone, f)
  <2>1. f \in forward /\ Way!Within(name, f) /\ f \in Seq(STRING)
    BY <1>1, DeepestIs
  <2>2. Way!Within(z.zone, f)
    BY <1>1, <1>2, <2>1, WithinEachOther
  <2>3. ASSUME NEW d \in Way!Deepest(f, WayDdr) PROVE FALSE
    <3>1. d \in WayDdr /\ Way!Within(f, d)
      BY DeepestIs
    <3>2. Way!Within(name, d)
      BY <1>1, <2>1, <3>1, WithinAll
    <3>3. QED
      BY <1>1, <3>1, <3>2, SomeIsDeepest
  <2>4. QED
    BY <1>1, <2>1, <2>2, <2>3 DEF Way!Live, ZonesApart
<1>8. Way!Deepest(name, forward) = {} <=> Way!NamesGoOn(z.zone, forward, WayDdr) = "upstream"
  BY <1>6, <1>7 DEF Way!NamesGoOn
<1>9. QED
  BY <1>5, <1>8 DEF Way!Route

(* What it says of a zone to be forwarded within a local one. *)
LEMMA ForwardInLocalTold ==
  ASSUME StayInv, NEW q \in WayQuestions, q.class = "IN", Way!Deepest(q.name, WayDdr) = {},
         NEW p \in Way!ForwardInLocal(wayZones, DOMAIN wayConfig.forward, WayDdr),
         Way!Within(q.name, p[1]),
         \A a \in Way!Deepest(q.name, Way!Apexes(wayZones)) : Len(a) <= Len(p[1])
  PROVE  /\ AnsweredHere(q) = {}
         /\ \A f \in Way!Route(DOMAIN wayConfig.forward, q.name) : Way!Within(f, p[1])
<1> DEFINE name == q.name
<1> DEFINE forward == DOMAIN wayConfig.forward
<1> DEFINE g == p[1]
<1> DEFINE z == p[2]
<1>1. /\ ZonesFit /\ ZonesApart /\ name \in Seq(STRING) /\ forward \subseteq Seq(STRING)
  BY NamesAssumption DEF StayInv, HomeInv
<1>2. /\ g \in forward /\ z \in wayZones /\ Way!Within(g, z.zone)
      /\ g \in Seq(STRING) /\ z.zone \in Seq(STRING)
  BY <1>1 DEF Way!ForwardInLocal, Way!Live, ZonesFit
<1>3. Way!Within(name, g) /\ \A a \in Way!Deepest(name, Way!Apexes(wayZones)) : Len(a) <= Len(g)
  OBVIOUS
<1> HIDE DEF g, z
<1>4. Way!Within(name, z.zone)
  BY <1>1, <1>2, <1>3, WithinAll
<1>5. PICK y \in Way!LocalZoneOf(wayZones, name) : TRUE
  BY <1>1, <1>2, <1>4, LocalZones
<1>6. y \in wayZones /\ Way!Within(name, y.zone) /\ y.zone \in Seq(STRING)
      /\ y.zone \in Way!Deepest(name, Way!Apexes(wayZones))
  BY <1>1, LocalZones DEF ZonesFit, Way!LocalZoneOf
<1>7. Len(y.zone) <= Len(g) /\ Len(y.zone) # Len(g)
  <2>1. y.zone # g
    BY <1>1, <1>2, <1>6 DEF ZonesApart
  <2>2. QED
    BY <1>1, <1>2, <1>3, <1>6, <2>1, OneOfALength
<1>8. Len(g) > Len(y.zone)
  <2>1. Len(y.zone) \in Nat /\ Len(g) \in Nat
    BY <1>2, <1>6
  <2>2. QED
    BY <1>7, <2>1
<1>9. Way!Overruled(wayZones, forward, name)
  BY <1>1, <1>2, <1>3, <1>5, <1>8, OverruledIs
<1>10. ASSUME NEW f \in Way!Deepest(name, forward) PROVE Way!Within(f, g)
  <2>1. f \in forward /\ Way!Within(name, f) /\ Len(g) <= Len(f) /\ f \in Seq(STRING)
    BY <1>1, <1>2, <1>3, DeepestIs
  <2>2. QED
    BY <1>1, <1>2, <1>3, <2>1, WithinEachOther
<1>11. QED
  BY <1>9, <1>10, LeftToOthers DEF g, Way!Route

(* What it says of a local zone within one to be forwarded. *)
LEMMA LocalInForwardTold ==
  ASSUME StayInv, NEW q \in WayQuestions, q.class = "IN", Way!Deepest(q.name, WayDdr) = {},
         NEW p \in Way!LocalInForward(wayZones, DOMAIN wayConfig.forward, WayDdr),
         Way!Within(q.name, p[2].zone),
         \A f \in Way!Deepest(q.name, DOMAIN wayConfig.forward) : Len(f) <= Len(p[2].zone)
  PROVE  /\ q.name \in DOMAIN p[2].entries => AnsweredHere(q) # {}
         /\ Way!EntryIn(wayZones, q.name) = {}
              /\ (\A a \in Way!Deepest(q.name, Way!Apexes(wayZones)) : Len(a) <= Len(p[2].zone))
            => (AnsweredHere(q) # {}) = p[2].closed
<1> DEFINE name == q.name
<1> DEFINE forward == DOMAIN wayConfig.forward
<1> DEFINE z == p[2]
<1>1. /\ ZonesFit /\ ZonesApart /\ name \in Seq(STRING) /\ forward \subseteq Seq(STRING)
  BY NamesAssumption DEF StayInv, HomeInv
<1>2. /\ z \in wayZones /\ z.zone \in Seq(STRING) /\ Way!Within(name, z.zone)
      /\ \A f \in Way!Deepest(name, forward) : Len(f) <= Len(z.zone)
  BY <1>1 DEF Way!LocalInForward, ZonesFit
<1> HIDE DEF z
<1>3. ASSUME NEW y \in Way!LocalZoneOf(wayZones, name), NEW f \in forward, Way!Within(name, f),
             Len(f) > Len(y.zone)
      PROVE  FALSE
  <2>1. y \in wayZones /\ y.zone \in Seq(STRING) /\ Len(z.zone) <= Len(y.zone)
    BY <1>1, <1>2, LocalZones DEF ZonesFit
  <2>2. PICK d \in Way!Deepest(name, forward) : TRUE
    BY <1>1, <1>3, SomeIsDeepest
  <2>3. d \in Seq(STRING) /\ f \in Seq(STRING) /\ Len(f) <= Len(d) /\ Len(d) <= Len(z.zone)
    BY <1>1, <1>2, <1>3, <2>2, DeepestIs
  <2>4. Len(y.zone) \in Nat /\ Len(z.zone) \in Nat /\ Len(d) \in Nat /\ Len(f) \in Nat
    BY <1>2, <2>1, <2>3
  <2>5. QED
    BY <1>3, <2>1, <2>3, <2>4
<1>4. ~Way!Overruled(wayZones, forward, name)
  BY <1>1, <1>3, OverruledIs
<1>5. ASSUME name \in DOMAIN z.entries PROVE AnsweredHere(q) # {}
  BY <1>2, <1>4, <1>5, LeftToOthers DEF Way!EntryIn
<1>6. ASSUME Way!EntryIn(wayZones, name) = {},
             \A a \in Way!Deepest(name, Way!Apexes(wayZones)) : Len(a) <= Len(z.zone)
      PROVE  AnsweredHere(q) # {} <=> z.closed
  <2>1. PICK y \in Way!LocalZoneOf(wayZones, name) : TRUE
    BY <1>1, <1>2, LocalZones
  <2>2. ASSUME NEW x \in Way!LocalZoneOf(wayZones, name) PROVE x = z
    <3>1. x \in wayZones /\ Way!Within(name, x.zone) /\ Len(z.zone) <= Len(x.zone)
          /\ x.zone \in Seq(STRING) /\ Len(x.zone) <= Len(z.zone)
      BY <1>1, <1>2, <1>6, LocalZones DEF ZonesFit, Way!LocalZoneOf
    <3>2. Len(x.zone) = Len(z.zone)
      BY <1>2, <3>1
    <3>3. x.zone = z.zone
      BY <1>1, <1>2, <3>1, <3>2, OneOfALength
    <3>4. QED
      BY <1>1, <1>2, <3>1, <3>3 DEF ZonesApart
  <2>3. QED
    BY <1>4, <1>6, <2>1, <2>2, LeftToOthers
<1>7. z.closed \in BOOLEAN
  BY <1>1, <1>2 DEF ZonesApart
<1>8. name \in DOMAIN z.entries => AnsweredHere(q) # {}
  BY <1>5
<1>9. Way!EntryIn(wayZones, name) = {}
        /\ (\A a \in Way!Deepest(name, Way!Apexes(wayZones)) : Len(a) <= Len(z.zone))
      => (AnsweredHere(q) # {}) = z.closed
  BY <1>6, <1>7
<1>10. QED
  BY <1>8, <1>9 DEF z

(* local.rs:373, main.rs:1120: for any tables, zones and names, a question *)
(* of the household's goes out only where it may, and `check` says where.  *)
THEOREM StaysAtHome == Way!Spec => []LocalNamesStayAtHome
<1>1. Way!Init => StayInv
  <2>1. Way!Init => ZonesFit /\ ZonesApart
    BY ZonesAreBuilt, ZonesAreApart
  <2>2. QED
    BY <2>1 DEF Way!Init, HomeInv, SentInv, StayInv, Way!Nobody
<1>2. StayInv => LocalNamesStayAtHome
  <2> SUFFICES ASSUME StayInv PROVE Way!LocalNamesStayAtHome
    BY DEF LocalNamesStayAtHome
  <2>1. ASSUME NEW to \in waySent, wayRequest.q.class = "IN"
        PROVE  Way!MayLeave(wayRequest.q.name, to)
    BY <2>1, ItMightLeave DEF StayInv
  <2>2. ASSUME NEW q \in WayQuestions, q.class = "IN", Way!Deepest(q.name, WayDdr) = {}
        PROVE  Way!CheckTellsTheWay(q)
    <3> DEFINE forward == DOMAIN wayConfig.forward
    <3>1. \A z \in wayZones :
            /\ Way!Within(q.name, z.zone) /\ ~z.closed /\ Way!EntryIn(wayZones, q.name) = {}
            /\ \A a \in Way!Deepest(q.name, Way!Apexes(wayZones) \cup forward) :
                 Len(a) <= Len(z.zone)
            => /\ AnsweredHere(q) = {}
               /\ (Way!Route(forward, q.name) = {}) =
                    (Way!NamesGoOn(z.zone, forward, WayDdr) = "upstream")
      BY <2>2, OpenZoneTold
    <3>2. \A p \in Way!ForwardInLocal(wayZones, forward, WayDdr) :
            /\ Way!Within(q.name, p[1])
            /\ \A a \in Way!Deepest(q.name, Way!Apexes(wayZones)) : Len(a) <= Len(p[1])
            => /\ AnsweredHere(q) = {}
               /\ \A f \in Way!Route(forward, q.name) : Way!Within(f, p[1])
      BY <2>2, ForwardInLocalTold
    <3>3. \A p \in Way!LocalInForward(wayZones, forward, WayDdr) :
            /\ Way!Within(q.name, p[2].zone)
            /\ \A f \in Way!Deepest(q.name, forward) : Len(f) <= Len(p[2].zone)
            => /\ q.name \in DOMAIN p[2].entries => AnsweredHere(q) # {}
               /\ Way!EntryIn(wayZones, q.name) = {}
                    /\ (\A a \in Way!Deepest(q.name, Way!Apexes(wayZones)) :
                          Len(a) <= Len(p[2].zone))
                  => (AnsweredHere(q) # {}) = p[2].closed
      BY <2>2, LocalInForwardTold
    <3>4. QED
      BY <3>1, <3>2, <3>3 DEF Way!CheckTellsTheWay, AnsweredHere
  <2>3. QED
    BY <2>1, <2>2 DEF Way!LocalNamesStayAtHome
<1>3. StayInv /\ [Way!Next]_(Way!vars) => StayInv'
  <2> SUFFICES ASSUME StayInv, [Way!Next]_wayVars PROVE StayInv'
    BY DEF Way!vars, wayVars
  <2>1. HomeInv' /\ SentInv'
    BY HomeStep, SentStep DEF StayInv
  <2>2. UNCHANGED <<wayZones, wayConfig>>
    BY DEF Way!Next, wayVars, Way!settings, Way!RefusePacket, Way!FromCache, Way!NotInCache,
           Way!AnswerLocally, Way!PassOn, Way!Reply, Way!Expire, Way!Receive, Way!AskServer,
           Way!AskUpstream
  <2>3. QED
    BY <2>1, <2>2 DEF StayInv, ZonesApart
<1>4. QED
  BY <1>1, <1>2, <1>3, PTL DEF Way!Spec

-----------------------------------------------------------------------------
(***************************************************************************)
(* The rate limit.  RateIsKept speaks of the present, and is not inductive *)
(* as it stands: what a bucket may still be given for the time since it    *)
(* was filled is part of the account.  So the account is made up to the    *)
(* last filling (Account).  A thread that was overtaken puts that back by  *)
(* no more than it was held up, which is what late grows by.               *)
(***************************************************************************)
Account(k) ==
  LET b == limitBuckets[k]
  IN  /\ b \in [tokens : 0 .. Limit!Burst, last : Int]
      /\ b.last <= limitNow
      /\ limitPassed[k] + b.tokens
           <= Limit!Burst + LimitRate * (b.last - limitSince[k] + limitLate[k])

ThreadsFit ==
  /\ limitNow \in Nat
  /\ DOMAIN limitThread = LimitThreads
  /\ \A t \in LimitThreads : limitThread[t].read \in Int /\ limitThread[t].read <= limitNow

LimitInv ==
  /\ ThreadsFit
  /\ DOMAIN limitBuckets \subseteq Limit!Keys
  /\ limitSince \in [Limit!Keys -> Int]
  /\ limitPassed \in [Limit!Keys -> Int]
  /\ limitLate \in [Limit!Keys -> Int]
  /\ \A k \in DOMAIN limitBuckets : Account(k)

LEMMA RateGrows ==
  ASSUME NEW a \in Int, NEW b \in Int, a <= b
  PROVE  /\ LimitRate * a \in Int /\ LimitRate * b \in Int
         /\ LimitRate * a <= LimitRate * b
<1>1. LimitRate \in Nat
  BY LimitAssumption
<1>2. b - a \in Nat /\ LimitRate * (b - a) \in Nat
  BY <1>1
<1>3. LimitRate * b = LimitRate * a + LimitRate * (b - a)
  BY <1>1
<1>4. QED
  BY <1>1, <1>2, <1>3

LEMMA RateAdds ==
  ASSUME NEW a \in Int, NEW b \in Int
  PROVE  LimitRate * (a + b) = LimitRate * a + LimitRate * b
BY LimitAssumption

LEMMA BurstType == Limit!Burst \in Nat /\ Limit!Burst >= 1
BY LimitAssumption DEF Limit!Burst, Limit!AtLeastOne

LEMMA LimitStep == LimitInv /\ [Limit!Next]_limitVars => LimitInv'
<1> SUFFICES ASSUME LimitInv, [Limit!Next]_limitVars PROVE LimitInv'
  OBVIOUS
<1>1. CASE Limit!Tick
  BY <1>1 DEF LimitInv, ThreadsFit, Limit!Tick, Account
<1>2. ASSUME NEW t \in LimitThreads, NEW a \in LimitAddresses, Limit!ReadClock(t, a)
      PROVE  LimitInv'
  BY <1>2 DEF LimitInv, ThreadsFit, Limit!ReadClock, Account
<1>3. ASSUME NEW t \in LimitThreads, NEW k \in Limit!Keys, Limit!AllowNew(t, k)
      PROVE  LimitInv'
  <2> DEFINE r == limitThread[t].read
  <2>1. /\ DOMAIN limitBuckets' \subseteq DOMAIN limitBuckets \cup {k}
        /\ \A x \in DOMAIN limitBuckets' \ {k} : limitBuckets'[x] = limitBuckets[x]
        /\ limitBuckets'[k] = [tokens |-> Limit!Burst - 1, last |-> r]
        /\ \A x \in Limit!Keys \ {k} :
             /\ limitSince'[x] = limitSince[x] /\ limitPassed'[x] = limitPassed[x]
             /\ limitLate'[x] = limitLate[x]
        /\ limitSince'[k] = r /\ limitPassed'[k] = 1 /\ limitLate'[k] = limitNow - r
        /\ r \in Int /\ r <= limitNow /\ limitNow' = limitNow
    BY <1>3 DEF LimitInv, ThreadsFit, Limit!AllowNew
  <2>2. Account(k)'
    <3>1. 0 <= limitNow - r /\ limitNow - r \in Int /\ r - r + (limitNow - r) = limitNow - r
      BY <2>1 DEF LimitInv, ThreadsFit
    <3>2. LimitRate * 0 <= LimitRate * (limitNow - r) /\ LimitRate * (limitNow - r) \in Int
      BY <3>1, RateGrows
    <3>3. LimitRate * 0 = 0
      BY LimitAssumption
    <3>4. 1 + (Limit!Burst - 1) <= Limit!Burst + LimitRate * (r - r + (limitNow - r))
      BY <3>1, <3>2, <3>3, BurstType
    <3>5. QED
      BY <2>1, <3>4, BurstType DEF Account
  <2>3. ASSUME NEW x \in DOMAIN limitBuckets' PROVE Account(x)'
    BY <2>1, <2>2 DEF LimitInv, ThreadsFit, Account
  <2>4. ThreadsFit'
    BY <1>3 DEF LimitInv, ThreadsFit, Limit!AllowNew, Limit!Idle
  <2>5. /\ limitSince' \in [Limit!Keys -> Int] /\ limitPassed' \in [Limit!Keys -> Int]
        /\ limitLate' \in [Limit!Keys -> Int]
    BY <1>3, <2>1 DEF LimitInv, ThreadsFit, Limit!AllowNew
  <2>6. DOMAIN limitBuckets' \subseteq Limit!Keys
    BY <2>1 DEF LimitInv, ThreadsFit
  <2>7. QED
    BY <2>1, <2>3, <2>4, <2>5, <2>6 DEF LimitInv
<1>4. ASSUME NEW t \in LimitThreads, NEW k \in Limit!Keys, Limit!AllowKnown(t, k)
      PROVE  LimitInv'
  <2> DEFINE r == limitThread[t].read
             o == limitBuckets[k]
             b == Limit!Filled(o, r)
             n == limitBuckets'[k]
             e == Limit!Elapsed(o.last, r)
  <2>1. Account(k) /\ r \in Int /\ r <= limitNow /\ limitNow \in Int
    BY <1>4 DEF LimitInv, ThreadsFit, Limit!AllowKnown
  <2>2. o.tokens \in 0 .. Limit!Burst /\ o.last \in Int /\ o.last <= limitNow
    BY <2>1 DEF Account
  <2>3. e \in Nat /\ LimitRate * e \in Nat
    BY <2>1, <2>2, LimitAssumption DEF Limit!Elapsed
  <2>4. /\ b = [tokens |-> b.tokens, last |-> r]
        /\ b.tokens \in 0 .. Limit!Burst
        /\ b.tokens <= o.tokens + LimitRate * e
    BY <2>2, <2>3, BurstType DEF Limit!Filled
  <2> HIDE DEF b, e
  <2>5. /\ limitPassed'[k] + n.tokens = limitPassed[k] + b.tokens
        /\ n \in [tokens : 0 .. Limit!Burst, last : Int] /\ n.last = r
        /\ limitPassed' \in [Limit!Keys -> Int]
    <3>1. CASE b.tokens >= 1
      <4>1. /\ limitBuckets' = [limitBuckets EXCEPT ![k] = [b EXCEPT !.tokens = @ - 1]]
            /\ limitPassed' = [limitPassed EXCEPT ![k] = @ + 1]
        BY <1>4, <3>1 DEF Limit!AllowKnown, b
      <4>2. n = [tokens |-> b.tokens - 1, last |-> r]
        BY <1>4, <2>4, <4>1 DEF Limit!AllowKnown
      <4>3. QED
        BY <2>1, <2>4, <3>1, <4>1, <4>2, BurstType DEF LimitInv, ThreadsFit
    <3>2. CASE ~ (b.tokens >= 1)
      <4>1. /\ limitBuckets' = [limitBuckets EXCEPT ![k] = b]
            /\ limitPassed' = [limitPassed EXCEPT ![k] = @ + 0]
        BY <1>4, <3>2 DEF Limit!AllowKnown, b
      <4>2. QED
        BY <1>4, <2>1, <2>4, <4>1, BurstType DEF LimitInv, ThreadsFit, Limit!AllowKnown
    <3>3. QED
      BY <3>1, <3>2
  <2>6. /\ DOMAIN limitBuckets' = DOMAIN limitBuckets
        /\ \A x \in DOMAIN limitBuckets \ {k} : limitBuckets'[x] = limitBuckets[x]
        /\ \A x \in Limit!Keys \ {k} :
             limitPassed'[x] = limitPassed[x] /\ limitLate'[x] = limitLate[x]
        /\ limitSince' = limitSince /\ limitNow' = limitNow
        /\ limitLate'[k] = limitLate[k] + (limitNow - r)
        /\ limitLate' \in [Limit!Keys -> Int]
    BY <1>4, <2>1 DEF LimitInv, ThreadsFit, Limit!AllowKnown
  <2>7. Account(k)'
    <3> DEFINE s == limitSince[k]
               l == limitLate[k]
               d == o.last - s + l
               f == r - s + (l + (limitNow - r))
    <3>1. s \in Int /\ l \in Int /\ limitPassed[k] \in Int
      BY DEF LimitInv, ThreadsFit
    <3>2. d \in Int /\ f \in Int /\ d + e \in Int /\ d + e <= f
      BY <2>1, <2>2, <3>1 DEF Limit!Elapsed, e
    <3>3. limitPassed[k] + o.tokens <= Limit!Burst + LimitRate * d
      BY <2>1 DEF Account
    <3>4. LimitRate * (d + e) = LimitRate * d + LimitRate * e
      BY <2>3, <3>2, RateAdds
    <3>5. LimitRate * (d + e) <= LimitRate * f
      BY <3>2, RateGrows
    <3>6. /\ LimitRate * d \in Int /\ LimitRate * f \in Int
      BY <3>2, LimitAssumption
    <3> HIDE DEF d, f
    <3>7. limitPassed[k] + b.tokens <= Limit!Burst + LimitRate * f
      BY <2>2, <2>3, <2>4, <3>1, <3>3, <3>4, <3>5, <3>6, BurstType
    <3>8. f = n.last - limitSince'[k] + limitLate'[k]
      BY <2>5, <2>6 DEF f
    <3>9. QED
      BY <2>1, <2>5, <2>6, <3>7, <3>8 DEF Account
  <2>8. ASSUME NEW x \in DOMAIN limitBuckets' PROVE Account(x)'
    BY <2>6, <2>7 DEF LimitInv, ThreadsFit, Account
  <2>9. ThreadsFit'
    BY <1>4 DEF LimitInv, ThreadsFit, Limit!AllowKnown, Limit!Idle
  <2>10. QED
    BY <2>1, <2>5, <2>6, <2>8, <2>9 DEF LimitInv
<1>5. CASE UNCHANGED limitVars
  <2> USE <1>5 DEF limitVars
  <2>1. ASSUME NEW x \in DOMAIN limitBuckets' PROVE Account(x)'
    BY DEF LimitInv, Account
  <2>2. ThreadsFit'
    BY DEF LimitInv, ThreadsFit
  <2>3. QED
    BY <2>1, <2>2 DEF LimitInv
<1>6. QED
  BY <1>1, <1>2, <1>3, <1>4, <1>5 DEF Limit!Next

(* ratelimit.rs:148: no client is answered more than its burst, its rate,  *)
(* and the time its threads were held up allow, for any rate and burst,    *)
(* number of threads and clients, and order in which they come.            *)
THEOREM RateLimit == Limit!Spec => []RateIsKept
<1>1. Limit!Init => LimitInv
  BY DEF Limit!Init, LimitInv, ThreadsFit, Limit!Idle
<1>2. LimitInv => RateIsKept
  <2> SUFFICES ASSUME LimitInv, NEW k \in DOMAIN limitBuckets
               PROVE  /\ limitBuckets[k].tokens \in 0 .. Limit!Burst
                      /\ limitPassed[k] + limitBuckets[k].tokens
                           <= Limit!Burst + LimitRate * (limitNow - limitSince[k] + limitLate[k])
    BY DEF RateIsKept, Limit!RateIsKept
  <2> DEFINE x == limitBuckets[k].last - limitSince[k] + limitLate[k]
             y == limitNow - limitSince[k] + limitLate[k]
  <2>1. Account(k) /\ limitPassed[k] \in Int
    BY DEF LimitInv, ThreadsFit
  <2>2. x \in Int /\ y \in Int /\ x <= y
    BY <2>1 DEF LimitInv, ThreadsFit, Account
  <2>3. LimitRate * x <= LimitRate * y /\ LimitRate * x \in Int /\ LimitRate * y \in Int
    BY <2>2, RateGrows
  <2>4. QED
    BY <2>1, <2>3, BurstType DEF Account
<1>3. LimitInv /\ [Limit!Next]_limitVars => LimitInv'
  BY LimitStep
<1>4. QED
  BY <1>1, <1>2, <1>3, PTL DEF Limit!Spec, Limit!vars, limitVars

-----------------------------------------------------------------------------
(***************************************************************************)
(* Plain and oblivious upstreams.  That the key is fetched once rests on   *)
(* the mutex: whoever fetches holds it, and there is no key as long as     *)
(* somebody does; whoever seals has got the one there is.                  *)
(***************************************************************************)
Message(m) ==
  /\ DOMAIN m = {"id", "question", "edns", "base", "options", "ours", "mixed", "key"}
  /\ m.base \in Nat /\ m.edns \in BOOLEAN
  /\ \A o \in DOMAIN m.options : m.options[o] \in Nat

UpPlaces == {"idle", "forward", "plain", "again", "odoh", "fetching", "sealing", "posted"}
UpSent == {"plain", "again", "posted"}

KeyInv ==
  /\ upPc \in [UpQueries -> UpPlaces]
  /\ upLock \in UpQueries \cup {Nil}
  /\ \A q \in UpQueries : upLock = q <=> upPc[q] = "fetching"
  /\ IF upKey = {} THEN upFetched = 0 ELSE upFetched = 1
  /\ \A q \in UpQueries : upPc[q] = "fetching" => upKey = {}
  /\ \A q \in UpQueries : upPc[q] \in {"sealing", "posted"} => upKey # {}

(* What is on its way, by where its query is. *)
Clean(m, place) ==
  /\ m.id = "own"
  /\ upPrivacy.strip_ecs => "ecs" \notin DOMAIN m.options
  /\ place = "posted" => /\ m.key = upKey /\ m.ours = 0 /\ m.mixed = FALSE
                         /\ upPrivacy.padding => Up!Size(m) % UpBlock = 0
  /\ place # "posted" => m.ours = (IF upPrivacy.cookies THEN 1 ELSE 0)
  /\ place = "again" => m.mixed = FALSE

(* Case is mixed only if it is to be, and no longer once that is known. *)
MixInv ==
  /\ upPrivacy.dns0x20 \in BOOLEAN
  /\ upDns0x20 = (upPrivacy.dns0x20 /\ ~upUnmirrored)
  /\ \A q \in UpQueries : q \in upLate => upUnmirrored
  /\ \A q \in UpQueries :
       upPc[q] = "plain" => /\ upWire[q].mixed \in BOOLEAN
                            /\ upWire[q].mixed => upPrivacy.dns0x20 /\ q \notin upLate

CleanInv ==
  /\ DOMAIN upClient = UpQueries /\ DOMAIN upWire = UpQueries
  /\ upCookie = {} \/ \E n \in Nat : upCookie = {n}
  /\ \A q \in UpQueries : upPc[q] # "idle" => upClient[q] \in UpRequests
  /\ \A q \in UpQueries : IF upPc[q] \in UpSent THEN Clean(upWire[q], upPc[q])
                          ELSE upWire[q] = Nil

LEMMA WholeBlocks ==
  ASSUME NEW n \in Int, NEW b \in Nat \ {0}
  PROVE  (n * b) % b = 0
<1> DEFINE d == (n * b) \div b
           r == (n * b) % b
<1>1. n * b \in Int
  OBVIOUS
<1>2. d \in Int /\ r \in 0 .. b - 1 /\ n * b = b * d + r
  BY <1>1
<1> HIDE DEF d, r
<1>3. r = (n - d) * b
  BY <1>2
<1>4. CASE n - d >= 1
  <2>1. (n - d) * b >= b
    BY <1>2, <1>4
  <2>2. QED
    BY <1>2, <1>3, <2>1
<1>5. CASE n - d <= -1
  <2>1. (n - d) * b <= -b
    BY <1>2, <1>5
  <2>2. QED
    BY <1>2, <1>3, <2>1
<1>6. CASE n - d = 0
  BY <1>2, <1>3, <1>6 DEF r
<1>7. QED
  BY <1>2, <1>4, <1>5, <1>6

(* What a message is after each of the things that are done to it. *)
LEMMA WithoutOption ==
  ASSUME NEW m, Message(m), NEW option
  PROVE  /\ Message(Up!Without(m, option))
         /\ DOMAIN Up!Without(m, option).options = DOMAIN m.options \ {option}
         /\ Up!Without(m, option).id = m.id
         /\ Up!Without(m, option).ours = m.ours /\ Up!Without(m, option).mixed = m.mixed
BY DEF Message, Up!Without

LEMMA WithOneMore ==
  ASSUME NEW m, Message(m), NEW option, NEW size \in Nat
  PROVE  LET n == Up!WithOption(m, option, size)
         IN  /\ Message(n)
             /\ DOMAIN n.options = DOMAIN m.options \cup {option}
             /\ option \notin DOMAIN m.options => n.options[option] = size + Up!OptionHead
             /\ n.id = m.id /\ n.ours = m.ours /\ n.mixed = m.mixed
             /\ n.edns /\ n.base = m.base
             /\ \A o \in DOMAIN m.options \ {option} : n.options[o] = m.options[o]
BY DEF Message, Up!WithOption, Up!Cost, Up!OptionHead

LEMMA SizeType ==
  ASSUME NEW m, Message(m)
  PROVE  Up!Size(m) \in Nat
<1>1. \A o : Up!Cost(m, o) \in Nat
  BY DEF Message, Up!Cost
<1>2. QED
  BY <1>1 DEF Message, Up!Size, Up!EdnsHead

(* The own id, no subnet if it is to be stripped, and nothing else of ours. *)
LEMMA CleanedUp ==
  ASSUME NEW m \in UpRequests
  PROVE  LET n == Up!Stripped(Up!Own(m))
         IN  /\ Message(n) /\ n.id = "own" /\ n.ours = 0 /\ n.mixed = FALSE
             /\ upPrivacy.strip_ecs => "ecs" \notin DOMAIN n.options
<1>1. Message(m) /\ m.ours = 0 /\ m.mixed = FALSE
  BY UpAssumption DEF Message
<1>2. /\ Message(Up!Own(m)) /\ Up!Own(m).id = "own"
      /\ Up!Own(m).ours = 0 /\ Up!Own(m).mixed = FALSE
  BY <1>1 DEF Message, Up!Own
<1>3. QED
  BY <1>2, WithoutOption DEF Up!Stripped, Up!StripEcs

(* A padded message fills whole blocks. *)
LEMMA Padded ==
  ASSUME NEW m, Message(m)
  PROVE  LET n == Up!PadToBlock(m, UpBlock)
         IN  /\ Message(n) /\ n.id = m.id /\ n.ours = m.ours /\ n.mixed = m.mixed
             /\ DOMAIN n.options \subseteq DOMAIN m.options \cup {"padding"}
             /\ Up!Size(n) % UpBlock = 0
<1> DEFINE bare == [Up!Without(m, "padding") EXCEPT !.edns = TRUE]
           size == Up!Size(bare) + Up!OptionHead
           blocks == (size + UpBlock - 1) \div UpBlock
           fill == blocks * UpBlock - size
           n == Up!WithOption(bare, "padding", fill)
<1>1. UpBlock \in Nat \ {0}
  BY UpAssumption
<1>2. /\ Message(bare) /\ bare.id = m.id /\ bare.edns
      /\ bare.ours = m.ours /\ bare.mixed = m.mixed
      /\ DOMAIN bare.options = DOMAIN m.options \ {"padding"}
  BY WithoutOption DEF Message
<1>3. size \in Nat
  BY <1>2, SizeType DEF Up!OptionHead
<1> HIDE DEF bare
<1>4. Up!PadToBlock(m, UpBlock) = n
  BY <1>1 DEF Up!PadToBlock, bare
<1> HIDE DEF size
<1>5. blocks \in Nat /\ fill \in Nat
  <2>1. size + UpBlock - 1 \in Nat /\ size + UpBlock - 1 = (UpBlock * blocks) + ((size + UpBlock - 1) % UpBlock)
    BY <1>1, <1>3
  <2>2. ((size + UpBlock - 1) % UpBlock) \in 0 .. UpBlock - 1 /\ blocks \in Int
    BY <1>1, <1>3, <2>1
  <2> HIDE DEF blocks
  <2>3. UpBlock * blocks >= size /\ UpBlock * blocks = blocks * UpBlock
    BY <1>1, <1>3, <2>1, <2>2
  <2>4. blocks >= 0
    BY <1>1, <1>3, <2>2, <2>3
  <2>5. QED
    BY <1>1, <1>3, <2>2, <2>3, <2>4
<1> HIDE DEF fill, blocks
<1>6. /\ Message(n) /\ n.id = m.id /\ n.edns /\ n.base = bare.base
      /\ n.ours = m.ours /\ n.mixed = m.mixed
      /\ DOMAIN n.options = DOMAIN m.options \cup {"padding"}
      /\ n.options["padding"] = fill + Up!OptionHead
      /\ \A o \in DOMAIN bare.options : n.options[o] = bare.options[o]
  BY <1>2, <1>5, WithOneMore
<1> HIDE DEF n
<1>7. Up!Size(n) = blocks * UpBlock
  <2>1. Up!Cost(n, "padding") = fill + Up!OptionHead /\ Up!Cost(bare, "padding") = 0
    BY <1>2, <1>6 DEF Up!Cost
  <2>2. Up!Cost(n, "ecs") = Up!Cost(bare, "ecs") /\ Up!Cost(n, "cookie") = Up!Cost(bare, "cookie")
    BY <1>2, <1>6 DEF Up!Cost
  <2>3. /\ Up!Cost(bare, "ecs") \in Nat /\ Up!Cost(bare, "cookie") \in Nat
        /\ bare.base \in Nat
    BY <1>2 DEF Message, Up!Cost
  <2>4. Up!Size(n) = size + fill
    BY <1>2, <1>5, <1>6, <2>1, <2>2, <2>3 DEF Up!Size, size, Up!OptionHead, Up!EdnsHead
  <2>5. QED
    BY <1>1, <1>3, <1>5, <2>4 DEF fill
<1>8. QED
  BY <1>1, <1>4, <1>5, <1>6, <1>7, WholeBlocks

(* What is sent in the clear, and what is sealed. *)
LEMMA PreparedIsClean ==
  ASSUME NEW m \in UpRequests, upCookie = {} \/ \E n \in Nat : upCookie = {n},
         NEW mixed, NEW place \in {"plain", "again"}, place = "again" => mixed = FALSE
  PROVE  /\ Clean([Up!Prepared(m) EXCEPT !.mixed = mixed], place)
         /\ Up!Prepared(m).mixed = upDns0x20
         /\ Up!Prepared(m) = [Up!Prepared(m) EXCEPT !.mixed = upDns0x20]
<1> DEFINE clean == Up!Stripped(Up!Own(m))
           size == Up!ClientCookieLen + (IF upCookie = {} THEN 0 ELSE Up!Max(upCookie))
           known == IF upPrivacy.cookies THEN Up!SetCookie(clean, upCookie) ELSE clean
<1>1. /\ Message(clean) /\ clean.id = "own" /\ clean.ours = 0
      /\ upPrivacy.strip_ecs => "ecs" \notin DOMAIN clean.options
  BY CleanedUp
<1> HIDE DEF clean
<1>2. size \in Nat
  <2>1. \A n \in Nat : Up!Max({n}) = n
    BY DEF Up!Max
  <2>2. QED
    BY <2>1 DEF Up!ClientCookieLen
<1> HIDE DEF size
<1>3. /\ Message(known) /\ known.id = "own"
      /\ upPrivacy.strip_ecs => "ecs" \notin DOMAIN known.options
      /\ known.ours = (IF upPrivacy.cookies THEN 1 ELSE 0)
  <2>1. CASE upPrivacy.cookies
    <3> DEFINE longer == Up!WithOption(clean, "cookie", size)
    <3>1. known = [longer EXCEPT !.ours = @ + 1]
      BY <2>1 DEF Up!SetCookie, size
    <3>2. /\ Message(longer) /\ longer.id = "own" /\ longer.ours = 0
          /\ DOMAIN longer.options = DOMAIN clean.options \cup {"cookie"}
      BY <1>1, <1>2, WithOneMore
    <3> HIDE DEF known, longer
    <3>3. QED
      BY <1>1, <2>1, <3>1, <3>2 DEF Message
  <2>2. CASE ~upPrivacy.cookies
    BY <1>1, <2>2
  <2>3. QED
    BY <2>1, <2>2
<1>4. Up!Prepared(m) = [known EXCEPT !.mixed = upDns0x20]
  BY DEF Up!Prepared, clean
<1> HIDE DEF known
<1>5. QED
  BY <1>3, <1>4 DEF Clean, Message

LEMMA SealedIsClean ==
  ASSUME NEW m \in UpRequests
  PROVE  Clean(Up!Sealed(m), "posted")
<1> DEFINE clean == Up!Stripped(Up!Own(m))
           full == IF upPrivacy.padding THEN Up!PadToBlock(clean, UpBlock) ELSE clean
<1>1. /\ Message(clean) /\ clean.id = "own" /\ clean.ours = 0 /\ clean.mixed = FALSE
      /\ upPrivacy.strip_ecs => "ecs" \notin DOMAIN clean.options
  BY CleanedUp
<1> HIDE DEF clean
<1>2. /\ Message(full) /\ full.id = "own" /\ full.ours = 0 /\ full.mixed = FALSE
      /\ upPrivacy.strip_ecs => "ecs" \notin DOMAIN full.options
      /\ upPrivacy.padding => Up!Size(full) % UpBlock = 0
  BY <1>1, Padded
<1>3. Up!Sealed(m) = [full EXCEPT !.key = upKey]
  BY DEF Up!Sealed, clean
<1> HIDE DEF full
<1>4. Up!Size(Up!Sealed(m)) = Up!Size(full)
  BY <1>2, <1>3 DEF Message, Up!Size, Up!Cost
<1>5. QED
  BY <1>2, <1>3, <1>4 DEF Clean, Message

LEMMA KeyStep ==
  ASSUME KeyInv, [Up!Next]_upVars
  PROVE  KeyInv'
<1> USE UpAssumption DEF KeyInv, UpPlaces
<1>1. CASE Up!Rotate
  BY <1>1 DEF Up!Rotate, Up!oblivious
<1>2. ASSUME NEW q \in UpQueries, Up!Step(q)
      PROVE  KeyInv'
  <2>1. CASE \E m \in UpRequests, path \in {"forward", "odoh"} : Up!Ask(q, m, path)
    BY <2>1 DEF Up!Ask, Up!Goes, Up!oblivious
  <2>2. CASE Up!SendPlain(q)
    BY <2>2 DEF Up!SendPlain, Up!Goes, Up!oblivious
  <2>3. CASE Up!PlainFails(q)
    BY <2>3 DEF Up!PlainFails, Up!Ends, Up!Goes, Up!oblivious
  <2>4. CASE Up!NotMirrored(q)
    BY <2>4 DEF Up!NotMirrored, Up!Goes, Up!oblivious
  <2>5. CASE Up!TargetConfig(q)
    BY <2>5 DEF Up!TargetConfig, Up!Goes
  <2>6. CASE Up!Fetched(q)
    BY <2>6 DEF Up!Fetched, Up!Goes
  <2>7. CASE Up!NotFetched(q)
    BY <2>7 DEF Up!NotFetched, Up!Ends, Up!Goes
  <2>8. CASE Up!Post(q)
    BY <2>8 DEF Up!Post, Up!Goes, Up!oblivious
  <2>9. CASE Up!PostFails(q)
    BY <2>9 DEF Up!PostFails, Up!Ends, Up!Goes, Up!oblivious
  <2>10. ASSUME NEW response, Up!PlainAnswer(q, response)
         PROVE  KeyInv'
    BY <2>10 DEF Up!PlainAnswer, Up!Ends, Up!Goes, Up!oblivious
  <2>11. ASSUME NEW response, Up!PostAnswer(q, response)
         PROVE  KeyInv'
    BY <2>11 DEF Up!PostAnswer, Up!Ends, Up!Goes, Up!oblivious
  <2>12. QED
    BY <1>2, <2>1, <2>2, <2>3, <2>4, <2>5, <2>6, <2>7, <2>8, <2>9, <2>10, <2>11 DEF Up!Step
<1>3. CASE UNCHANGED upVars
  BY <1>3 DEF upVars
<1>4. QED
  BY <1>1, <1>2, <1>3 DEF Up!Next

(* What is on its way stays clean as long as its query is where it is. *)
LEMMA CleanStep ==
  ASSUME KeyInv, CleanInv, [Up!Next]_upVars
  PROVE  CleanInv'
<1> USE UpAssumption DEF CleanInv, UpSent
<1>1. CASE Up!Rotate
  BY <1>1 DEF Up!Rotate, Up!oblivious, Up!forward, Clean, Up!Size, Up!Cost
<1>2. ASSUME NEW q \in UpQueries, Up!Step(q)
      PROVE  CleanInv'
  <2> DEFINE Others ==
        /\ upPrivacy' = upPrivacy
        /\ DOMAIN upClient' = UpQueries /\ DOMAIN upWire' = UpQueries
        /\ \A r \in UpQueries \ {q} :
             upPc'[r] = upPc[r] /\ upWire'[r] = upWire[r] /\ upClient'[r] = upClient[r]
        /\ upKey' = upKey \/ \A r \in UpQueries : upPc[r] # "posted"
      Itself ==
        /\ upPc'[q] # "idle" => upClient'[q] \in UpRequests
        /\ IF upPc'[q] \in UpSent THEN Clean(upWire[q], upPc[q])' ELSE upWire'[q] = Nil
      Known == upCookie' = {} \/ \E n \in Nat : upCookie' = {n}
  <2>0. ASSUME Others, Itself, Known PROVE CleanInv'
    <3>1. \A r \in UpQueries \ {q} :
            /\ upPc'[r] # "idle" => upClient'[r] \in UpRequests
            /\ IF upPc'[r] \in UpSent THEN Clean(upWire[r], upPc[r])' ELSE upWire'[r] = Nil
      BY <2>0 DEF Clean, Up!Size, Up!Cost
    <3>2. QED
      BY <2>0, <3>1
  <2>a. ASSUME NEW from, Up!Ends(q, from), upPrivacy' = upPrivacy, upKey' = upKey
        PROVE  Others /\ Itself
    BY <2>a DEF Up!Ends, Up!Goes, KeyInv
  <2>1. CASE \E m \in UpRequests, path \in {"forward", "odoh"} : Up!Ask(q, m, path)
    <3>1. Others /\ Itself /\ Known
      BY <2>1 DEF Up!Ask, Up!Goes, Up!oblivious, Up!forward, KeyInv
    <3>2. QED
      BY <2>0, <3>1
  <2>2. CASE Up!SendPlain(q)
    <3> DEFINE m == Up!Prepared(upClient[q])
    <3>1. Others /\ Known /\ upPc'[q] = "plain" /\ upClient'[q] = upClient[q] /\ upWire'[q] = m
      BY <2>2 DEF Up!SendPlain, Up!Goes, Up!Sends, Up!oblivious, Up!forward, KeyInv
    <3>3. upClient[q] \in UpRequests
      BY <2>2 DEF Up!SendPlain, Up!Goes
    <3>2. Clean([m EXCEPT !.mixed = upDns0x20], "plain") /\ m = [m EXCEPT !.mixed = upDns0x20]
      BY <3>3, PreparedIsClean
    <3>4. Clean(m, "plain")
      BY <3>2
    <3>5. Itself
      BY <2>2, <3>1, <3>3, <3>4 DEF Clean, Up!SendPlain, Up!oblivious, Up!forward, Up!Size, Up!Cost
    <3>6. QED
      BY <2>0, <3>1, <3>5
  <2>3. CASE Up!PlainFails(q)
    BY <2>0, <2>3, <2>a DEF Up!PlainFails, Up!oblivious, Up!forward
  <2>4. CASE Up!NotMirrored(q)
    <3> DEFINE m == [Up!Prepared(upClient[q]) EXCEPT !.mixed = FALSE]
    <3>1. Others /\ Known /\ upPc'[q] = "again" /\ upClient'[q] = upClient[q] /\ upWire'[q] = m
      BY <2>4 DEF Up!NotMirrored, Up!Goes, Up!Sends, Up!oblivious, Up!forward, KeyInv
    <3>2. upClient[q] \in UpRequests
      BY <2>4 DEF Up!NotMirrored, Up!Goes
    <3>3. Clean(m, "again")
      BY <3>2, PreparedIsClean
    <3>4. Itself
      BY <2>4, <3>1, <3>2, <3>3 DEF Clean, Up!NotMirrored, Up!oblivious, Up!forward, Up!Size, Up!Cost
    <3>5. QED
      BY <2>0, <3>1, <3>4
  <2>5. CASE Up!TargetConfig(q)
    <3>1. Others /\ Itself /\ Known
      BY <2>5 DEF Up!TargetConfig, Up!Goes, Up!forward, KeyInv
    <3>2. QED
      BY <2>0, <3>1
  <2>6. CASE Up!Fetched(q)
    <3>1. \A r \in UpQueries : upPc[r] # "posted"
      BY <2>6 DEF Up!Fetched, Up!Goes, KeyInv
    <3>2. Others /\ Itself /\ Known
      BY <2>6, <3>1 DEF Up!Fetched, Up!Goes, Up!forward, KeyInv
    <3>3. QED
      BY <2>0, <3>2
  <2>7. CASE Up!NotFetched(q)
    BY <2>0, <2>7, <2>a DEF Up!NotFetched, Up!forward
  <2>8. CASE Up!Post(q)
    <3> DEFINE m == Up!Sealed(upClient[q])
    <3>1. Others /\ Known /\ upPc'[q] = "posted" /\ upClient'[q] = upClient[q] /\ upWire'[q] = m
      BY <2>8 DEF Up!Post, Up!Goes, Up!Sends, Up!oblivious, Up!forward, KeyInv
    <3>2. upClient[q] \in UpRequests
      BY <2>8 DEF Up!Post, Up!Goes
    <3>3. Clean(m, "posted")
      BY <3>2, SealedIsClean
    <3>4. Itself
      BY <2>8, <3>1, <3>2, <3>3 DEF Clean, Up!Post, Up!oblivious, Up!forward, Up!Size, Up!Cost
    <3>5. QED
      BY <2>0, <3>1, <3>4
  <2>9. CASE Up!PostFails(q)
    BY <2>0, <2>9, <2>a DEF Up!PostFails, Up!oblivious, Up!forward
  <2>10. ASSUME NEW response \in Up!Responses(q), Up!PlainAnswer(q, response)
         PROVE  CleanInv'
    <3>1. Up!ServerCookie(response) = {} \/ \E n \in Nat : Up!ServerCookie(response) = {n}
      BY DEF Up!ServerCookie, Up!Responses, Up!ClientCookieLen
    <3>2. Known
      BY <2>10, <3>1 DEF Up!PlainAnswer
    <3>3. QED
      BY <2>0, <2>10, <2>a, <3>2 DEF Up!PlainAnswer, Up!oblivious
  <2>11. ASSUME NEW response, Up!PostAnswer(q, response)
         PROVE  CleanInv'
    BY <2>0, <2>11, <2>a DEF Up!PostAnswer, Up!oblivious, Up!forward
  <2>12. QED
    BY <1>2, <2>1, <2>2, <2>3, <2>4, <2>5, <2>6, <2>7, <2>8, <2>9, <2>10, <2>11 DEF Up!Step
<1>3. CASE UNCHANGED upVars
  BY <1>3 DEF upVars, Clean, Up!Size, Up!Cost
<1>4. QED
  BY <1>1, <1>2, <1>3 DEF Up!Next

(* Whoever is in the clear when the server fails stays mixed, nobody after. *)
LEMMA MixStep ==
  ASSUME KeyInv, CleanInv, MixInv, [Up!Next]_upVars
  PROVE  MixInv'
<1> USE UpAssumption DEF MixInv, KeyInv, CleanInv
<1>1. CASE Up!Rotate
  BY <1>1 DEF Up!Rotate, Up!oblivious, Up!forward
<1>2. ASSUME NEW q \in UpQueries, Up!Step(q)
      PROVE  MixInv'
  <2>1. CASE \E m \in UpRequests, path \in {"forward", "odoh"} : Up!Ask(q, m, path)
    BY <2>1 DEF Up!Ask, Up!Goes, Up!oblivious, Up!forward
  <2>2. CASE Up!SendPlain(q)
    <3>1. /\ upClient[q] \in UpRequests /\ upPc' = [upPc EXCEPT ![q] = "plain"]
          /\ upWire' = [upWire EXCEPT ![q] = Up!Prepared(upClient[q])]
          /\ upLate' = IF upUnmirrored THEN upLate \cup {q} ELSE upLate
          /\ UNCHANGED <<upPrivacy, upDns0x20, upUnmirrored>>
      BY <2>2 DEF Up!SendPlain, Up!Goes, Up!Sends
    <3>2. /\ Clean([Up!Prepared(upClient[q]) EXCEPT !.mixed = FALSE], "plain")
          /\ Up!Prepared(upClient[q]).mixed = upDns0x20
      BY <3>1, PreparedIsClean
    <3>3. QED
      BY <3>1, <3>2
  <2>3. CASE Up!PlainFails(q)
    BY <2>3 DEF Up!PlainFails, Up!Ends, Up!Goes, Up!oblivious, Up!forward
  <2>4. CASE Up!NotMirrored(q)
    BY <2>4 DEF Up!NotMirrored, Up!Goes, Up!Sends
  <2>5. CASE Up!TargetConfig(q)
    BY <2>5 DEF Up!TargetConfig, Up!Goes, Up!forward
  <2>6. CASE Up!Fetched(q)
    BY <2>6 DEF Up!Fetched, Up!Goes, Up!forward
  <2>7. CASE Up!NotFetched(q)
    BY <2>7 DEF Up!NotFetched, Up!Ends, Up!Goes, Up!forward
  <2>8. CASE Up!Post(q)
    BY <2>8 DEF Up!Post, Up!Goes, Up!Sends, Up!oblivious, Up!forward
  <2>9. CASE Up!PostFails(q)
    BY <2>9 DEF Up!PostFails, Up!Ends, Up!Goes, Up!oblivious, Up!forward
  <2>10. ASSUME NEW response, Up!PlainAnswer(q, response)
         PROVE  MixInv'
    BY <2>10 DEF Up!PlainAnswer, Up!Ends, Up!Goes, Up!oblivious
  <2>11. ASSUME NEW response, Up!PostAnswer(q, response)
         PROVE  MixInv'
    BY <2>11 DEF Up!PostAnswer, Up!Ends, Up!Goes, Up!oblivious, Up!forward
  <2>12. QED
    BY <1>2, <2>1, <2>2, <2>3, <2>4, <2>5, <2>6, <2>7, <2>8, <2>9, <2>10, <2>11 DEF Up!Step
<1>3. CASE UNCHANGED upVars
  BY <1>3 DEF upVars
<1>4. QED
  BY <1>1, <1>2, <1>3 DEF Up!Next

(* odoh.rs:116, privacy.rs:1: for any queries, messages, settings and size *)
(* of a block, in whatever order they come and fail, and whatever queries  *)
(* find out from each other's answers.                                     *)
THEOREM UpstreamsLearn == Up!Spec => []UpstreamsLearnLittle
<1> DEFINE Inv == KeyInv /\ CleanInv /\ MixInv
<1>1. Up!Init => Inv
  BY UpAssumption DEF Up!Init, KeyInv, CleanInv, MixInv, UpPlaces, UpSent
<1>2. Inv => Up!KeyIsFetchedOnce
  <2> SUFFICES ASSUME Inv
               PROVE  Up!KeyIsFetchedOnce
    OBVIOUS
  <2>1. \A q \in UpQueries : upPc[q] = "posted" => upWire[q].key = upKey
    BY DEF CleanInv, Clean, UpSent
  <2>2. QED
    BY <2>1 DEF KeyInv, Up!KeyIsFetchedOnce
<1>3. Inv => Up!WhatLeavesIsClean
  <2> SUFFICES ASSUME Inv, NEW q \in UpQueries, upWire[q] # Nil
               PROVE  /\ Clean(upWire[q], upPc[q]) /\ upPc[q] \in UpSent
                      /\ upWire[q].mixed =>
                           upPrivacy.dns0x20 /\ upPc[q] = "plain" /\ q \notin upLate
    BY DEF Up!WhatLeavesIsClean, Clean
  <2>1. Clean(upWire[q], upPc[q]) /\ upPc[q] \in UpSent
    BY DEF CleanInv
  <2>2. QED
    BY <2>1 DEF Clean, MixInv, UpSent
<1>4. Inv => UpstreamsLearnLittle
  BY <1>2, <1>3 DEF UpstreamsLearnLittle
<1>5. Inv /\ [Up!Next]_(Up!vars) => Inv'
  BY KeyStep, CleanStep, MixStep DEF Up!vars, upVars, Up!forward, Up!oblivious
<1>6. QED
  BY <1>1, <1>4, <1>5, PTL DEF Up!Spec

-----------------------------------------------------------------------------
(***************************************************************************)
(* The interface.  Once somebody has been let in, the file holds the token *)
(* he has shown, and no start writes it again; a file that others can read *)
(* and that we are about to write was no text from the beginning.          *)
(***************************************************************************)
TokenInv ==
  /\ DOMAIN webFile = {"is", "was", "text", "open"}
  /\ webFile.is \in {"missing", "binary", "text"} /\ webFile.open \in BOOLEAN
  /\ webProcess \in {"down", "tightening", "opening", "writing", "serving"}
  /\ webStarts \in Nat /\ (webProcess # "down" => webStarts # 0)
  /\ webTold # {} => /\ webTold = {webFile.text} /\ webFile.text # 0 /\ webFile.is = "text"
                     /\ webProcess \in {"down", "tightening", "serving"}
  /\ webProcess = "serving" => webFile.text = webToken
  /\ webProcess \in {"tightening", "writing", "serving"} => webFile.is = "text"
  /\ webProcess \in {"writing", "serving"} => webToken # 0
  /\ webProcess = "opening" /\ webFile.is = "text" => ~webFile.open
  /\ webFile.is = "missing" => ~webFile.open
  /\ webFile.is = "binary" => webFile.was = "binary"
  /\ webProcess \in {"writing", "serving"} /\ webFile.open => webFile.was = "binary"

(* A promise that still holds is in the table as it was made, and nothing  *)
(* is entered, or about to be, for longer than may be asked for.           *)
OrderInv ==
  /\ webNow \in Nat
  /\ DOMAIN webTable = Web!Kinds /\ DOMAIN webPromised = Web!Kinds
  /\ DOMAIN webOrder = WebRequests
  /\ \A k \in Web!Kinds :
       /\ \A n \in DOMAIN webPromised[k] :
            /\ webPromised[k][n] \in Nat
            /\ webPromised[k][n] > webNow =>
                 n \in DOMAIN webTable[k] /\ webTable[k][n] = webPromised[k][n]
       /\ \A n \in DOMAIN webTable[k] :
            webTable[k][n] \in Nat /\ webTable[k][n] <= webNow + WebMaxGrant
  /\ \A r \in WebRequests : \A o \in webOrder[r] :
       o.kind \in Web!Kinds /\ o.until \in Nat /\ o.until <= webNow + WebMaxGrant

LEMMA TokenStep ==
  ASSUME TokenInv, [Web!Next]_webVars
  PROVE  TokenInv'
<1> USE DEF TokenInv
<1>1. CASE Web!Start
  BY <1>1 DEF Web!Start
<1>2. CASE Web!Tighten
  BY <1>2 DEF Web!Tighten
<1>3. CASE Web!Create
  BY <1>3 DEF Web!Create, Web!CutOff
<1>4. CASE Web!Write
  BY <1>4 DEF Web!Write
<1>5. CASE Web!End
  BY <1>5 DEF Web!End
<1>6. ASSUME UNCHANGED <<webFile, webProcess, webToken, webStarts, webTold>>
      PROVE  TokenInv'
  BY <1>6
<1>7. ASSUME NEW r \in WebRequests, NEW presented, Web!Admitted(r, presented)
      PROVE  TokenInv'
  BY <1>7 DEF Web!Admitted, Web!Authenticated
<1>8. ASSUME NEW r \in WebRequests,
             Web!Enter(r) \/ \E host \in WebHosts : Web!Page(r, host)
      PROVE  TokenInv'
  BY <1>6, <1>8 DEF Web!Enter, Web!Page, Web!tokenVars
<1>9. ASSUME NEW r \in WebRequests, NEW presented,
             \/ Web!Refuse(r, presented) \/ \E c : Web!Read(r, presented, c)
             \/ \E k, d : Web!Withdraw(r, presented, k, d)
             \/ \E k, d, s : Web!Order(r, presented, k, d, s)
      PROVE  TokenInv'
  BY <1>6, <1>7, <1>9 DEF Web!Refuse, Web!Read, Web!Withdraw, Web!Order, Web!tokenVars
<1>10. CASE Web!Tick \/ UNCHANGED webVars
  BY <1>6, <1>10 DEF Web!Tick, Web!tokenVars, webVars
<1>11. QED
  BY <1>1, <1>2, <1>3, <1>4, <1>5, <1>8, <1>9, <1>10 DEF Web!Next

LEMMA WebSameSize ==
  \A S : Web!Cardinality(S) = Cardinality(S)
BY DEF Web!Cardinality, Cardinality

LEMMA MinOfTwo ==
  ASSUME NEW a \in Nat, NEW b \in Nat
  PROVE  Web!Min({a, b}) \in Nat /\ Web!Min({a, b}) <= b
<1>1. \E x \in {a, b} : \A y \in {a, b} : x <= y
  OBVIOUS
<1>2. QED
  BY <1>1 DEF Web!Min

(* What one order takes away from another: nothing that still holds. *)
LEMMA EnterStep ==
  ASSUME OrderInv, NEW r \in WebRequests, Web!Enter(r)
  PROVE  OrderInv'
<1> PICK o \in webOrder[r] :
      /\ webTable' = [webTable EXCEPT ![o.kind] = Web!Entered(@, o)]
      /\ webPromised' = [webPromised EXCEPT ![o.kind] = Web!Put(@, o)]
      /\ webOrder' = [webOrder EXCEPT ![r] = {}]
      /\ webNow' = webNow
  BY DEF Web!Enter
<1>1. o.kind \in Web!Kinds /\ o.until \in Nat /\ o.until <= webNow + WebMaxGrant
  BY DEF OrderInv
<1> DEFINE t == webTable[o.kind]
           p == webPromised[o.kind]
<1>2. /\ webTable'[o.kind] = Web!Entered(t, o) /\ webPromised'[o.kind] = Web!Put(p, o)
      /\ \A k \in Web!Kinds \ {o.kind} :
           webTable'[k] = webTable[k] /\ webPromised'[k] = webPromised[k]
      /\ DOMAIN webTable' = Web!Kinds /\ DOMAIN webPromised' = Web!Kinds
  BY <1>1 DEF OrderInv
<1>3. \A n \in DOMAIN Web!Put(p, o) :
        /\ Web!Put(p, o)[n] \in Nat
        /\ Web!Put(p, o)[n] > webNow =>
             n \in DOMAIN Web!Entered(t, o) /\ Web!Entered(t, o)[n] = Web!Put(p, o)[n]
  BY <1>1 DEF OrderInv, Web!Put, Web!Entered
<1>4. \A n \in DOMAIN Web!Entered(t, o) :
        Web!Entered(t, o)[n] \in Nat /\ Web!Entered(t, o)[n] <= webNow + WebMaxGrant
  BY <1>1 DEF OrderInv, Web!Put, Web!Entered
<1>5. ASSUME NEW k \in Web!Kinds
      PROVE  /\ \A n \in DOMAIN webPromised'[k] :
                  /\ webPromised'[k][n] \in Nat
                  /\ webPromised'[k][n] > webNow =>
                       n \in DOMAIN webTable'[k] /\ webTable'[k][n] = webPromised'[k][n]
             /\ \A n \in DOMAIN webTable'[k] :
                  webTable'[k][n] \in Nat /\ webTable'[k][n] <= webNow + WebMaxGrant
  <2>1. CASE k = o.kind
    BY <1>2, <1>3, <1>4, <2>1
  <2>2. CASE k # o.kind
    BY <1>2, <2>2 DEF OrderInv
  <2>3. QED
    BY <2>1, <2>2
<1>6. QED
  BY <1>2, <1>5 DEF OrderInv

LEMMA OrderStep ==
  ASSUME OrderInv, [Web!Next]_webVars
  PROVE  OrderInv'
<1> USE DEF OrderInv
<1>1. ASSUME UNCHANGED <<webNow, webTable, webOrder, webPromised>>
      PROVE  OrderInv'
  BY <1>1
<1>2. CASE Web!Tick
  BY <1>2, WebAssumption DEF Web!Tick, Web!orderVars
<1>3. CASE Web!Start \/ Web!Tighten \/ Web!Create \/ Web!Write \/ UNCHANGED webVars
  BY <1>1, <1>3 DEF Web!Start, Web!Tighten, Web!Create, Web!Write, Web!orderVars, webVars
<1>4. CASE Web!End
  BY <1>4 DEF Web!End, Web!NoTables, Web!Kinds
<1>5. ASSUME NEW r \in WebRequests, NEW presented,
             \/ \E host \in WebHosts : Web!Page(r, host)
             \/ Web!Refuse(r, presented) \/ \E c : Web!Read(r, presented, c)
      PROVE  OrderInv'
  BY <1>1, <1>5 DEF Web!Page, Web!Refuse, Web!Read, Web!Admitted, Web!orderVars
<1>6. ASSUME NEW r \in WebRequests, NEW presented, NEW kind \in Web!Kinds, NEW domain,
             Web!Withdraw(r, presented, kind, domain)
      PROVE  OrderInv'
  <2>1. /\ webTable' = [webTable EXCEPT ![kind] = Web!Without(@, domain.name)]
        /\ webPromised' = [webPromised EXCEPT ![kind] = Web!Without(@, domain.name)]
        /\ webNow' = webNow /\ webOrder' = webOrder
    BY <1>6 DEF Web!Withdraw, Web!Admitted
  <2>2. QED
    BY <2>1 DEF Web!Without
<1>7. ASSUME NEW r \in WebRequests, NEW presented, NEW kind \in Web!Kinds, NEW domain,
             NEW seconds \in WebSeconds, Web!Order(r, presented, kind, domain, seconds)
      PROVE  OrderInv'
  <2> DEFINE parsed == Web!ParseGrant(domain, seconds)
             new == {[kind |-> kind, name |-> p.name, ttl |-> p.ttl, until |-> webNow + p.ttl] :
                       p \in parsed}
  <2>1. \A p \in parsed : p.ttl \in Nat /\ p.ttl <= WebMaxGrant
    BY WebAssumption, MinOfTwo DEF Web!ParseGrant
  <2>2. /\ webOrder' = [webOrder EXCEPT ![r] = new]
        /\ UNCHANGED <<webNow, webTable, webPromised>>
    BY <1>7 DEF Web!Order, Web!Admitted
  <2>3. \A o \in new : o.kind \in Web!Kinds /\ o.until \in Nat /\ o.until <= webNow + WebMaxGrant
    BY <2>1, WebAssumption
  <2> HIDE DEF new
  <2>4. QED
    BY <2>2, <2>3
<1>8. QED
  BY <1>2, <1>3, <1>4, <1>5, <1>6, <1>7, EnterStep DEF Web!Next

(* main.rs:954, api/mod.rs:553: for any requests, orders, files and        *)
(* starts, and whenever the process is killed.                             *)
THEOREM ApiKeeps == Web!Spec => []ApiKeepsItsWord
<1>1. Web!Init => TokenInv /\ OrderInv
  BY WebAssumption DEF Web!Init, TokenInv, OrderInv, Web!NoTables, Web!Kinds
<1>2. TokenInv => Web!TokenSurvives
  <2> SUFFICES ASSUME TokenInv PROVE Web!TokenSurvives
    OBVIOUS
  <2>1. Cardinality(webTold) <= 1
    <3>1. \A x : Cardinality({x}) = 1
      BY FS_Singleton
    <3>2. webTold = {} \/ \E x : webTold = {x}
      BY DEF TokenInv
    <3>3. CASE webTold = {}
      BY <3>3, FS_EmptySet
    <3>4. CASE \E x : webTold = {x}
      BY <3>1, <3>4
    <3>5. QED
      BY <3>2, <3>3, <3>4
  <2>2. QED
    BY <2>1, WebSameSize DEF TokenInv, Web!TokenSurvives
<1>3. OrderInv => Web!OrdersHold
  BY WebAssumption DEF OrderInv, Web!OrdersHold, Web!Active
<1>4. TokenInv /\ OrderInv => ApiKeepsItsWord
  BY <1>2, <1>3 DEF ApiKeepsItsWord
<1>5. TokenInv /\ OrderInv /\ [Web!Next]_(Web!vars) => TokenInv' /\ OrderInv'
  BY TokenStep, OrderStep DEF Web!vars, webVars, Web!tokenVars, Web!orderVars
<1>6. QED
  BY <1>1, <1>4, <1>5, PTL DEF Web!Spec

-----------------------------------------------------------------------------
(***************************************************************************)
(* Tunneling.  As long as nothing has overflowed, a window has counted     *)
(* what it has seen; once something has, it has tracked as many subdomains *)
(* as it can, and those are enough for the whole score.                    *)
(***************************************************************************)
Faithful(w, subs) ==
  /\ {"unique", "overflow"} \subseteq DOMAIN w
  /\ IsFiniteSet(subs) /\ w.unique \subseteq subs /\ w.overflow \in Nat
  /\ w.overflow = 0 => w.unique = subs
  /\ w.overflow > 0 => Cardinality(w.unique) >= FlowMaxUniqueTracked

FlowInv ==
  /\ DOMAIN flowSeen = DOMAIN flowWindows
  /\ \A z \in DOMAIN flowWindows : Faithful(flowWindows[z], flowSeen[z])
  /\ \A f \in flowFinding :
       f.zone \in DOMAIN flowSeen /\ Cardinality(flowSeen[f.zone]) >= FlowMinUnique

LEMMA FlowSameSize ==
  \A S : Flow!Cardinality(S) = Cardinality(S)
BY DEF Flow!Cardinality, Cardinality

(* A window that is faithful gives the volume of what it has seen. *)
LEMMA FaithfulVolume ==
  ASSUME NEW w, NEW subs, Faithful(w, subs)
  PROVE  /\ Flow!Volume(Flow!UniqueCount(w)) = Flow!Volume(Cardinality(subs))
         /\ Flow!UniqueCount(w) >= FlowMinUnique => Cardinality(subs) >= FlowMinUnique
<1>1. /\ IsFiniteSet(w.unique) /\ Cardinality(w.unique) \in Nat /\ Cardinality(subs) \in Nat
      /\ Cardinality(w.unique) <= Cardinality(subs)
  BY FS_Subset, FS_CardinalityType DEF Faithful
<1>2. Flow!UniqueCount(w) = Cardinality(w.unique) + w.overflow /\ w.overflow \in Nat
  BY FlowSameSize DEF Flow!UniqueCount, Faithful
<1>3. CASE w.overflow = 0
  <2>1. Flow!UniqueCount(w) = Cardinality(subs)
    BY <1>1, <1>2, <1>3 DEF Faithful
  <2>2. QED
    BY <2>1
<1>4. CASE w.overflow > 0
  <2>1. Cardinality(w.unique) >= FlowMaxUniqueTracked
    BY <1>4 DEF Faithful
  <2>2. \A n \in Nat : n >= FlowFullUnique => Flow!Volume(n) = 1000
    BY FlowAssumption DEF Flow!Volume, Flow!Clamp
  <2>3. Flow!UniqueCount(w) \in Nat /\ Flow!UniqueCount(w) >= FlowFullUnique
    BY <1>1, <1>2, <2>1, FlowAssumption
  <2>4. Cardinality(subs) >= FlowFullUnique
    BY <1>1, <2>1, FlowAssumption
  <2>5. QED
    BY <1>1, <2>2, <2>3, <2>4, FlowAssumption
<1>5. QED
  BY <1>2, <1>3, <1>4

LEMMA CountedFaithfully ==
  ASSUME NEW w, NEW subs, Faithful(w, subs), NEW o
  PROVE  Faithful(Flow!Counted(w, o), {Flow!Subdomain(o.name)} \cup subs)
<1> DEFINE sub == Flow!Subdomain(o.name)
           n == Flow!Counted(w, o)
           tracked == Cardinality(w.unique) < FlowMaxUniqueTracked
<1>1. IsFiniteSet({sub} \cup subs)
  BY FS_AddElement DEF Faithful
<1>2. /\ {"unique", "overflow"} \subseteq DOMAIN n
      /\ n.unique = IF tracked THEN w.unique \cup {sub} ELSE w.unique
      /\ n.overflow = w.overflow + (IF tracked THEN 0 ELSE 1)
  BY FlowSameSize DEF Flow!Counted, Faithful
<1>3. IsFiniteSet(w.unique) /\ Cardinality(w.unique) \in Nat
  BY FS_Subset, FS_CardinalityType DEF Faithful
<1> HIDE DEF n, sub
<1>4. CASE tracked
  <2>1. n.unique = w.unique \cup {sub} /\ n.overflow = 0 /\ w.overflow = 0
    BY <1>2, <1>3, <1>4, FlowAssumption DEF Faithful
  <2>2. QED
    BY <1>1, <1>2, <2>1 DEF Faithful, sub, n
<1>5. CASE ~tracked
  <2>1. n.unique = w.unique /\ n.overflow = w.overflow + 1
    BY <1>2, <1>5
  <2>2. QED
    BY <1>1, <1>2, <1>3, <1>5, <2>1, FlowAssumption DEF Faithful, sub, n
<1>6. QED
  BY <1>4, <1>5

LEMMA InspectStep ==
  ASSUME FlowInv, NEW t \in FlowThreads, Flow!Inspect(t)
  PROVE  FlowInv'
<1> PICK x \in flowThread[t] :
      LET o == x.query
          zone == Flow!ZoneOf(o.name)
          open == Flow!Open(x.read)
      IN  \E gone \in Flow!Evict(open, zone) :
            LET kept == open \ gone
                before == IF zone \in kept THEN flowWindows[zone] ELSE Flow!NewWindow(x.read)
                w == Flow!Counted(before, o)
            IN  /\ flowWindows' = [z \in kept \cup {zone} |-> IF z = zone THEN w ELSE flowWindows[z]]
                /\ flowSeen' = [z \in kept \cup {zone} |->
                                  IF z # zone THEN flowSeen[z]
                                  ELSE {Flow!Subdomain(o.name)}
                                         \cup IF z \in kept THEN flowSeen[z] ELSE {}]
                /\ flowFinding' =
                     IF Flow!UniqueCount(w) < FlowMinUnique \/ Flow!ScoreWindow(w) = 0 THEN {}
                     ELSE {[zone |-> zone, score |-> Flow!ScoreWindow(w)]}
  BY DEF Flow!Inspect
<1> DEFINE o == x.query
           zone == Flow!ZoneOf(o.name)
           open == Flow!Open(x.read)
<1> PICK gone \in Flow!Evict(open, zone) :
      LET kept == open \ gone
          before == IF zone \in kept THEN flowWindows[zone] ELSE Flow!NewWindow(x.read)
          w == Flow!Counted(before, o)
      IN  /\ flowWindows' = [z \in kept \cup {zone} |-> IF z = zone THEN w ELSE flowWindows[z]]
          /\ flowSeen' = [z \in kept \cup {zone} |->
                            IF z # zone THEN flowSeen[z]
                            ELSE {Flow!Subdomain(o.name)}
                                   \cup IF z \in kept THEN flowSeen[z] ELSE {}]
          /\ flowFinding' =
               IF Flow!UniqueCount(w) < FlowMinUnique \/ Flow!ScoreWindow(w) = 0 THEN {}
               ELSE {[zone |-> zone, score |-> Flow!ScoreWindow(w)]}
  OBVIOUS
<1> DEFINE kept == open \ gone
           before == IF zone \in kept THEN flowWindows[zone] ELSE Flow!NewWindow(x.read)
           subs == IF zone \in kept THEN flowSeen[zone] ELSE {}
           w == Flow!Counted(before, o)
           now == {Flow!Subdomain(o.name)} \cup subs
<1>1. kept \subseteq DOMAIN flowWindows
  BY DEF Flow!Open
<1>2. Faithful(before, subs)
  <2>1. CASE zone \in kept
    BY <1>1, <2>1 DEF FlowInv
  <2>2. CASE zone \notin kept
    BY <2>2, FS_EmptySet DEF Faithful, Flow!NewWindow
  <2>3. QED
    BY <2>1, <2>2
<1>3. Faithful(w, now)
  BY <1>2, CountedFaithfully
<1>4. /\ DOMAIN flowWindows' = kept \cup {zone} /\ DOMAIN flowSeen' = kept \cup {zone}
      /\ flowWindows'[zone] = w /\ flowSeen'[zone] = now
      /\ \A z \in kept \ {zone} : flowWindows'[z] = flowWindows[z] /\ flowSeen'[z] = flowSeen[z]
      /\ \A f \in flowFinding' : f.zone = zone /\ ~ (Flow!UniqueCount(w) < FlowMinUnique)
  OBVIOUS
<1> HIDE DEF w, now, kept, zone
<1>5. \A z \in DOMAIN flowWindows' : Faithful(flowWindows'[z], flowSeen'[z])
  BY <1>1, <1>3, <1>4 DEF FlowInv
<1>6. Flow!UniqueCount(w) \in Nat
  <2>1. Cardinality(w.unique) \in Nat /\ w.overflow \in Nat
    BY <1>3, FS_Subset, FS_CardinalityType DEF Faithful
  <2>2. QED
    BY <2>1, FlowSameSize DEF Flow!UniqueCount
<1>7. \A f \in flowFinding' :
        f.zone \in DOMAIN flowSeen' /\ Cardinality(flowSeen'[f.zone]) >= FlowMinUnique
  <2>1. Flow!UniqueCount(w) >= FlowMinUnique => Cardinality(now) >= FlowMinUnique
    BY <1>3, FaithfulVolume
  <2>2. SUFFICES ASSUME NEW f \in flowFinding'
                 PROVE  f.zone \in DOMAIN flowSeen' /\ Cardinality(flowSeen'[f.zone]) >= FlowMinUnique
    OBVIOUS
  <2>3. f.zone = zone /\ Cardinality(now) >= FlowMinUnique
    BY <1>4, <1>6, <2>1, FlowAssumption
  <2>4. flowSeen'[f.zone] = now /\ f.zone \in DOMAIN flowSeen'
    BY <1>4, <2>3
  <2>5. QED
    BY <2>3, <2>4
<1>8. QED
  BY <1>4, <1>5, <1>7 DEF FlowInv, Faithful

(* detect/tunneling.rs:106: for any queries, zones and size of a window,   *)
(* and however the threads overtake one another.                           *)
THEOREM VolumeTrue == Flow!Spec => []VolumeIsTrue
<1>1. Flow!Init => FlowInv
  BY DEF Flow!Init, FlowInv
<1>2. FlowInv => VolumeIsTrue
  <2> SUFFICES ASSUME FlowInv PROVE Flow!VolumeIsTrue
    BY DEF VolumeIsTrue
  <2>1. ASSUME NEW z \in DOMAIN flowWindows
        PROVE  Flow!Volume(Flow!UniqueCount(flowWindows[z])) = Flow!Volume(Cardinality(flowSeen[z]))
    BY FaithfulVolume DEF FlowInv
  <2>2. QED
    BY <2>1, FlowSameSize DEF FlowInv, Flow!VolumeIsTrue
<1>3. FlowInv /\ [Flow!Next]_(Flow!vars) => FlowInv'
  <2> SUFFICES ASSUME FlowInv, [Flow!Next]_(Flow!vars) PROVE FlowInv'
    OBVIOUS
  <2>1. CASE UNCHANGED <<flowWindows, flowSeen, flowFinding>>
    BY <2>1 DEF FlowInv, Faithful
  <2>2. QED
    BY <2>1, InspectStep DEF Flow!Next, Flow!Tick, Flow!ReadClock, Flow!vars
<1>4. QED
  BY <1>1, <1>2, <1>3, PTL DEF Flow!Spec

-----------------------------------------------------------------------------
(***************************************************************************)
(* The start.  A stage is reached only if what those before it are for is  *)
(* there: a file that is right, then lists, rules, sockets, the updater.   *)
(***************************************************************************)
LifeStages ==
  {"load", "assemble", "log", "lists", "rules", "dns", "tasks", "api", "metrics", "page",
   "updater", "hangup", "signals", "serve"}

LifeEnds == {"failed", "killed", "stopped"}

LifeLate == {"hangup", "signals", "serve"}
LifeBound == {"tasks", "api", "metrics", "page", "updater"} \cup LifeLate
LifeRuled == {"dns"} \cup LifeBound
LifeListed == {"rules"} \cup LifeRuled

(* What a socket is for. *)
Wanted(c, s) ==
  \/ s.addr \in Life!Range(c.server.listen_udp \o c.server.listen_tcp)
  \/ c.api.enabled /\ s.addr = c.api.listen
  \/ c.metrics.enabled /\ s.addr = c.metrics.listen
  \/ c.block_page.enabled /\ s = [proto |-> "tcp", addr |-> c.block_page.listen]

Ruled(c, loaded) == Life!Builds(c, loaded) /\ Life!Specs(c) \subseteq loaded

LifeOrder(file, config, fetched, stage, sockets, tasks) ==
  /\ file \in LifeConfigs /\ config = Life!Complete(file)
  /\ stage \in LifeStages \cup LifeEnds
  /\ stage \in LifeStages \ {"load"} => Life!Accepted(file)
  /\ stage \in LifeListed => Life!Specs(config) \subseteq fetched
  /\ stage \in LifeRuled => Life!Builds(config, fetched)
  /\ stage \in LifeBound => sockets # {}
  /\ stage \in LifeLate => "updater" \in tasks
  /\ "updater" \in tasks => stage \in LifeLate \cup LifeEnds
  /\ "page" \in tasks => config.block_page.enabled
  /\ \A s \in sockets : Wanted(config, s)

(* Whatever is answered is recorded, in memory or on the disk, and by rules *)
(* whose lists are loaded.                                                 *)
LifeRecord(config, fetched, stage, round, inflight, answered, buffered, written, lost) ==
  /\ round # "refused"
  /\ inflight \cup answered # {} => Ruled(config, fetched)
  /\ IsFiniteSet(answered) /\ buffered \in Nat /\ written \in Nat /\ lost \in Nat
  /\ Life!KeepsLog(config) => Cardinality(answered) <= written + buffered + lost
  /\ ~Life!KeepsLog(config) => written = 0 /\ buffered = 0
  /\ stage = "stopped" => buffered = 0

LifeInv ==
  /\ LifeOrder(lifeFile, lifeConfig, lifeFetched, lifeStage, lifeSockets, lifeTasks)
  /\ LifeRecord(lifeConfig, lifeFetched, lifeStage, lifeRound, lifeInflight, lifeAnswered,
                lifeBuffered, lifeWritten, lifeLost)

LEMMA LifeSameSize == \A S : Life!Cardinality(S) = Cardinality(S)
BY DEF Life!Cardinality, Cardinality

(* The stages, in their order. *)
LEMMA Follows ==
  /\ Life!Range(Life!Stages) = LifeStages
  /\ Life!After("load") = "assemble" /\ Life!After("assemble") = "log"
  /\ Life!After("log") = "lists" /\ Life!After("lists") = "rules"
  /\ Life!After("rules") = "dns" /\ Life!After("dns") = "tasks"
  /\ Life!After("tasks") = "api" /\ Life!After("api") = "metrics"
  /\ Life!After("metrics") = "page" /\ Life!After("page") = "updater"
  /\ Life!After("updater") = "hangup" /\ Life!After("hangup") = "signals"
  /\ Life!After("signals") = "serve"
<1> DEFINE t == Life!Stages
<1>1. /\ DOMAIN t = 1 .. 14
      /\ t[1] = "load" /\ t[2] = "assemble" /\ t[3] = "log" /\ t[4] = "lists" /\ t[5] = "rules"
      /\ t[6] = "dns" /\ t[7] = "tasks" /\ t[8] = "api" /\ t[9] = "metrics" /\ t[10] = "page"
      /\ t[11] = "updater" /\ t[12] = "hangup" /\ t[13] = "signals" /\ t[14] = "serve"
  BY DEF Life!Stages
<1>2. \A i \in 1 .. 14 : \/ i = 1 \/ i = 2 \/ i = 3 \/ i = 4 \/ i = 5 \/ i = 6 \/ i = 7
                         \/ i = 8 \/ i = 9 \/ i = 10 \/ i = 11 \/ i = 12 \/ i = 13 \/ i = 14
  OBVIOUS
<1> HIDE DEF t
<1>3. \A i, j \in 1 .. 14 : t[i] = t[j] => i = j
  BY <1>1, <1>2
<1>4. ASSUME NEW i \in 1 .. 14, i # 14
      PROVE  Life!After(t[i]) = t[1 + i]
  <2>1. (CHOOSE j \in DOMAIN t : t[j] = t[i]) = i
    BY <1>1, <1>3
  <2>2. QED
    BY <2>1 DEF Life!After, t
<1>5. Life!Range(t) = LifeStages
  <2>1. \A s \in LifeStages : \E i \in 1 .. 14 : t[i] = s
    BY <1>1 DEF LifeStages
  <2>2. \A i \in 1 .. 14 : t[i] \in LifeStages
    BY <1>1, <1>2 DEF LifeStages
  <2>3. QED
    BY <1>1, <2>1, <2>2 DEF Life!Range
<1>6. QED
  <2>1. \A i \in 1 .. 13 : i \in 1 .. 14 /\ i # 14
    OBVIOUS
  <2>2. \A i \in 1 .. 13 : Life!After(t[i]) = t[1 + i]
    BY <1>4, <2>1
  <2>3. /\ Life!After(t[1]) = t[2] /\ Life!After(t[2]) = t[3] /\ Life!After(t[3]) = t[4]
        /\ Life!After(t[4]) = t[5] /\ Life!After(t[5]) = t[6] /\ Life!After(t[6]) = t[7]
        /\ Life!After(t[7]) = t[8] /\ Life!After(t[8]) = t[9] /\ Life!After(t[9]) = t[10]
        /\ Life!After(t[10]) = t[11] /\ Life!After(t[11]) = t[12]
        /\ Life!After(t[12]) = t[13] /\ Life!After(t[13]) = t[14]
    BY <2>2
  <2>4. QED
    BY <1>1, <1>5, <2>3 DEF t

(* A table of the file, with what holds for what is not in it. *)
LEMMA TableIs ==
  ASSUME NEW f, NEW key \in Life!Tables
  PROVE  Life!Complete(f)[key] =
           Life!Filled(IF key \in DOMAIN f THEN f[key] ELSE <<>>, Life!TableDefaults[key])
BY DEF Life!Complete

LEMMA DefaultsAre ==
  /\ {"api", "metrics", "block_page", "server", "privacy.logging", "detection.typosquat",
      "detection.nrd"} \subseteq Life!Tables
  /\ Life!TableDefaults["api"] = Life!ApiDefaults
  /\ Life!TableDefaults["metrics"] = Life!MetricsDefaults
  /\ Life!TableDefaults["block_page"] = Life!BlockPageDefaults
  /\ Life!TableDefaults["server"] = Life!ServerDefaults
  /\ Life!TableDefaults["privacy.logging"] = Life!LoggingDefaults
  /\ Life!TableDefaults["detection.typosquat"] = Life!DetectionDefaults["typosquat"]
  /\ Life!TableDefaults["detection.nrd"] = Life!DetectionDefaults["nrd"]
<1>1. /\ Life!TableOf["typosquat"] = "detection.typosquat" /\ Life!TableOf["nrd"] = "detection.nrd"
      /\ \A d \in Life!Detectors :
           /\ Life!TableOf[d] = "detection.typosquat" => d = "typosquat"
           /\ Life!TableOf[d] = "detection.nrd" => d = "nrd"
      /\ "typosquat" \in Life!Detectors /\ "nrd" \in Life!Detectors
  BY DEF Life!TableOf, Life!Detectors
<1>2. {"api", "metrics", "block_page", "server", "privacy.logging", "detection.typosquat",
       "detection.nrd"} \subseteq Life!Tables
  BY <1>1 DEF Life!Tables
<1>3. /\ (CHOOSE d \in Life!Detectors : Life!TableOf[d] = "detection.typosquat") = "typosquat"
      /\ (CHOOSE d \in Life!Detectors : Life!TableOf[d] = "detection.nrd") = "nrd"
  BY <1>1
<1>4. QED
  BY <1>2, <1>3 DEF Life!TableDefaults

LEMMA FilledIs ==
  ASSUME NEW table, NEW defaults, NEW k, k \in DOMAIN table \cup DOMAIN defaults
  PROVE  Life!Filled(table, defaults)[k] = IF k \in DOMAIN table THEN table[k] ELSE defaults[k]
BY DEF Life!Filled

(* What is switched on, or kept in full, is so because the file says so.   *)
LEMMA AskedFor ==
  ASSUME NEW f \in LifeConfigs, lifeFile = f
  PROVE  /\ \A e \in {"api", "metrics", "block_page"} :
              Life!Complete(f)[e].enabled => Life!Says(e, "enabled", TRUE)
         /\ Life!Complete(f)["privacy.logging"].mode = "full" =>
              Life!Says("privacy.logging", "mode", "full")
<1> DEFINE table(key) == IF key \in DOMAIN f THEN f[key] ELSE <<>>
<1>1. ASSUME NEW key, key \notin DOMAIN f, NEW k PROVE k \notin DOMAIN table(key) \/ k \in Nat
  BY <1>1
<1>2. ASSUME NEW e \in {"api", "metrics", "block_page"}, Life!Complete(f)[e].enabled
      PROVE  Life!Says(e, "enabled", TRUE)
  <2>1. "enabled" \in DOMAIN Life!TableDefaults[e] /\ Life!TableDefaults[e].enabled = FALSE
    BY DefaultsAre DEF Life!ApiDefaults, Life!MetricsDefaults, Life!BlockPageDefaults
  <2> DEFINE t == table(e)
             d == Life!TableDefaults[e]
  <2>0. Life!Complete(f)[e] = Life!Filled(t, d)
    BY TableIs, DefaultsAre
  <2> HIDE DEF t, d
  <2>2. "enabled" \in DOMAIN d
    BY <2>1 DEF d
  <2>3. Life!Filled(t, d)["enabled"] =
          IF "enabled" \in DOMAIN t THEN t["enabled"] ELSE d["enabled"]
    BY <2>2, FilledIs
  <2>4. Life!Complete(f)[e].enabled => "enabled" \in DOMAIN t /\ t.enabled
    BY <2>0, <2>1, <2>3 DEF d
  <2> USE DEF t
  <2>5. "enabled" \in DOMAIN table(e) /\ table(e).enabled
    BY <1>2, <2>4
  <2>6. e \in DOMAIN f
    BY <2>5
  <2>7. f[e].enabled = TRUE
    BY <2>5, <2>6, LifeAssumption
  <2>8. QED
    BY <2>5, <2>6, <2>7 DEF Life!Says
<1>3. ASSUME Life!Complete(f)["privacy.logging"].mode = "full"
      PROVE  Life!Says("privacy.logging", "mode", "full")
  <2> DEFINE e == "privacy.logging"
  <2>1. "mode" \in DOMAIN Life!TableDefaults[e] /\ Life!TableDefaults[e].mode = "aggregate"
    BY DefaultsAre DEF Life!LoggingDefaults
  <2>2. Life!Complete(f)[e].mode =
          IF "mode" \in DOMAIN table(e) THEN table(e).mode ELSE "aggregate"
    BY <2>1, TableIs, FilledIs, DefaultsAre
  <2>3. "mode" \in DOMAIN table(e) /\ table(e).mode = "full"
    BY <1>3, <2>2
  <2>4. QED
    BY <2>3 DEF Life!Says
<1>4. QED
  BY <1>2, <1>3

(* Lists, and one after another. *)
LEMMA ListedIs ==
  ASSUME NEW list
  PROVE  /\ Listed(list) <=> \E S : list \in Seq(S)
         /\ Listed(list) <=> \E n \in Nat : list = [i \in 1 .. n |-> list[i]]
<1> DEFINE T == {list[i] : i \in DOMAIN list}
<1>1. ASSUME NEW S, list \in Seq(S)
      PROVE  \E n \in Nat : list = [i \in 1 .. n |-> list[i]]
  BY <1>1
<1>2. ASSUME NEW n \in Nat, list = [i \in 1 .. n |-> list[i]]
      PROVE  list \in Seq(T)
  <2>1. DOMAIN list = 1 .. n
    BY <1>2
  <2>2. \A i \in 1 .. n : list[i] \in T
    BY <2>1
  <2> HIDE DEF T
  <2>3. QED
    BY <1>2, <2>2
<1> HIDE DEF T
<1>3. list \in Seq(T) => \E S : list \in Seq(S)
  OBVIOUS
<1>4. QED
  BY <1>1, <1>2, <1>3 DEF Listed, T

LEMMA Joined ==
  ASSUME NEW S, NEW a \in Seq(S), NEW b \in Seq(S)
  PROVE  /\ DOMAIN (a \o b) = 1 .. (Len(a) + Len(b))
         /\ \A i \in 1 .. (Len(a) + Len(b)) :
              (a \o b)[i] = IF i <= Len(a) THEN a[i] ELSE b[i - Len(a)]
OBVIOUS

LEMMA ListedTogether ==
  ASSUME NEW a, NEW b, Listed(a), Listed(b)
  PROVE  \E S : a \in Seq(S) /\ b \in Seq(S)
<1>1. PICK S : a \in Seq(S)
  BY ListedIs
<1>2. PICK T : b \in Seq(T)
  BY ListedIs
<1>3. a \in Seq(S \cup T) /\ b \in Seq(S \cup T)
  BY <1>1, <1>2
<1>4. QED
  BY <1>3

(* The lists of a configuration are lists, and their intervals numbers. *)
LEMMA ListsAre ==
  ASSUME NEW f \in LifeConfigs
  PROVE  LET c == Life!Complete(f)
         IN  /\ Listed(c.server.listen_udp) /\ Listed(c.server.listen_tcp)
             /\ Listed(c.blocklist) /\ Listed(c.allowlist)
             /\ \A l \in {"blocklist", "allowlist"} : \A i \in DOMAIN c[l] : c[l][i].refresh \in Nat
<1> DEFINE c == Life!Complete(f)
<1>1. Listed(<<>>)
  <2>1. <<>> \in Seq({})
    OBVIOUS
  <2>2. QED
    BY <2>1, ListedIs
<1>2. ASSUME NEW l \in {"listen_udp", "listen_tcp"}
      PROVE  Listed(c.server[l])
  <2> DEFINE t == IF "server" \in DOMAIN f THEN f["server"] ELSE <<>>
             d == Life!TableDefaults["server"]
  <2>1. l \in DOMAIN d /\ d[l] = <<>>
    BY DefaultsAre DEF Life!ServerDefaults
  <2>2. c.server = Life!Filled(t, d)
    BY TableIs, DefaultsAre
  <2>3. l \in DOMAIN t => "server" \in DOMAIN f /\ t = f["server"]
    OBVIOUS
  <2> HIDE DEF t, d, c
  <2>4. c.server[l] = IF l \in DOMAIN t THEN t[l] ELSE <<>>
    BY <2>1, <2>2, FilledIs
  <2>5. l \in DOMAIN t => Listed(t[l])
    BY <2>3, LifeAssumption
  <2>6. QED
    BY <1>1, <2>4, <2>5
<1>3. ASSUME NEW l \in {"blocklist", "allowlist"}
      PROVE  Listed(c[l]) /\ \A i \in DOMAIN c[l] : c[l][i].refresh \in Nat
  <2> DEFINE list == IF l \in DOMAIN f THEN f[l] ELSE <<>>
             d == Life!ListDefaults
  <2>1. l \in DOMAIN Life!EntryDefaults /\ l \notin Life!Tables /\ Life!EntryDefaults[l] = d
    BY DEF Life!EntryDefaults, Life!Tables, Life!TableOf, Life!Detectors
  <2>2. c[l] = [i \in DOMAIN list |-> Life!Filled(list[i], d)]
    BY <2>1 DEF Life!Complete, Life!Completed
  <2>3. Listed(list)
    BY <1>1, LifeAssumption
  <2>4. \A i \in DOMAIN list : "refresh" \in DOMAIN list[i] => list[i].refresh \in Nat
    BY LifeAssumption
  <2>5. "refresh" \in DOMAIN d /\ d.refresh \in Nat
    BY DEF Life!ListDefaults, Life!OneDay
  <2> HIDE DEF c, list, d
  <2>6. \A i \in DOMAIN list : Life!Filled(list[i], d).refresh \in Nat
    BY <2>4, <2>5, FilledIs
  <2>7. PICK n \in Nat : list = [i \in 1 .. n |-> list[i]]
    BY <2>3, ListedIs
  <2>8. c[l] = [i \in 1 .. n |-> c[l][i]]
    BY <2>2, <2>7
  <2>9. QED
    BY <2>2, <2>6, <2>8, ListedIs
<1>4. QED
  BY <1>2, <1>3

(* The updater's interval is not nought: neither a day is, nor that of a   *)
(* list that is switched on.                                               *)
LEMMA RefreshIsPositive ==
  ASSUME NEW f \in LifeConfigs, Life!Accepted(f)
  PROVE  Life!Refresh(Life!Complete(f)) > 0
<1> DEFINE c == Life!Complete(f)
           lists == Life!Lists(c)
           on == {l \in Life!Range(lists) : l.enabled}
           S == {l.refresh : l \in on}
<1>1. \A i \in DOMAIN lists : Life!ListRight(lists[i]) /\ lists[i].refresh \in Nat
  <2>1. \A i \in DOMAIN lists : Life!ListRight(lists[i])
    BY DEF Life!Accepted, Life!Load, Life!Validate, Life!ListsRight
  <2>2. PICK T : c.blocklist \in Seq(T) /\ c.allowlist \in Seq(T)
    BY ListsAre, ListedTogether
  <2>3. /\ \A i \in DOMAIN c.blocklist : c.blocklist[i].refresh \in Nat
        /\ \A i \in DOMAIN c.allowlist : c.allowlist[i].refresh \in Nat
    BY ListsAre
  <2> DEFINE u == c.blocklist
             t == c.allowlist
  <2>4. lists = u \o t
    BY DEF Life!Lists
  <2> HIDE DEF u, t, lists
  <2>5. \A i \in DOMAIN lists : (\E j \in DOMAIN u : lists[i] = u[j]) \/ (\E j \in DOMAIN t : lists[i] = t[j])
    <3>1. u \in Seq(T) /\ t \in Seq(T)
      BY <2>2 DEF u, t
    <3>2. ASSUME NEW i \in 1 .. (Len(u) + Len(t))
          PROVE  (i \in DOMAIN u) \/ (~(i <= Len(u)) /\ i - Len(u) \in DOMAIN t)
      BY <3>1
    <3>3. QED
      BY <2>4, <3>1, <3>2, Joined
  <2>6. QED
    BY <2>1, <2>3, <2>5 DEF u, t
<1>2. \A x \in S : x \in Nat /\ x > 0
  BY <1>1 DEF Life!Range, Life!ListRight
<1>3. Life!Refresh(c) = IF S = {} THEN Life!OneDay ELSE Life!Min(S)
  BY DEF Life!Refresh
<1>4. Life!OneDay > 0
  BY DEF Life!OneDay
<1> HIDE DEF S, c
<1>5. S # {} => Life!Min(S) \in S
  BY <1>2, LeastOfNats DEF Life!Min
<1>6. QED
  BY <1>2, <1>3, <1>4, <1>5 DEF c

(* The sockets of the server are those of its two lists. *)
LEMMA DnsSockets ==
  ASSUME NEW S, NEW u \in Seq(S), NEW t \in Seq(S)
  PROVE  LET new == Life!Range(Life!Sockets("udp", u) \o Life!Sockets("tcp", t))
         IN  /\ \A s \in new : s.addr \in Life!Range(u \o t)
             /\ u # <<>> \/ t # <<>> => new # {}
<1> DEFINE su == Life!Sockets("udp", u)
           st == Life!Sockets("tcp", t)
           U == [proto : {"udp", "tcp"}, addr : S]
           both == su \o st
           addrs == u \o t
<1>1. /\ su \in Seq(U) /\ Len(su) = Len(u) /\ \A i \in 1 .. Len(u) : su[i].addr = u[i]
      /\ st \in Seq(U) /\ Len(st) = Len(t) /\ \A i \in 1 .. Len(t) : st[i].addr = t[i]
  <2>1. ASSUME NEW q \in Seq(S), NEW proto \in {"udp", "tcp"}
        PROVE  /\ Life!Sockets(proto, q) \in Seq(U) /\ Len(Life!Sockets(proto, q)) = Len(q)
               /\ \A i \in 1 .. Len(q) : Life!Sockets(proto, q)[i].addr = q[i]
    <3> DEFINE g == Life!Sockets(proto, q)
               e(i) == [proto |-> proto, addr |-> q[i]]
    <3>1. g = [i \in 1 .. Len(q) |-> e(i)] /\ Len(q) \in Nat
      BY DEF Life!Sockets
    <3>2. \A i \in 1 .. Len(q) : e(i) \in U /\ e(i).addr = q[i]
      OBVIOUS
    <3> HIDE DEF g, e, U
    <3>3. g \in Seq(U) /\ Len(g) = Len(q) /\ \A i \in 1 .. Len(q) : g[i] = e(i)
      BY <3>1, <3>2
    <3>4. QED
      BY <3>2, <3>3 DEF g
  <2>2. QED
    BY <2>1
<1> HIDE DEF su, st, U
<1>2. /\ DOMAIN both = 1 .. (Len(u) + Len(t)) /\ DOMAIN addrs = 1 .. (Len(u) + Len(t))
      /\ \A i \in DOMAIN both : both[i] = IF i <= Len(u) THEN su[i] ELSE st[i - Len(u)]
      /\ \A i \in DOMAIN addrs : addrs[i] = IF i <= Len(u) THEN u[i] ELSE t[i - Len(u)]
  <2>1. /\ DOMAIN both = 1 .. (Len(su) + Len(st))
        /\ \A i \in 1 .. (Len(su) + Len(st)) :
             both[i] = IF i <= Len(su) THEN su[i] ELSE st[i - Len(su)]
    BY <1>1, Joined
  <2>2. /\ DOMAIN addrs = 1 .. (Len(u) + Len(t))
        /\ \A i \in 1 .. (Len(u) + Len(t)) :
             addrs[i] = IF i <= Len(u) THEN u[i] ELSE t[i - Len(u)]
    BY Joined
  <2> HIDE DEF both, addrs
  <2>3. QED
    BY <1>1, <2>1, <2>2
<1>3. \A i \in DOMAIN both : both[i].addr = addrs[i]
  BY <1>1, <1>2
<1>4. u # <<>> \/ t # <<>> => 1 \in DOMAIN both
  BY <1>1, <1>2
<1> HIDE DEF both, addrs
<1>5. QED
  <2>1. /\ \A s \in Life!Range(both) : s.addr \in Life!Range(addrs)
        /\ u # <<>> \/ t # <<>> => Life!Range(both) # {}
    BY <1>2, <1>3, <1>4 DEF Life!Range
  <2>2. QED
    BY <2>1 DEF both, addrs, su, st

(* The detectors that are noted as finding nothing are not even there.     *)
Heard(entries) == {entries[i].detector : i \in DOMAIN entries}

LEMMA WithHears ==
  ASSUME NEW S, NEW entries \in Seq(S), NEW e \in S
  PROVE  /\ Life!With(entries, e) \in Seq(S)
         /\ Heard(Life!With(entries, e)) \subseteq Heard(entries) \cup {e.detector}
<1>1. CASE e.action = "off"
  BY <1>1 DEF Life!With
<1>2. CASE e.action # "off"
  <2> DEFINE longer == Append(entries, e)
  <2>1. /\ longer \in Seq(S)
        /\ \A i \in DOMAIN longer : longer[i] = e \/ (i \in DOMAIN entries /\ longer[i] = entries[i])
    OBVIOUS
  <2> HIDE DEF longer
  <2>2. Heard(longer) \subseteq Heard(entries) \cup {e.detector}
    BY <2>1 DEF Heard
  <2>3. QED
    BY <1>2, <2>1, <2>2 DEF Life!With, longer
<1>3. QED
  BY <1>1, <1>2

LEMMA NotedIsNotHeard ==
  ASSUME NEW f
  PROVE  LET c == Life!Complete(f)
         IN  Life!Noted(c) \cap Heard(Life!NameDetectors(Life!Detection(c))) = {}
<1> DEFINE c == Life!Complete(f)
           D == Life!Detection(c)
           typosquat == c["detection.typosquat"]
           nrd == c["detection.nrd"]
<1>1. D["typosquat"].protect = typosquat.protect
  <2> DEFINE t == IF "detection.typosquat" \in DOMAIN f THEN f["detection.typosquat"] ELSE <<>>
             d == Life!DetectionDefaults["typosquat"]
  <2>1. typosquat = Life!Filled(t, d)
    BY TableIs, DefaultsAre
  <2>2. "protect" \in DOMAIN d
    BY DEF Life!DetectionDefaults
  <2> HIDE DEF t, d
  <2>3. "protect" \in DOMAIN typosquat
    BY <2>1, <2>2 DEF Life!Filled
  <2>4. D["typosquat"] = [typosquat EXCEPT !.threshold = {10 * @}]
    BY DEF Life!Detection, Life!Detectors, Life!TableOf
  <2> HIDE DEF typosquat, D
  <2>5. QED
    BY <2>3, <2>4
<1>2. D["nrd"].source = nrd.source
  BY DEF Life!Detection, Life!Detectors
<1> HIDE DEF D, c
<1>3. "nrd" \in Life!Noted(c) => ~Life!NrdLoads(D["nrd"])
  <2> SUFFICES ASSUME "nrd" \in Life!Noted(c), NEW file \in D["nrd"].source
               PROVE  Life!NrdTable(file) = <<>>
    BY DEF Life!NrdLoads
  <2>1. file.state = "missing" \/ file.lines = <<>>
    BY <1>2 DEF Life!Noted, nrd
  <2>2. ASSUME file.lines = <<>>
        PROVE  Life!Parse(file.lines) = <<>>
    <3>1. {i \in DOMAIN file.lines : file.lines[i].date # {}} = {}
      BY <2>2
    <3>2. QED
      BY <3>1 DEF Life!Parse
  <2>3. QED
    BY <2>1, <2>2 DEF Life!NrdTable
<1>4. "typosquat" \in Life!Noted(c) => D["typosquat"].protect = {}
  BY <1>1 DEF Life!Noted, typosquat
<1>5. Life!Noted(c) \subseteq {"typosquat", "nrd"}
  BY DEF Life!Noted
<1> DEFINE entry(d) == Life!Configured(d, D[d].action, Life!Permille(D[d].threshold))
           dated == Life!Configured("nrd", D["nrd"].action, 0)
           S == {entry("dga"), entry("tunneling"), entry("typosquat"), dated}
           one == Life!With(<<>>, entry("dga"))
           always == Life!With(one, entry("tunneling"))
           guarded == IF D["typosquat"].protect = {} THEN always
                      ELSE Life!With(always, entry("typosquat"))
           all == IF Life!NrdLoads(D["nrd"]) THEN Life!With(guarded, dated) ELSE guarded
<1>6. all = Life!NameDetectors(D)
  BY DEF Life!NameDetectors
<1>7. \A d : entry(d).detector = d
  BY DEF Life!Configured
<1>8. dated.detector = "nrd"
  BY DEF Life!Configured
<1> HIDE DEF entry, dated
<1>9. entry("dga") \in S /\ entry("tunneling") \in S /\ entry("typosquat") \in S /\ dated \in S
      /\ <<>> \in Seq(S) /\ Heard(<<>>) = {}
  BY DEF Heard
<1> HIDE DEF S, one, always, guarded, all
<1>10. one \in Seq(S) /\ Heard(one) \subseteq {"dga"}
  BY <1>7, <1>9, WithHears DEF one
<1>11. always \in Seq(S) /\ Heard(always) \subseteq {"dga", "tunneling"}
  <2>1. always \in Seq(S) /\ Heard(always) \subseteq Heard(one) \cup {entry("tunneling").detector}
    BY <1>9, <1>10, WithHears DEF always
  <2>2. QED
    BY <1>7, <1>10, <2>1
<1>12. /\ guarded \in Seq(S)
       /\ Heard(guarded) \subseteq {"dga", "tunneling"}
                                     \cup IF D["typosquat"].protect = {} THEN {} ELSE {"typosquat"}
  BY <1>7, <1>9, <1>11, WithHears DEF guarded
<1>13. Heard(all) \subseteq Heard(guarded) \cup IF Life!NrdLoads(D["nrd"]) THEN {"nrd"} ELSE {}
  BY <1>8, <1>9, <1>12, WithHears DEF all
<1>14. Life!Noted(c) \cap Heard(all) = {}
  BY <1>3, <1>4, <1>5, <1>12, <1>13
<1>15. QED
  BY <1>6, <1>14 DEF c, D

(* What every stage of the start leaves alone. *)
LifeOthers ==
  <<lifeFile, lifeConfig, lifeWritable, lifeFetched, lifeQueue, lifeInflight, lifeAnswered,
    lifeBuffered, lifeWritten, lifeLost, lifeSignals, lifeCancelled, lifeEnded, lifeHangups,
    lifeReloads, lifeActive, lifeRound, lifeRounds>>

(* A stage that goes on to the next, with sockets bound and tasks spawned, *)
(* or is the last.                                                         *)
LifeGoes(s, next, bound, spawned) ==
  /\ lifeStage = s /\ UNCHANGED LifeOthers
  /\ \/ /\ lifeStage' = next
        /\ lifeSockets' = lifeSockets \cup bound /\ lifeTasks' = lifeTasks \cup spawned
     \/ /\ lifeStage' = "failed" /\ lifeSockets' = lifeSockets /\ lifeTasks' = lifeTasks

LEMMA GoesOn ==
  ASSUME LifeInv, NEW s \in LifeStages, NEW next \in LifeStages, NEW bound, NEW spawned,
         LifeGoes(s, next, bound, spawned),
         lifeStage' = next =>
           /\ Life!Accepted(lifeFile)
           /\ next \in LifeListed => Life!Specs(lifeConfig) \subseteq lifeFetched
           /\ next \in LifeRuled => Life!Builds(lifeConfig, lifeFetched)
           /\ next \in LifeBound => lifeSockets # {} \/ bound # {}
           /\ next \in LifeLate => "updater" \in lifeTasks \/ "updater" \in spawned
           /\ "updater" \in spawned \/ "updater" \in lifeTasks => next \in LifeLate
           /\ "page" \in spawned => lifeConfig.block_page.enabled
           /\ \A x \in bound : Wanted(lifeConfig, x)
  PROVE  LifeInv'
<1>1. UNCHANGED LifeOthers /\ lifeStage' \in LifeStages \cup {"failed"} /\ lifeStage' # "stopped"
  BY DEF LifeGoes, LifeStages
<1>2. LifeRecord(lifeConfig', lifeFetched', lifeStage', lifeRound', lifeInflight', lifeAnswered',
                 lifeBuffered', lifeWritten', lifeLost')
  BY <1>1 DEF LifeInv, LifeRecord, LifeOthers
<1>3. LifeOrder(lifeFile', lifeConfig', lifeFetched', lifeStage', lifeSockets', lifeTasks')
  <2>1. lifeFile' = lifeFile /\ lifeConfig' = lifeConfig /\ lifeFetched' = lifeFetched
    BY <1>1 DEF LifeOthers
  <2>2. CASE lifeStage' = next
    <3>1. lifeSockets' = lifeSockets \cup bound /\ lifeTasks' = lifeTasks \cup spawned
      BY <2>2 DEF LifeGoes, LifeStages
    <3>2. QED
      BY <2>1, <2>2, <3>1 DEF LifeInv, LifeOrder
  <2>3. CASE lifeStage' = "failed"
    <3>1. lifeSockets' = lifeSockets /\ lifeTasks' = lifeTasks
      BY <2>3 DEF LifeGoes, LifeStages
    <3>2. "failed" \notin LifeStages \cup LifeListed \cup LifeRuled \cup LifeBound \cup LifeLate
          /\ "failed" \in LifeEnds
      BY DEF LifeStages, LifeListed, LifeRuled, LifeBound, LifeLate, LifeEnds
    <3>3. QED
      BY <2>1, <2>3, <3>1, <3>2 DEF LifeInv, LifeOrder
  <2>4. QED
    BY <1>1, <2>2, <2>3 DEF LifeGoes
<1>4. QED
  BY <1>2, <1>3 DEF LifeInv

LEMMA EndpointStep ==
  ASSUME LifeInv, NEW s, NEW next, NEW table, NEW ready, Life!Endpoint(s, table, ready),
         \/ s = "api" /\ next = "metrics" /\ table = lifeConfig.api
         \/ s = "metrics" /\ next = "page" /\ table = lifeConfig.metrics
         \/ s = "page" /\ next = "updater" /\ table = lifeConfig.block_page
  PROVE  LifeInv'
<1> DEFINE new == Life!Range(Life!Sockets("tcp", <<table.listen>>))
<1>1. s \in LifeBound /\ next \in LifeBound /\ s \in LifeStages /\ next \in LifeStages
      /\ s \notin LifeLate /\ next \notin LifeLate /\ Life!After(s) = next /\ next # "failed"
      /\ s # "load" /\ next \notin LifeEnds /\ s \notin LifeEnds
  BY Follows DEF LifeBound, LifeStages, LifeLate, LifeEnds
<1>2. lifeStage = s
  BY DEF Life!Endpoint, Life!Stage
<1>3. /\ Life!Accepted(lifeFile) /\ Life!Specs(lifeConfig) \subseteq lifeFetched
      /\ Life!Builds(lifeConfig, lifeFetched) /\ lifeSockets # {} /\ "updater" \notin lifeTasks
  BY <1>1, <1>2 DEF LifeInv, LifeOrder, LifeListed, LifeRuled
<1>4. new = {[proto |-> "tcp", addr |-> table.listen]}
  BY DEF Life!Range, Life!Sockets
<1>5. table.enabled => \A x \in new : Wanted(lifeConfig, x)
  BY <1>4 DEF Wanted
<1> HIDE DEF new
<1>6. CASE table.enabled
  <2>1. LifeGoes(s, next, new, {s})
    BY <1>1, <1>6 DEF Life!Endpoint, Life!Stage, Life!Go, Life!Fail, LifeGoes, LifeOthers,
                      Life!given, Life!serving, Life!lines, Life!running, new
  <2>2. s = "page" => table = lifeConfig.block_page
    OBVIOUS
  <2>3. s # "updater"
    OBVIOUS
  <2>4. "page" \in {s} => lifeConfig.block_page.enabled
    BY <1>6, <2>2
  <2>5. QED
    BY <1>1, <1>3, <1>5, <1>6, <2>1, <2>3, <2>4, GoesOn
<1>7. CASE ~table.enabled
  <2>1. LifeGoes(s, next, {}, {})
    BY <1>1, <1>7 DEF Life!Endpoint, Life!Stage, Life!Go, Life!Fail, LifeGoes, LifeOthers,
                      Life!given, Life!serving, Life!lines, Life!running
  <2>2. QED
    BY <1>1, <1>3, <2>1, GoesOn
<1>8. QED
  BY <1>6, <1>7

LEMMA StageSteps ==
  ASSUME LifeInv,
         \/ Life!LoadConfig \/ Life!Assemble \/ Life!OpenQueryLog \/ Life!LoadLists
         \/ Life!BuildRules \/ Life!BindDns \/ Life!SpawnTasks \/ Life!BindApi
         \/ Life!BindMetrics \/ Life!BindPage
         \/ Life!SpawnUpdater \/ Life!SpawnReload \/ Life!SpawnSignals
  PROVE  LifeInv'
<1> USE DEF Life!Stage, Life!Go, Life!Fail, LifeGoes, LifeOthers,
            Life!given, Life!serving, Life!lines, Life!running
<1>1. lifeFile \in LifeConfigs /\ lifeConfig = Life!Complete(lifeFile)
  BY DEF LifeInv, LifeOrder
<1>2. CASE Life!LoadConfig
  <2>1. LifeGoes("load", "assemble", {}, {})
    BY <1>2, Follows DEF Life!LoadConfig
  <2>2. lifeStage' = "assemble" => Life!Accepted(lifeFile)
    BY <1>2 DEF Life!LoadConfig
  <2>3. "updater" \notin lifeTasks
    BY <2>1 DEF LifeInv, LifeOrder, LifeLate, LifeEnds
  <2> HIDE DEF LifeGoes
  <2>4. QED
    BY <2>1, <2>2, <2>3, GoesOn DEF LifeStages, LifeListed, LifeRuled, LifeBound, LifeLate
<1>3. CASE Life!Assemble
  <2>1. LifeGoes("assemble", "log", {}, {})
    BY <1>3, Follows DEF Life!Assemble
  <2>2. Life!Accepted(lifeFile) /\ "updater" \notin lifeTasks
    BY <2>1 DEF LifeInv, LifeOrder, LifeStages, LifeLate, LifeEnds
  <2> HIDE DEF LifeGoes
  <2>3. QED
    BY <2>1, <2>2, GoesOn DEF LifeStages, LifeListed, LifeRuled, LifeBound, LifeLate
<1>4. CASE Life!OpenQueryLog
  <2>1. LifeGoes("log", "lists", {}, {})
    BY <1>4, Follows DEF Life!OpenQueryLog
  <2>2. Life!Accepted(lifeFile) /\ "updater" \notin lifeTasks
    BY <2>1 DEF LifeInv, LifeOrder, LifeStages, LifeLate, LifeEnds
  <2> HIDE DEF LifeGoes
  <2>3. QED
    BY <2>1, <2>2, GoesOn DEF LifeStages, LifeListed, LifeRuled, LifeBound, LifeLate
<1>5. CASE Life!LoadLists
  <2>1. LifeGoes("lists", "rules", {}, {})
    BY <1>5, Follows DEF Life!LoadLists
  <2>2. Life!Accepted(lifeFile) /\ "updater" \notin lifeTasks
    BY <2>1 DEF LifeInv, LifeOrder, LifeStages, LifeLate, LifeEnds
  <2>3. lifeStage' = "rules" => Life!Specs(lifeConfig) \subseteq lifeFetched
    BY <1>5 DEF Life!LoadLists
  <2> HIDE DEF LifeGoes
  <2>4. QED
    BY <2>1, <2>2, <2>3, GoesOn DEF LifeStages, LifeRuled, LifeBound, LifeLate
<1>6. CASE Life!BuildRules
  <2>1. LifeGoes("rules", "dns", {}, {})
    BY <1>6, Follows DEF Life!BuildRules
  <2>2. Life!Accepted(lifeFile) /\ "updater" \notin lifeTasks
    BY <2>1 DEF LifeInv, LifeOrder, LifeStages, LifeLate, LifeEnds
  <2>3. Life!Specs(lifeConfig) \subseteq lifeFetched
    BY <2>1 DEF LifeInv, LifeOrder, LifeListed
  <2>4. lifeStage' = "dns" => Life!Builds(lifeConfig, Life!Specs(lifeConfig))
    BY <1>6 DEF Life!BuildRules
  <2>5. lifeStage' = "dns" => Life!Builds(lifeConfig, lifeFetched)
    BY <2>3, <2>4 DEF Life!Builds
  <2> HIDE DEF LifeGoes
  <2>6. QED
    BY <2>1, <2>2, <2>3, <2>5, GoesOn DEF LifeStages, LifeBound, LifeLate
<1>7. CASE Life!BindDns
  <2> DEFINE u == lifeConfig.server.listen_udp
             t == lifeConfig.server.listen_tcp
             new == Life!Range(Life!Sockets("udp", u) \o Life!Sockets("tcp", t))
  <2>1. LifeGoes("dns", "tasks", new, {})
    BY <1>7, Follows DEF Life!BindDns
  <2>2. Life!Accepted(lifeFile) /\ "updater" \notin lifeTasks
    BY <2>1 DEF LifeInv, LifeOrder, LifeStages, LifeLate, LifeEnds
  <2>3. /\ Life!Specs(lifeConfig) \subseteq lifeFetched
        /\ Life!Builds(lifeConfig, lifeFetched)
    BY <2>1 DEF LifeInv, LifeOrder, LifeListed, LifeRuled
  <2>4. PICK S : u \in Seq(S) /\ t \in Seq(S)
    BY <1>1, ListsAre, ListedTogether
  <2>5. u # <<>> \/ t # <<>>
    BY <1>1, <2>2 DEF Life!Accepted, Life!Load, Life!Validate, Life!ListenersRight
  <2>6. new # {} /\ \A x \in new : x.addr \in Life!Range(u \o t)
    BY <2>4, <2>5, DnsSockets
  <2>7. new # {} /\ \A x \in new : Wanted(lifeConfig, x)
    BY <2>6 DEF Wanted
  <2> HIDE DEF new, u, t
  <2> HIDE DEF LifeGoes
  <2>8. QED
    BY <2>1, <2>2, <2>3, <2>7, GoesOn DEF LifeStages, LifeLate
<1>8. CASE Life!SpawnTasks
  <2>1. LifeGoes("tasks", "api", {}, {"flusher", "seeds", "report", "history"})
    BY <1>8, Follows DEF Life!SpawnTasks
  <2>2. Life!Accepted(lifeFile) /\ "updater" \notin lifeTasks
    BY <2>1 DEF LifeInv, LifeOrder, LifeStages, LifeLate, LifeEnds
  <2>3. /\ Life!Specs(lifeConfig) \subseteq lifeFetched
        /\ Life!Builds(lifeConfig, lifeFetched) /\ lifeSockets # {}
    BY <2>1 DEF LifeInv, LifeOrder, LifeListed, LifeRuled, LifeBound
  <2> HIDE DEF LifeGoes
  <2>4. QED
    BY <2>1, <2>2, <2>3, GoesOn DEF LifeStages, LifeLate
<1>9. CASE Life!BindApi \/ Life!BindMetrics \/ Life!BindPage
  BY <1>9, EndpointStep DEF Life!BindApi, Life!BindMetrics, Life!BindPage
<1>10. CASE Life!SpawnUpdater
  <2>1. LifeGoes("updater", "hangup", {}, {x \in {"updater"} : Life!Refresh(lifeConfig) > 0})
    BY <1>10, Follows DEF Life!SpawnUpdater
  <2>2. Life!Accepted(lifeFile)
    BY <2>1 DEF LifeInv, LifeOrder, LifeStages
  <2>3. /\ Life!Specs(lifeConfig) \subseteq lifeFetched
        /\ Life!Builds(lifeConfig, lifeFetched) /\ lifeSockets # {}
    BY <2>1 DEF LifeInv, LifeOrder, LifeListed, LifeRuled, LifeBound
  <2>4. Life!Refresh(lifeConfig) > 0
    BY <1>1, <2>2, RefreshIsPositive
  <2>5. LifeGoes("updater", "hangup", {}, {"updater"})
    BY <2>1, <2>4
  <2> HIDE DEF LifeGoes
  <2>6. QED
    BY <2>2, <2>3, <2>5, GoesOn DEF LifeStages, LifeLate
<1>11. CASE Life!SpawnReload \/ Life!SpawnSignals
  <2>1. \/ LifeGoes("hangup", "signals", {}, {"hangup"})
        \/ LifeGoes("signals", "serve", {}, {"signals"})
    BY <1>11, Follows DEF Life!SpawnReload, Life!SpawnSignals
  <2>2. Life!Accepted(lifeFile) /\ "updater" \in lifeTasks
    BY <2>1 DEF LifeInv, LifeOrder, LifeStages, LifeLate
  <2>3. /\ Life!Specs(lifeConfig) \subseteq lifeFetched
        /\ Life!Builds(lifeConfig, lifeFetched) /\ lifeSockets # {}
    BY <2>1 DEF LifeInv, LifeOrder, LifeListed, LifeRuled, LifeBound, LifeLate
  <2> HIDE DEF LifeGoes
  <2>4. QED
    BY <2>1, <2>2, <2>3, GoesOn DEF LifeStages, LifeLate
<1>12. QED
  BY <1>2, <1>3, <1>4, <1>5, <1>6, <1>7, <1>8, <1>9, <1>10, <1>11

(* The server while it runs. *)
LEMMA ServeSteps ==
  ASSUME LifeInv,
         \/ \E p : Life!Arrive(p) \/ Life!Take(p) \/ Life!Finish(p)
         \/ Life!Flush \/ Life!Fetch
  PROVE  LifeInv'
<1> USE DEF Life!starting, Life!given, Life!serving, Life!lines, Life!running
<1>1. ASSUME UNCHANGED <<lifeFile, lifeConfig, lifeFetched, lifeStage, lifeSockets, lifeTasks>>
      PROVE  LifeOrder(lifeFile', lifeConfig', lifeFetched', lifeStage', lifeSockets', lifeTasks')
  BY <1>1 DEF LifeInv
<1>2. ASSUME NEW p, Life!Arrive(p) PROVE LifeInv'
  BY <1>1, <1>2 DEF Life!Arrive, LifeInv
<1>3. ASSUME NEW p, Life!Take(p) PROVE LifeInv'
  <2>1. Ruled(lifeConfig, lifeFetched)
    BY <1>3 DEF Life!Take, LifeInv, LifeOrder, Ruled, LifeListed, LifeRuled, LifeBound, LifeLate
  <2>2. QED
    BY <1>1, <1>3, <2>1 DEF Life!Take, LifeInv, LifeRecord
<1>4. ASSUME NEW p, Life!Finish(p) PROVE LifeInv'
  <2>1. /\ lifeAnswered' = lifeAnswered \cup {p}
        /\ lifeInflight' = lifeInflight \ {p} /\ p \in lifeInflight
        /\ lifeRound' \in {"waiting", lifeRound} /\ lifeStage \in LifeStages
    BY <1>4, Follows DEF Life!Finish, Life!Alive
  <2>2. /\ IsFiniteSet(lifeAnswered') /\ Cardinality(lifeAnswered) \in Nat
        /\ Cardinality(lifeAnswered') \in Nat
        /\ Cardinality(lifeAnswered') <= Cardinality(lifeAnswered) + 1
    <3>1. IsFiniteSet(lifeAnswered)
      BY DEF LifeInv, LifeRecord
    <3>2. /\ IsFiniteSet(lifeAnswered \cup {p})
          /\ Cardinality(lifeAnswered \cup {p})
               = IF p \in lifeAnswered THEN Cardinality(lifeAnswered)
                 ELSE Cardinality(lifeAnswered) + 1
      BY <3>1, FS_AddElement
    <3>3. Cardinality(lifeAnswered) \in Nat
      BY <3>1, FS_CardinalityType
    <3>4. QED
      BY <2>1, <3>2, <3>3
  <2>3. UNCHANGED <<lifeFile, lifeConfig, lifeFetched, lifeStage, lifeSockets, lifeTasks>>
    BY <1>4 DEF Life!Finish
  <2>4. /\ lifeBuffered' \in Nat /\ lifeWritten' \in Nat /\ lifeLost' \in Nat
        /\ lifeWritten' + lifeBuffered' + lifeLost'
             = lifeWritten + lifeBuffered + lifeLost
                 + (IF Life!KeepsLog(lifeConfig) THEN 1 ELSE 0)
        /\ ~Life!KeepsLog(lifeConfig) => lifeWritten' = 0 /\ lifeBuffered' = 0
    BY <1>4 DEF Life!Finish, Life!Record, LifeInv, LifeRecord
  <2>5. LifeRecord(lifeConfig', lifeFetched', lifeStage', lifeRound', lifeInflight', lifeAnswered',
                   lifeBuffered', lifeWritten', lifeLost')
    <3>1. /\ Ruled(lifeConfig', lifeFetched') /\ lifeRound' # "refused"
          /\ lifeStage' # "stopped" /\ lifeConfig' = lifeConfig
      BY <2>1, <2>3 DEF LifeInv, LifeRecord, LifeStages
    <3>2. ASSUME Life!KeepsLog(lifeConfig)
          PROVE  Cardinality(lifeAnswered') <= lifeWritten' + lifeBuffered' + lifeLost'
      <4>1. /\ lifeBuffered \in Nat /\ lifeWritten \in Nat /\ lifeLost \in Nat
            /\ Cardinality(lifeAnswered) <= lifeWritten + lifeBuffered + lifeLost
        BY <3>2 DEF LifeInv, LifeRecord
      <4>2. lifeWritten' + lifeBuffered' + lifeLost' = lifeWritten + lifeBuffered + lifeLost + 1
        BY <2>4, <3>2
      <4>3. Cardinality(lifeAnswered') \in Nat /\ Cardinality(lifeAnswered) \in Nat
            /\ Cardinality(lifeAnswered') <= Cardinality(lifeAnswered) + 1
        BY <2>2
      <4>4. Cardinality(lifeAnswered) + 1 <= lifeWritten + lifeBuffered + lifeLost + 1
        BY <4>1, <4>3
      <4>5. lifeWritten + lifeBuffered + lifeLost + 1 \in Nat
        BY <4>1
      <4> HIDE DEF Life!lines, Life!serving
      <4>6. QED
        BY <4>2, <4>3, <4>4, <4>5
    <3>3. QED
      BY <2>2, <2>4, <3>1, <3>2 DEF LifeRecord
  <2>6. QED
    BY <1>1, <2>3, <2>5 DEF LifeInv
<1>5. CASE Life!Flush
  <2>1. lifeStage \in LifeStages
    BY <1>5, Follows DEF Life!Flush, Life!Alive
  <2>2. QED
    BY <1>1, <1>5, <2>1 DEF Life!Flush, LifeInv, LifeRecord, LifeStages
<1>6. CASE Life!Fetch
  <2>1. lifeSockets # {}
    <3>1. lifeStage \in LifeStages /\ "updater" \in lifeTasks
      BY <1>6, Follows DEF Life!Fetch, Life!Alive
    <3>2. lifeStage \in LifeLate
      BY <3>1 DEF LifeInv, LifeOrder, LifeStages, LifeEnds
    <3>3. QED
      BY <3>2 DEF LifeInv, LifeOrder, LifeBound
  <2>2. /\ lifeRound' = "asking" /\ lifeAnswered' = lifeAnswered \ {LifeOwn}
        /\ UNCHANGED <<lifeFile, lifeConfig, lifeFetched, lifeStage, lifeSockets, lifeTasks,
                       lifeInflight, lifeBuffered, lifeWritten, lifeLost>>
    BY <1>6, <2>1 DEF Life!Fetch, Life!Listening
  <2>3. /\ IsFiniteSet(lifeAnswered') /\ Cardinality(lifeAnswered) \in Nat
        /\ Cardinality(lifeAnswered') \in Nat
        /\ Cardinality(lifeAnswered') <= Cardinality(lifeAnswered)
    BY <2>2, FS_Subset, FS_CardinalityType DEF LifeInv, LifeRecord
  <2>4. LifeRecord(lifeConfig', lifeFetched', lifeStage', lifeRound', lifeInflight', lifeAnswered',
                   lifeBuffered', lifeWritten', lifeLost')
    BY <2>2, <2>3 DEF LifeInv, LifeRecord
  <2>5. QED
    BY <1>1, <2>2, <2>4 DEF LifeInv
<1>7. QED
  BY <1>2, <1>3, <1>4, <1>5, <1>6

LEMMA SignalSteps ==
  ASSUME LifeInv,
         \/ \E t, x : Life!Subscribe(t, x) \/ Life!Kill(x)
         \/ \E loop : Life!EndsWithToken(loop)
         \/ Life!Hangup \/ (\E new : Life!Reload(new)) \/ Life!Terminate \/ Life!Stop
         \/ UNCHANGED lifeVars
  PROVE  LifeInv'
<1> USE DEF Life!starting, Life!given, Life!serving, Life!lines, Life!running
<1>1. CASE /\ UNCHANGED <<lifeFile, lifeConfig, lifeFetched, lifeStage, lifeSockets, lifeTasks,
                          lifeInflight, lifeAnswered, lifeBuffered, lifeWritten, lifeLost,
                       lifeRound>>
  BY <1>1 DEF LifeInv
<1>2. CASE \/ \E t, x : Life!Subscribe(t, x)
           \/ \E loop : Life!EndsWithToken(loop)
           \/ Life!Hangup \/ (\E new : Life!Reload(new)) \/ Life!Terminate
           \/ UNCHANGED lifeVars
  BY <1>1, <1>2 DEF Life!Subscribe, Life!EndsWithToken, Life!Hangup, Life!Reload, Life!Terminate, lifeVars
<1>3. CASE \E x : Life!Kill(x)
  <2>1. /\ lifeStage' = "killed"
        /\ UNCHANGED <<lifeFile, lifeConfig, lifeFetched, lifeSockets, lifeTasks,
                       lifeInflight, lifeAnswered, lifeBuffered, lifeWritten, lifeLost,
                       lifeRound>>
    BY <1>3 DEF Life!Kill
  <2>2. QED
    BY <2>1 DEF LifeInv, LifeOrder, LifeRecord, LifeStages, LifeEnds, LifeListed, LifeRuled,
                LifeBound, LifeLate
<1>4. CASE Life!Stop
  <2>1. /\ lifeStage' = "stopped" /\ lifeSockets' = {}
        /\ lifeBuffered' = 0
        /\ \/ lifeWritten' = lifeWritten + lifeBuffered /\ lifeLost' = lifeLost
           \/ lifeLost' = lifeLost + lifeBuffered /\ lifeWritten' = lifeWritten
        /\ UNCHANGED <<lifeFile, lifeConfig, lifeFetched, lifeTasks,
                       lifeInflight, lifeAnswered, lifeRound>>
    BY <1>4 DEF Life!Stop
  <2>2. LifeOrder(lifeFile', lifeConfig', lifeFetched', lifeStage', lifeSockets', lifeTasks')
    BY <2>1 DEF LifeInv, LifeOrder, LifeStages, LifeEnds, LifeListed, LifeRuled, LifeBound, LifeLate
  <2>3. LifeRecord(lifeConfig', lifeFetched', lifeStage', lifeRound', lifeInflight', lifeAnswered',
                   lifeBuffered', lifeWritten', lifeLost')
    BY <2>1, FS_CardinalityType DEF LifeInv, LifeRecord
  <2>4. QED
    BY <2>2, <2>3 DEF LifeInv
<1>5. QED
  BY <1>2, <1>3, <1>4

(* What `check` says of the reach. *)
LEMMA ReachIsTold == LifeInv => Life!ReachIsAsTold
<1> SUFFICES ASSUME LifeInv PROVE Life!ReachIsAsTold
  OBVIOUS
<1> DEFINE c == lifeConfig
           page == [proto |-> "tcp", addr |-> c.block_page.listen]
           strange == {s \in lifeSockets : ~Life!IsLocalAddress(s.addr.ip)}
           notes == Life!Notes(c, FALSE, FALSE)
<1>1. \A s \in lifeSockets : Wanted(c, s)
  BY DEF LifeInv, LifeOrder
<1>2. Life!PublicListeners(c) = {} => strange \subseteq {page}
  BY <1>1 DEF Wanted, Life!PublicListeners
<1>3. Life!PublicListeners(c) = {} /\ ~Life!BlockPageIsExposed(c) => strange = {}
  BY <1>1 DEF Wanted, Life!PublicListeners, Life!BlockPageIsExposed
<1>4. /\ Life!ReachabilityVerdict(c) = "own network" => strange = {}
      /\ Life!ReachabilityVerdict(c) = "only the block page" => strange \subseteq {page}
  BY <1>2, <1>3 DEF Life!ReachabilityVerdict
<1>5. "reflector" \notin notes => c["server.rate_limit"].enabled \/ strange \subseteq {page}
  BY <1>2 DEF Life!Notes
<1>6. "rotation" \notin notes => lifeWritten = 0
  BY DEF Life!Notes, Life!RotationHint, LifeInv, LifeRecord
<1>7. "block page" \notin notes => "page" \notin lifeTasks
  BY DEF Life!Notes, LifeInv, LifeOrder
<1>8. "clock" \notin notes => ~c.privacy.dnssec
  BY DEF Life!Notes, Life!TimeSyncHint
<1>9. QED
  BY <1>4, <1>5, <1>6, <1>7, <1>8 DEF Life!ReachIsAsTold

LEMMA NothingIsUnasked == LifeInv => Life!NothingUnasked
<1> SUFFICES ASSUME LifeInv PROVE Life!NothingUnasked
  OBVIOUS
<1>1. lifeFile \in LifeConfigs /\ lifeConfig = Life!Complete(lifeFile)
  BY DEF LifeInv, LifeOrder
<1>2. ASSUME NEW s \in lifeSockets
      PROVE  \/ s.addr \in Life!Range(lifeConfig.server.listen_udp \o lifeConfig.server.listen_tcp)
             \/ \E e \in {"api", "metrics", "block_page"} :
                  s.addr = lifeConfig[e].listen /\ Life!Says(e, "enabled", TRUE)
  <2>1. Wanted(lifeConfig, s)
    BY DEF LifeInv, LifeOrder
  <2>2. \A e \in {"api", "metrics", "block_page"} :
          lifeConfig[e].enabled => Life!Says(e, "enabled", TRUE)
    BY <1>1, AskedFor
  <2>3. /\ lifeConfig.api.enabled => Life!Says("api", "enabled", TRUE)
        /\ lifeConfig.metrics.enabled => Life!Says("metrics", "enabled", TRUE)
        /\ lifeConfig.block_page.enabled => Life!Says("block_page", "enabled", TRUE)
    BY <2>2
  <2>4. \/ s.addr \in Life!Range(lifeConfig.server.listen_udp \o lifeConfig.server.listen_tcp)
        \/ s.addr = lifeConfig.api.listen /\ Life!Says("api", "enabled", TRUE)
        \/ s.addr = lifeConfig.metrics.listen /\ Life!Says("metrics", "enabled", TRUE)
        \/ s.addr = lifeConfig.block_page.listen /\ Life!Says("block_page", "enabled", TRUE)
    <3>1. CASE lifeConfig.block_page.enabled
               /\ s = [proto |-> "tcp", addr |-> lifeConfig.block_page.listen]
      BY <2>3, <3>1
    <3>2. CASE lifeConfig.api.enabled /\ s.addr = lifeConfig.api.listen
      BY <2>3, <3>2
    <3>3. CASE lifeConfig.metrics.enabled /\ s.addr = lifeConfig.metrics.listen
      BY <2>3, <3>3
    <3>4. QED
      BY <2>1, <3>1, <3>2, <3>3 DEF Wanted
  <2>5. QED
    BY <2>4
<1>3. lifeWritten > 0 => Life!Says("privacy.logging", "mode", "full")
  <2>1. lifeWritten > 0 => Life!KeepsLog(lifeConfig)
    BY DEF LifeInv, LifeRecord
  <2>2. QED
    BY <1>1, <2>1, AskedFor DEF Life!KeepsLog
<1>4. LET found == Life!NameDetectors(Life!Detection(lifeConfig))
      IN  Life!Noted(lifeConfig) \cap {found[i].detector : i \in DOMAIN found} = {}
  BY <1>1, NotedIsNotHeard DEF Heard
<1>5. QED
  BY <1>2, <1>3, <1>4 DEF Life!NothingUnasked

(* main.rs:590, main.rs:625, main.rs:1056: for any files, whenever a       *)
(* signal comes, and however long the loops go on after the token.         *)
THEOREM StartKeepsItsOrder == Life!Spec => []StartsAndStopsInOrder
<1>1. Life!Init => LifeInv
  <2> SUFFICES ASSUME Life!Init PROVE LifeInv
    OBVIOUS
  <2>1. LifeOrder(lifeFile, lifeConfig, lifeFetched, lifeStage, lifeSockets, lifeTasks)
    BY DEF Life!Init, LifeOrder, LifeStages, LifeEnds, LifeListed, LifeRuled, LifeBound, LifeLate
  <2>2. LifeRecord(lifeConfig, lifeFetched, lifeStage, lifeRound, lifeInflight, lifeAnswered,
                   lifeBuffered, lifeWritten, lifeLost)
    <3>1. IsFiniteSet({}) /\ Cardinality({}) = 0
      BY FS_EmptySet
    <3>2. /\ lifeAnswered = {} /\ lifeInflight = {} /\ lifeBuffered = 0 /\ lifeWritten = 0
          /\ lifeLost = 0
          /\ lifeStage = "load" /\ lifeRound = "waiting"
      BY DEF Life!Init
    <3>3. QED
      BY <3>1, <3>2 DEF LifeRecord
  <2>3. QED
    BY <2>1, <2>2 DEF LifeInv
<1>2. LifeInv /\ [Life!Next]_(Life!vars) => LifeInv'
  BY StageSteps, ServeSteps, SignalSteps DEF Life!Next, Life!vars, lifeVars, Life!starting,
     Life!serving, Life!lines, Life!running, Life!given
<1>3. LifeInv => StartsAndStopsInOrder
  <2> SUFFICES ASSUME LifeInv PROVE Life!StartsAndStopsInOrder
    BY DEF StartsAndStopsInOrder
  <2>1. lifeStage = "stopped" =>
          /\ lifeBuffered = 0
          /\ Life!KeepsLog(lifeConfig) =>
               Life!Cardinality(lifeAnswered) <= lifeWritten + lifeLost
    BY LifeSameSize DEF LifeInv, LifeRecord
  <2>2. lifeAnswered # {} => Life!Builds(lifeConfig, lifeFetched) /\ Life!Specs(lifeConfig) \subseteq lifeFetched
    BY DEF LifeInv, LifeRecord, Ruled
  <2>3. lifeRound # "refused" /\ (lifeStage = "serve" => "updater" \in lifeTasks)
    BY DEF LifeInv, LifeRecord, LifeOrder, LifeLate
  <2>4. QED
    BY <2>1, <2>2, <2>3, ReachIsTold, NothingIsUnasked DEF Life!StartsAndStopsInOrder
<1>4. QED
  BY <1>1, <1>2, <1>3, PTL DEF Life!Spec
=============================================================================
