------------------------------ MODULE Handshake ------------------------------
(***************************************************************************)
(* The handshake inside Open (session.go) with the three things Session    *)
(* leaves out: the bytes of its payloads, the EC-SRP and MD5 answers in    *)
(* them, and time.  One goroutine sends two payloads and awaits two        *)
(* records; the device may be slow, silent, or send a damaged packet.      *)
(*                                                                         *)
(* Times are milliseconds.  The code's own computations take no time: the  *)
(* clock moves while the goroutine waits for an ACK or a record.           *)
(***************************************************************************)
EXTENDS Codec, Ecsrp

CONSTANTS
  Budgets,          \* total retransmit budgets the operator may configure
  Users, Passwords, \* byte strings the caller may pass
  Password,         \* the device's password for every user
  Privs,            \* the client's private scalars
  DevicePrivs,      \* the device's
  Salts,            \* the device's salts, byte strings of md5SaltLen
  Cols, Rows,       \* the terminal's size
  JunkKeys,         \* keys no keygen made, as a device may send them
  Cuts,             \* how many bytes a packet of the device may lose
  Room,             \* maxPacket - headerLen
  md5SaltLen, ecsrpPubkeyLen,   \* 16 and 33 in the code
  Md5(_)            \* the digest of a number

authPhaseTimeout == 30000
ecsrpSaltLen     == ecsrpPubkeyLen + md5SaltLen
defaultTermType  == <<120>>
maxUint16        == 65535

\* A key is two numbers here, its x-coordinate and its parity; a packet may
\* lose all its bytes and not more.
ASSUME HandshakeAssumption ==
  /\ Budgets \subseteq Int
  /\ Password \in Passwords
  /\ {Cols, Rows} \subseteq 0 .. maxUint16
  /\ Users \cup Passwords \cup Salts \cup JunkKeys \subseteq Seq(Nat)
  /\ Privs \cup DevicePrivs \subseteq Nat
  /\ md5SaltLen \in Nat /\ \A s \in Salts : Len(s) = md5SaltLen
  /\ ecsrpPubkeyLen = 2 /\ \A s \in JunkKeys : Len(s) = ecsrpPubkeyLen
  /\ Room \in 0 .. maxUint16 /\ ecsrpSaltLen <= Room
  /\ Cuts \subseteq 0 .. (cpHeaderLen + md5SaltLen)

----------------------------------------------------------------------------
(* The retransmit schedule (seq.go).                                       *)

upstreamRamp == <<15, 20, 30, 50, 90, 170, 330, 660, 1000>>
Second == 1000

Sum(s) ==
  LET upTo[i \in 0 .. Len(s)] == IF i = 0 THEN 0 ELSE upTo[i - 1] + s[i]
  IN  upTo[Len(s)]

\* The longest prefix of the ramp that stays within the budget.
RampWithin(budget) ==
  LET k == CHOOSE j \in 0 .. Len(upstreamRamp) :
             /\ Sum(SubSeq(upstreamRamp, 1, j)) <= budget
             /\ j < Len(upstreamRamp) =>
                  Sum(SubSeq(upstreamRamp, 1, j + 1)) > budget
  IN  SubSeq(upstreamRamp, 1, k)

\* Mutant: what is left of the budget below a second is given away.
buildScheduleNoRest(budget) ==
  IF budget <= 0 THEN upstreamRamp
  ELSE LET ramp == RampWithin(budget)
       IN  ramp \o [i \in 1 .. ((budget - Sum(ramp)) \div Second) |-> Second]

\* The ramp within the budget, whole seconds, and the rest.
buildRetransmitSchedule(budget) ==
  IF budget <= 0 THEN upstreamRamp
  ELSE LET ramp == RampWithin(budget)
           left == budget - Sum(ramp)
           rest == left % Second
       IN  ramp \o [i \in 1 .. (left \div Second) |-> Second]
                \o (IF rest > 0 THEN <<rest>> ELSE << >>)

----------------------------------------------------------------------------
(* Digests and the answers built from them (auth.go).                      *)

\* A byte string as the number the digests take.
JoinByte(v, c) == (v * 31 + c) % 4096
Join(s) ==
  LET upTo[i \in 0 .. Len(s)] ==
        IF i = 0 THEN Len(s) ELSE JoinByte(upTo[i - 1], s[i])
  IN  upTo[Len(s)]

computeMD5Response(password, salt) == <<0, Md5(Join(<<0>> \o password \o salt))>>

\* SHA256(salt || SHA256(username || ":" || password))
mtweiID(username, password, salt) ==
  Sha256(Join(salt \o <<Sha256(Join(username \o <<58>> \o password))>>))

KeyBytes(key) == <<key.x, key.parity>>
KeyOf(s)      == [x |-> s[1], parity |-> s[2]]

\* The final digest of h and z is injective for all we know: it is the pair.
ResponseBytes(r) == <<r.h, r.z>>

VARIABLES
  pc,         \* where the goroutine is
  now,        \* the clock
  budget,     \* -auth-timeout
  schedule,   \* authSchedule
  attempt,    \* the loop variable of sendDataAndWaitAck
  cred,       \* what Open was called with, and the client's private scalar
  clientPub,  \* the client's public key
  meant,      \* the records of the payload being sent
  controlCh,  \* framed records received and not yet taken
  devGot,     \* the payloads the device received, decoded
  devKey,     \* what the device answered: mode, private scalar, key and salt
  packet,     \* the packet it did so in: its records and the bytes cut off
  accepted    \* the device has sent END_AUTH

vars == <<pc, now, budget, schedule, attempt, cred, clientPub, meant,
          controlCh, devGot, devKey, packet, accepted>>

NoKey    == [mode |-> "none", priv |-> 0, key |-> << >>, salt |-> << >>]
NoPacket == [recs |-> << >>, cut |-> 0]

Init ==
  /\ pc = "start" /\ now = 0 /\ attempt = 1
  /\ budget \in Budgets
  /\ schedule = buildRetransmitSchedule(budget)
  /\ cred \in [user : Users, pass : Passwords, priv : Privs]
  /\ clientPub = NoKey
  /\ meant = << >> /\ controlCh = << >>
  /\ devGot = << >> /\ devKey = NoKey /\ packet = NoPacket
  /\ accepted = FALSE

----------------------------------------------------------------------------
(* The client.                                                             *)

\* buildAuthInit or buildAuthFinish, then sendDataAndWaitAck.
SendPayload(recs, next) ==
  IF Fits(recs, Room)
  THEN meant' = recs /\ pc' = next /\ attempt' = 1
  ELSE pc' = "failed" /\ UNCHANGED <<meant, attempt>>

\* keygen; a scalar that is a multiple of the order has no public key.
Start ==
  /\ pc = "start"
  /\ LET pub == keygen(cred.priv, NoValidator)
     IN  IF pub = Panic
         THEN pc' = "panic" /\ UNCHANGED <<clientPub, meant, attempt>>
         ELSE /\ clientPub' = pub
              /\ SendPayload(authInit(cred.user, KeyBytes(pub)), "ackInit")
  /\ UNCHANGED <<now, budget, schedule, cred, controlCh, devGot, devKey, packet,
                 accepted>>

\* SESSIONSTART cannot be sent, or rand.Reader fails.
StartFails ==
  /\ pc = "start"
  /\ pc' = "failed"
  /\ UNCHANGED <<now, budget, schedule, attempt, cred, clientPub, meant,
                 controlCh, devGot, devKey, packet, accepted>>

Sending == pc \in {"ackInit", "ackFinish"}

\* The device gets the payload, once: it knows a retransmission.
DeviceGets ==
  devGot' = IF Len(devGot) = (IF pc = "ackInit" THEN 0 ELSE 1)
            THEN Append(devGot, iterateControl(encodeAll(meant)))
            ELSE devGot

SendUnchanged == UNCHANGED <<budget, schedule, cred, clientPub, meant,
                             controlCh, devKey, packet, accepted>>

\* The ACK comes at once or at the end of the interval.
Acked ==
  /\ Sending
  /\ now' \in {now, now + schedule[attempt] - 1}
  /\ DeviceGets
  /\ pc' = IF pc = "ackInit" THEN "salt" ELSE "endauth"
  /\ SendUnchanged /\ UNCHANGED attempt

\* Mutant: one interval more than the schedule has.
NoAckOneMore ==
  /\ Sending
  /\ now' = now + schedule[attempt]
  /\ DeviceGets \/ UNCHANGED devGot
  /\ IF attempt <= Len(schedule)
     THEN attempt' = attempt + 1 /\ UNCHANGED pc
     ELSE pc' = "failed" /\ UNCHANGED attempt
  /\ SendUnchanged

\* The interval passes: retransmit, or give up after the last one.
NoAck ==
  /\ Sending
  /\ now' = now + schedule[attempt]
  /\ DeviceGets \/ UNCHANGED devGot
  /\ IF attempt < Len(schedule)
     THEN attempt' = attempt + 1 /\ UNCHANGED pc
     ELSE pc' = "failed" /\ UNCHANGED attempt
  /\ SendUnchanged

Awaiting == pc \in {"salt", "endauth"}

\* Nothing for now: the next record may come as late as hCtx allows.
AwaitLonger ==
  /\ Awaiting /\ controlCh = << >> /\ now < authPhaseTimeout - 1
  /\ now' = authPhaseTimeout - 1
  /\ UNCHANGED <<pc, attempt, devGot>>
  /\ SendUnchanged

\* Mutant: each awaitControl has a deadline of its own.
AwaitTimeoutEach ==
  /\ Awaiting
  /\ now' = now + authPhaseTimeout
  /\ pc' = "failed"
  /\ UNCHANGED <<attempt, devGot>>
  /\ SendUnchanged

\* hCtx, which counts from the start of the handshake, is done.
AwaitTimeout ==
  /\ Awaiting
  /\ controlCh = << >> \/ now >= authPhaseTimeout
  /\ now' = IF now < authPhaseTimeout THEN authPhaseTimeout ELSE now
  /\ pc' = "failed"
  /\ UNCHANGED <<attempt, devGot>>
  /\ SendUnchanged

\* The session's context ends a wait of either kind.
Cancelled ==
  /\ Sending \/ Awaiting
  /\ pc' = "failed"
  /\ UNCHANGED <<now, attempt, devGot>>
  /\ SendUnchanged

Finish(response) ==
  SendPayload(authFinish(response, cred.user, defaultTermType, Cols, Rows), "ackFinish")

Stop(why) == pc' = why /\ UNCHANGED <<meant, attempt>>

\* The switch on the length of the PASSSALT body.
AnswerSalt(body) ==
  IF Len(body) = md5SaltLen
  THEN Finish(computeMD5Response(cred.pass, body))
  ELSE IF Len(body) = ecsrpSaltLen
  THEN LET salt == SubSeq(body, ecsrpPubkeyLen + 1, ecsrpSaltLen)
           r == docrypto(cred.priv, KeyOf(body), clientPub,
                         mtweiID(cred.user, cred.pass, salt))
       IN  IF r = NotOnCurve THEN Stop("failed")
           ELSE IF r = Panic THEN Stop("panic")
           ELSE Finish(ResponseBytes(r))
  ELSE Stop("failed")

\* awaitControl takes the next record and drops those of other types.
AwaitSalt ==
  /\ pc = "salt" /\ controlCh # << >>
  /\ controlCh' = Tail(controlCh)
  /\ IF Head(controlCh).cpt = cpTypePassSalt
     THEN AnswerSalt(Head(controlCh).body)
     ELSE UNCHANGED <<pc, meant, attempt>>
  /\ UNCHANGED <<now, budget, schedule, cred, clientPub, devGot, devKey, packet,
                 accepted>>

AwaitEndAuth ==
  /\ pc = "endauth" /\ controlCh # << >>
  /\ controlCh' = Tail(controlCh)
  /\ pc' = IF Head(controlCh).cpt = cpTypeEndAuth THEN "ok" ELSE pc
  /\ UNCHANGED <<now, budget, schedule, attempt, cred, clientPub, meant,
                 devGot, devKey, packet, accepted>>

----------------------------------------------------------------------------
(* The device: outside the repository, but for keygen, whose second        *)
(* argument is the server's side of the exchange.                          *)

\* The bytes arrive, possibly cut short, and rxLoop queues the framed records.
Decoded(recs, cut) ==
  LET whole == encodeAll(recs)
  IN  iterateControl(SubSeq(whole, 1, Len(whole) - cut))

\* The records of recs that carry a type.
Framed(recs) ==
  FlattenSeq([i \in 1 .. Len(recs) |->
                IF recs[i].cpt = cpTypePlainData THEN << >> ELSE <<recs[i]>>])

DeviceSends(recs, cut) == controlCh' = controlCh \o Framed(Decoded(recs, cut))

DeviceUnchanged == UNCHANGED <<pc, now, budget, schedule, attempt, cred,
                               clientPub, meant, devGot>>

\* What the device made of the first payload: name up to the zero, then key.
InitBody   == devGot[1][2].body
DeviceUser == SubSeq(InitBody, 1, Len(InitBody) - ecsrpPubkeyLen - 1)
DeviceSees == KeyOf(SubSeq(InitBody, Len(DeviceUser) + 2, Len(InitBody)))

Validator(salt) == mtweiID(DeviceUser, Password, salt)

\* What PASSSALT may carry: a salt alone, or behind a key.
DeviceKeys ==
  [mode : {"md5"}, priv : {0}, key : {<< >>}, salt : Salts]
    \cup {[mode |-> "ecsrp", priv |-> k[1], salt |-> k[2],
           key |-> KeyBytes(keygen(k[1], Validator(k[2])))] :
            k \in {q \in DevicePrivs \X Salts :
                    keygen(q[1], Validator(q[2])) # Panic}}
    \cup [mode : {"junk"}, priv : {0}, key : JunkKeys, salt : Salts]

SaltBody(k) == k.key \o k.salt

\* A packet may carry other records before, and terminal data after.
Around(r) == {<<r>>, <<Rec(7, <<1>>), r>>, <<r, Rec(cpTypePlainData, <<86, 52>>)>>}

DeviceSalt ==
  /\ Len(devGot) >= 1 /\ devKey = NoKey
  /\ \E k \in DeviceKeys, cut \in Cuts :
       /\ devKey' = k
       /\ \E recs \in Around(Rec(cpTypePassSalt, SaltBody(k))) :
            DeviceSends(recs, cut) /\ packet' = [recs |-> recs, cut |-> cut]
  /\ DeviceUnchanged /\ UNCHANGED accepted

\* The device's own computation of the answer.
Expected ==
  IF devKey.mode = "md5" THEN computeMD5Response(Password, devKey.salt)
  ELSE LET v == Validator(devKey.salt)
           h == keyHash(DeviceSees, keygen(devKey.priv, v))
           A == liftX((DeviceSees.x + m2w) % p, DeviceSees.parity)
           hV == scalarMult((h * v) % n, generator)
           s == scalarMult(devKey.priv, IF hV = Infinity THEN A ELSE add(A, hV))
       IN  ResponseBytes(secret(h, s))

Answer == devGot[2][1].body

DeviceEndAuth ==
  /\ Len(devGot) = 2 /\ devKey.mode \in {"md5", "ecsrp"}
  /\ ~accepted /\ Answer = Expected
  /\ accepted' = TRUE
  /\ DeviceSends(<<Rec(cpTypeEndAuth, << >>)>>, 0)
  /\ DeviceUnchanged /\ UNCHANGED <<devKey, packet>>

----------------------------------------------------------------------------

Returned == pc \in {"ok", "failed", "panic"}
Finished == Returned /\ UNCHANGED vars

Next ==
  \/ Start \/ StartFails \/ Acked \/ NoAck
  \/ AwaitLonger \/ AwaitTimeout \/ Cancelled \/ AwaitSalt \/ AwaitEndAuth
  \/ DeviceSalt \/ DeviceEndAuth
  \/ Finished

Spec == Init /\ [][Next]_vars

----------------------------------------------------------------------------
(* Properties.                                                             *)

\* Every variable has its type: the clock and the attempt stay inside what
\* the schedule allows, and every record decoded has a wire type.
HandshakeTypeOK ==
  /\ pc \in {"start", "ackInit", "salt", "ackFinish", "endauth", "ok", "failed", "panic"}
  /\ now \in Nat
  /\ attempt \in 1 .. Len(schedule)
  /\ Len(devGot) <= 2
  /\ \A i \in 1 .. Len(controlCh) : controlCh[i].cpt \in -128 .. 127

\* buildRetransmitSchedule spends the operator's budget to the millisecond,
\* in intervals that never shrink before the last and never exceed a second.
ScheduleSpendsBudget ==
  /\ Sum(schedule) = IF budget > 0 THEN budget ELSE Sum(upstreamRamp)
  /\ \A i \in 1 .. Len(schedule) : schedule[i] \in 1 .. Second
  /\ \A i \in 1 .. (Len(schedule) - 2) : schedule[i] <= schedule[i + 1]

Later(x, y) == IF x < y THEN y ELSE x

\* What does bound Open: the auth-phase timeout and one more retransmit budget,
\* or two budgets if the operator made the budget the longer of the two.  The
\* sends are not under hCtx, which only the two awaitControl calls look at.
OpenBounded ==
  now <= Later(authPhaseTimeout, Sum(schedule)) + Sum(schedule)

\* "authPhaseTimeout caps the entire SESSIONSTART -> END_AUTH dance"
\* (session.go, the constant), and the handshake blocks until END_AUTH "or the
\* auth-phase timeout/ctx fires" (its comment): no wait of Open ends later.
OpenWithinAuthPhase == now <= authPhaseTimeout

LittleEndian(s) == s[1] + 256 * s[2]

\* The device reads back what was meant: name and key from the first payload,
\* name, terminal and dimensions from the second.
DeviceReadsWhatWasMeant ==
  /\ Len(devGot) >= 1 =>
       devGot[1][1].cpt = cpTypeBeginAuth /\ DeviceUser = cred.user
       /\ DeviceSees = clientPub
  /\ Len(devGot) = 2 =>
       LET body(t) == devGot[2][CHOOSE i \in 1 .. 5 : devGot[2][i].cpt = t].body
       IN  /\ body(cpTypeUsername) = cred.user
           /\ body(cpTypeTermType) = defaultTermType
           /\ LittleEndian(body(cpTypeTermWidth)) = Cols
           /\ LittleEndian(body(cpTypeTermHeight)) = Rows

\* The bytes a record takes, and where the i-th one ends.
Size(r) == Len(r.body) + IF r.cpt = cpTypePlainData THEN 0 ELSE cpHeaderLen
EndOf(recs, i) == Sum([j \in 1 .. i |-> Size(recs[j])])

\* The first w records, and no more, arrive whole in `len` bytes.
Whole(recs, len, w) ==
  /\ EndOf(recs, w) <= len
  /\ w < Len(recs) => EndOf(recs, w + 1) > len

\* What m bytes of a record mean: the body that arrived, or the broken header
\* as plain bytes.
CutRecord(r, m) ==
  IF r.cpt = cpTypePlainData THEN Rec(r.cpt, SubSeq(r.body, 1, m))
  ELSE IF m < cpHeaderLen THEN Rec(cpTypePlainData, SubSeq(encodeControl(r), 1, m))
  ELSE Rec(r.cpt, SubSeq(r.body, 1, m - cpHeaderLen))

\* What a packet cut to `len` bytes means.
Meaning(recs, len) ==
  LET w    == CHOOSE i \in 0 .. Len(recs) : Whole(recs, len, i)
      more == len - EndOf(recs, w)
  IN  SubSeq(recs, 1, w) \o (IF more = 0 THEN << >> ELSE <<CutRecord(recs[w + 1], more)>>)

\* A packet that lost its end yields nothing that was not in it: whole records
\* stay whole, the one that was cut is the last, and nothing is skipped.
CutPacketKeepsPrefix ==
  LET recs == packet.recs
  IN  Decoded(recs, packet.cut) = Meaning(recs, EndOf(recs, Len(recs)) - packet.cut)

SaltArrived ==
  \E i \in 1 .. Len(Decoded(packet.recs, packet.cut)) :
    Decoded(packet.recs, packet.cut)[i] = Rec(cpTypePassSalt, SaltBody(devKey))

\* With the right password, the answer in the second payload is the one the
\* device computes from its own half of the exchange, in either mode; and no
\* nil coordinate is used except where a scalar is a multiple of the group
\* order, which the code's order of 2^252 makes as good as impossible.
RightPasswordAccepted ==
  cred.pass = Password /\ devKey.mode # "junk" =>
    /\ Len(devGot) = 2 /\ SaltArrived => Answer = Expected
    /\ pc = "panic" =>
         \/ cred.priv % n = 0
         \/ /\ devKey.mode = "ecsrp"
            /\ LET h == keyHash(clientPub, KeyOf(devKey.key))
               IN  \/ devKey.priv % n = 0
                   \/ (Validator(devKey.salt) * h + cred.priv) % n = 0

=============================================================================
