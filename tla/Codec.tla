-------------------------------- MODULE Codec --------------------------------
(***************************************************************************)
(* The bytes inside a datagram: control records (protocol.go) and the two  *)
(* authentication payloads made of them (auth.go).  A byte string is a     *)
(* sequence of numbers below 256.                                          *)
(***************************************************************************)
EXTENDS Integers, Sequences, SequencesExt

cpHeaderLen == 9
cpMagic     == <<86, 52, 18, 255>>      \* 0x56 0x34 0x12 0xff

cpTypeBeginAuth  == 0
cpTypePassSalt   == 1
cpTypePassword   == 2
cpTypeUsername   == 3
cpTypeTermType   == 4
cpTypeTermWidth  == 5
cpTypeTermHeight == 6
cpTypeEndAuth    == 9
cpTypePlainData  == -1

Rec(cpt, body) == [cpt |-> cpt, body |-> body]

\* binary.BigEndian.PutUint32 and Uint32; binary.LittleEndian.PutUint16.
Shift8(v)    == v \div 256
PutUint32(v) == <<Shift8(Shift8(Shift8(v))), Shift8(Shift8(v)) % 256, Shift8(v) % 256, v % 256>>
Uint32(s)    == ((s[1] * 256 + s[2]) * 256 + s[3]) * 256 + s[4]
PutUint16LE(v) == <<v % 256, v \div 256>>

\* One record; PLAINDATA is written without magic, type and length.
encodeControl(r) ==
  IF r.cpt = cpTypePlainData THEN r.body
  ELSE cpMagic \o <<r.cpt % 256>> \o PutUint32(Len(r.body)) \o r.body

\* The records one after the other, as the callers append them.
encodeAll(recs) == FlattenSeq([i \in 1 .. Len(recs) |-> encodeControl(recs[i])])

\* cpType(int8(b))
Int8(byte) == IF byte > 127 THEN byte - 256 ELSE byte

\* Mutant: a length beyond the payload counts as none.
bodyLenStrict(s, off) ==
  LET ln == Uint32(SubSeq(s, off + 6, off + 9))
  IN  IF ln > Len(s) - off - cpHeaderLen THEN 0 ELSE ln

\* The length field of the record after off bytes, clamped to what is there.
bodyLen(s, off) ==
  LET ln   == Uint32(SubSeq(s, off + 6, off + 9))
      rest == Len(s) - off - cpHeaderLen
  IN  IF ln > rest THEN rest ELSE ln

\* One turn of the loop of iterateControl, which has read off bytes: a framed
\* record, or, without a whole header and magic, all the rest as PLAINDATA.
nextControl(s, at) ==
  LET rest == Len(s) - at.off
      body == at.off + cpHeaderLen
      end  == body + bodyLen(s, at.off)
  IN  IF rest = 0 THEN at
      ELSE IF rest < cpHeaderLen \/ SubSeq(s, at.off + 1, at.off + 4) # cpMagic
      THEN [off  |-> Len(s),
            recs |-> Append(at.recs, Rec(cpTypePlainData, SubSeq(s, at.off + 1, Len(s))))]
      ELSE [off  |-> end,
            recs |-> Append(at.recs, Rec(Int8(s[at.off + 5]), SubSeq(s, body + 1, end)))]

\* The records iterateControl yields; every turn but an idle one reads a byte.
iterateControl(s) ==
  LET after[k \in 0 .. Len(s)] ==
        IF k = 0 THEN [off |-> 0, recs |-> << >>] ELSE nextControl(s, after[k - 1])
  IN  after[Len(s)].recs

(* The authentication payloads.                                            *)

\* BEGINAUTH, then the user name, a zero byte and the client's public key.
authInit(username, clientPub) ==
  <<Rec(cpTypeBeginAuth, << >>),
    Rec(cpTypePassSalt, username \o <<0>> \o clientPub)>>

\* Mutant: the dimensions are big-endian, like every other field.
authFinishBE(response, username, termType, cols, rows) ==
  <<Rec(cpTypePassword, response), Rec(cpTypeUsername, username),
    Rec(cpTypeTermType, termType),
    Rec(cpTypeTermWidth, <<cols \div 256, cols % 256>>),
    Rec(cpTypeTermHeight, <<rows \div 256, rows % 256>>)>>

authFinish(response, username, termType, cols, rows) ==
  <<Rec(cpTypePassword, response), Rec(cpTypeUsername, username),
    Rec(cpTypeTermType, termType),
    Rec(cpTypeTermWidth, PutUint16LE(cols)),
    Rec(cpTypeTermHeight, PutUint16LE(rows))>>

\* What buildAuthInit and buildAuthFinish do with the room they are given.
Fits(recs, room) == Len(encodeAll(recs)) <= room

=============================================================================
