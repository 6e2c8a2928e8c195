---------------------------- MODULE Hi229Proofs ----------------------------
(***************************************************************************)
(* Proofs about Hi229, for every buffer, wire, number of tasks, losses and *)
(* resets.  InsideBuffer rests on the room that is left for the next byte, *)
(* ReadIsWhole on who has met a publication since the copy began,          *)
(* AtMostTwice on the order in which samples leave the wire, ResyncBound   *)
(* on the number of symbols that remain before the next sample.            *)
(***************************************************************************)
EXTENDS Hi229, FiniteSetTheorems, TLAPS

(* What is on the wire.                                                    *)
LEMMA WireType ==
    ASSUME NEW p \in 0 .. Samples * FrameLen, p < Samples * FrameLen
    PROVE  Symbol(p) \in Symbols
    BY FrameAssumption DEF Symbols, FrameLen, Header, Payload

LEMMA SampleType ==
    ASSUME NEW s \in Symbols
    PROVE  s.sample \in 0 .. Samples
<1>1. CASE s = Zero
    BY <1>1, FrameAssumption DEF Zero
<1>2. CASE \E p \in 0 .. Samples * FrameLen - 1 : s = Symbol(p)
  <2>1. PICK p \in 0 .. Samples * FrameLen - 1 : s = Symbol(p)
      BY <1>2
  <2>2. s.sample = (p \div 6) + 1 /\ p \in 0 .. Samples * 6 - 1
      BY <2>1 DEF Symbol, FrameLen, Header, Payload
  <2> QED BY <2>2, FrameAssumption
<1> QED BY <1>1, <1>2 DEF Symbols

LEMMA LengthType ==
    ASSUME NEW s, NEW n \in Lengths(s)
    PROVE  n \in 0 .. MaxLen + 1
    BY FrameAssumption DEF Lengths, Payload
-----------------------------------------------------------------------------
(* The parser.                                                             *)

Stages == {"idle", "synced", "append", "header", "test", "decode", "parse",
           "parsing", "copy", "copying", "stamp", "publish"}

(* There is room for the next byte: a count beyond the header belongs to a *)
(* length that has been checked, except while that length is being read.   *)
RoomLeft ==
    /\ ppc = "header" => (nbyte > Header => len <= MaxLen)
    /\ ppc \notin {"header", "append"} => (nbyte >= Header => len <= MaxLen)
    /\ ppc = "append" => (at >= Header => len <= MaxLen)
    /\ ppc \notin {"append", "header", "test"} => nbyte < Header \/ nbyte < len + Header
    /\ ppc \in {"decode", "parse", "parsing"} => len <= MaxLen

ParserType ==
    /\ pos \in 0 .. Samples * FrameLen
    /\ nbyte \in 0 .. Size /\ len \in 0 .. MaxLen + 1 /\ at \in 0 .. Size - 1
    /\ buf \in [0 .. Size - 1 -> Symbols] /\ byte \in Symbols
    /\ ppc \in Stages /\ imu \in Halves
    /\ RoomLeft

(* The tasks that read leave the parser alone, but for its zeroed state.   *)
LEMMA ParserTyped == Spec => []ParserType
<1> USE FrameAssumption
<1>1. Init => ParserType
  <2>1. Cleared \in [0 .. Size - 1 -> Symbols] /\ Zero \in Symbols
      BY DEF Cleared, Symbols
  <2>2. Samples * FrameLen \in Nat
      BY DEF FrameLen, Header, Payload
  <2> QED
      BY <2>1, <2>2 DEF Init, ParserType, RoomLeft, Stages, Size, Header, Payload,
                        Halves, Nothing
<1>2. ParserType /\ [Next]_vars => ParserType'
  <2> SUFFICES ASSUME ParserType, [Next]_vars PROVE ParserType'
      OBVIOUS
  <2> USE DEF ParserType, RoomLeft, Stages, PollStep, raw, published, ghosts
  <2>z. Zero \in Symbols /\ Samples * FrameLen \in Nat
      BY DEF Symbols, FrameLen, Header, Payload
  <2>s. Size = 4 + MaxLen /\ Header = 4
      BY DEF Size, Header
  <2>c. Cleared \in [0 .. Size - 1 -> Symbols]
      BY <2>z DEF Cleared
  <2>1. CASE Lose
      BY <2>1, <2>z DEF Lose, poll
  <2>2. CASE Hunt
    <3>1. Symbol(pos) \in Symbols
        BY <2>2, WireType DEF Hunt, Takes
    <3>2. buf' \in [0 .. Size - 1 -> Symbols]
        BY <2>2, <3>1, <2>s DEF Hunt, Payload
    <3>3. pos' \in 0 .. Samples * FrameLen
        BY <2>2, <2>z DEF Hunt, Takes
    <3> QED BY <2>2, <2>s, <3>2, <3>3 DEF Hunt
  <2>3. CASE Synced
      BY <2>3, <2>s DEF Synced
  <2>4. CASE Fetch
    <3>1. Symbol(pos) \in Symbols
        BY <2>4, WireType DEF Fetch, Takes
    <3>2. pos' \in 0 .. Samples * FrameLen
        BY <2>4, <2>z DEF Fetch, Takes
    <3> QED BY <2>4, <2>s, <3>1, <3>2 DEF Fetch, Payload
  <2>5. CASE Store
      BY <2>5, <2>s, <2>z DEF Store
  <2>6. CASE ReadLength
    <3>1. PICK n \in Lengths(buf[2]) :
            /\ len' = n
            /\ IF n > MaxLen THEN nbyte' = 0 /\ ppc' = "idle"
               ELSE UNCHANGED nbyte /\ ppc' = "test"
        BY <2>6 DEF ReadLength
    <3>2. n \in 0 .. MaxLen + 1
        BY LengthType
    <3> QED BY <2>6, <2>s, <3>1, <3>2 DEF ReadLength
  <2>7. CASE NoHeader \/ Incomplete
      BY <2>7, <2>s DEF NoHeader, Incomplete
  <2>8. CASE Complete
      BY <2>8, <2>s DEF Complete
  <2>9. CASE Decode
      BY <2>9, <2>s DEF Decode
  <2>10. CASE ParseLow
    <3>1. buf[Header].sample \in 0 .. Samples
        BY <2>s, SampleType DEF Payload
    <3> QED BY <2>10, <2>s, <3>1 DEF ParseLow, Halves
  <2>11. CASE ParseHigh
    <3>1. buf[Header + 1].sample \in 0 .. Samples
        BY <2>s, SampleType DEF Payload
    <3> QED BY <2>11, <2>s, <3>1 DEF ParseHigh, Halves
  <2>12. CASE CopyLow \/ CopyHigh \/ Stamp \/ Publish
      BY <2>12 DEF CopyLow, CopyHigh, Stamp, Publish
  <2>13. ASSUME NEW r \in Readers, Read(r) PROVE ParserType'
      BY <2>13 DEF Read, ReaderStep, poll, marks,
                   ReadWait, ReadLow, ReadHigh, ReadStamp, ReadClear
  <2>14. ASSUME NEW r \in Readers, Reset(r) PROVE ParserType'
    <3>1. CASE ResetCounters(r)
        BY <3>1, <2>s DEF ResetCounters, ReaderStep, poll
    <3>2. CASE ResetBuffer(r)
        BY <3>2, <2>c DEF ResetBuffer, ReaderStep, poll
    <3>3. CASE ResetImu(r)
        BY <3>3 DEF ResetImu, ReaderStep, poll, Halves, Nothing
    <3>4. CASE Flush(r)
        BY <3>4, <2>z DEF Flush, ReaderStep, poll
    <3> QED BY <2>14, <3>1, <3>2, <3>3, <3>4 DEF Reset
  <2>15. CASE UNCHANGED vars
      BY <2>15 DEF vars, poll
  <2> QED
      BY <2>1, <2>2, <2>3, <2>4, <2>5, <2>6, <2>7, <2>8, <2>9, <2>10, <2>11,
         <2>12, <2>13, <2>14, <2>15
      DEF Next, Poll
<1> QED BY <1>1, <1>2, PTL DEF Spec
-----------------------------------------------------------------------------
(* The tasks that read, and what is published.                             *)

ReadStages == Copying \cup {"idle", "buffer", "imu", "flush"}

ReaderType ==
    /\ snap \in Halves /\ stamp \in 0 .. Samples /\ ready \in BOOLEAN
    /\ rpc \in [Readers -> ReadStages]
    /\ out \in [Readers -> Outs]
    /\ gaps \in Nat /\ resets \in 0 .. MaxResets
    /\ overlap \subseteq Readers

LEMMA ReaderTyped == Spec => []ReaderType
<1> USE FrameAssumption DEF ReaderType
<1>1. Init => ReaderType
  <2> SUFFICES ASSUME Init PROVE ReaderType
      OBVIOUS
  <2>1. ready \in BOOLEAN
      BY Zenon DEF Init
  <2>2. out \in [Readers -> Outs] /\ rpc \in [Readers -> ReadStages]
      BY DEF Init, Outs, NothingRead, ReadStages
  <2> QED BY <2>1, <2>2 DEF Init, Halves, Nothing
<1>2. ParserType /\ ReaderType /\ [Next]_vars => ReaderType'
  <2> SUFFICES ASSUME ParserType, ReaderType, [Next]_vars PROVE ReaderType'
      OBVIOUS
  <2> USE DEF PollStep, raw, published, reading, bounds, ghosts
  <2>1. CASE Lose
      BY <2>1 DEF Lose
  <2>2. CASE Hunt \/ Synced \/ Fetch \/ Store \/ ReadLength \/ NoHeader
      BY <2>2 DEF Hunt, Synced, Fetch, Store, ReadLength, NoHeader
  <2>3. CASE Incomplete \/ Complete \/ Decode
      BY <2>3 DEF Incomplete, Complete, Decode
  <2>4. CASE ParseLow \/ ParseHigh
      BY <2>4 DEF ParseLow, ParseHigh
  <2>5. CASE CopyLow \/ CopyHigh \/ Stamp
      BY <2>5 DEF CopyLow, CopyHigh, Stamp, Meets, ParserType, Halves
  <2>6. CASE Publish
    <3>1. ready' \in BOOLEAN
        BY <2>6, Zenon DEF Publish
    <3>2. UNCHANGED <<snap, stamp, rpc, out, bounds, overlap>>
        BY <2>6 DEF Publish
    <3> QED BY <3>1, <3>2
  <2>7. ASSUME NEW r \in Readers, Read(r) PROVE ReaderType'
    <3> USE DEF ReaderStep, Copying, ReadStages, marks
    <3>1. CASE ReadWait(r)
        BY <3>1 DEF ReadWait
    <3>2. CASE ReadLow(r)
        BY <3>2 DEF ReadLow, Halves, Outs
    <3>3. CASE ReadHigh(r)
        BY <3>3 DEF ReadHigh, Halves, Outs
    <3>4. CASE ReadStamp(r)
        BY <3>4 DEF ReadStamp, Outs
    <3>5. CASE ReadClear(r)
      <4>1. ready' \in BOOLEAN
          BY <3>5, Zenon DEF ReadClear
      <4>2. /\ rpc' = [rpc EXCEPT ![r] = "idle"]
            /\ out' = [out EXCEPT ![r] = NothingRead]
            /\ UNCHANGED <<snap, stamp, bounds, overlap>>
          BY <3>5 DEF ReadClear
      <4> QED BY <4>1, <4>2 DEF NothingRead, Outs
    <3> QED BY <2>7, <3>1, <3>2, <3>3, <3>4, <3>5 DEF Read
  <2>8. ASSUME NEW r \in Readers, Reset(r) PROVE ReaderType'
    <3> USE DEF ReaderStep, ReadStages
    <3>1. CASE ResetCounters(r)
        BY <3>1 DEF ResetCounters
    <3>2. CASE ResetBuffer(r) \/ ResetImu(r) \/ Flush(r)
        BY <3>2 DEF ResetBuffer, ResetImu, Flush
    <3> QED BY <2>8, <3>1, <3>2 DEF Reset
  <2>9. CASE UNCHANGED vars
      BY <2>9 DEF vars, marks
  <2> QED
      BY <2>1, <2>2, <2>3, <2>4, <2>5, <2>6, <2>7, <2>8, <2>9 DEF Next, Poll
<1> QED BY <1>1, <1>2, ParserTyped, PTL DEF Spec

(* The flags of the history are Boolean.                                   *)
FlagType == spoilt \in BOOLEAN /\ damaged \in BOOLEAN

LEMMA FlagsTyped == Spec => []FlagType
<1> USE DEF FlagType
<1>1. Init => FlagType
    BY Zenon DEF Init
<1>2. FlagType /\ [Next]_vars => FlagType'
  <2> SUFFICES ASSUME FlagType, [Next]_vars PROVE FlagType'
      OBVIOUS
  <2>1. CASE UNCHANGED ghosts
      BY <2>1 DEF ghosts
  <2>2. CASE ParseLow
    <3>1. spoilt' = spoilt \/ spoilt' = FALSE
        BY <2>2, Zenon DEF ParseLow
    <3>2. spoilt' \in BOOLEAN
        BY <3>1, Zenon
    <3>3. damaged' = damaged
        BY <2>2, Zenon DEF ParseLow
    <3> QED BY <3>2, <3>3, Zenon
  <2>3. CASE CopyLow \/ CopyHigh \/ Stamp
      BY <2>3, Zenon DEF CopyLow, CopyHigh, Stamp
  <2>4. CASE Lose \/ UNCHANGED vars
      BY <2>4 DEF Lose, vars, marks, ghosts
  <2>5. ASSUME NEW r \in Readers, Read(r) PROVE FlagType'
      BY <2>5 DEF Read, ReadWait, ReadLow, ReadHigh, ReadStamp, ReadClear, marks, ghosts
  <2>6. ASSUME NEW r \in Readers, Reset(r) PROVE FlagType'
    <3>1. Disturb
        BY <2>6 DEF Reset, ResetCounters, ResetBuffer, ResetImu, Flush
    <3> QED BY <3>1, Zenon DEF Disturb
  <2>7. CASE Poll
      BY <2>7, <2>1, <2>2, <2>3
      DEF Poll, Hunt, Synced, Fetch, Store, ReadLength, NoHeader, Incomplete,
          Complete, Decode, ParseHigh, Publish
  <2> QED BY <2>4, <2>5, <2>6, <2>7 DEF Next
<1> QED BY <1>1, <1>2, PTL DEF Spec

(* Since when symbols are counted.                                         *)
CountType == since \in 0 .. pos /\ undisturbed \in Nat

LEMMA CountTyped == Spec => []CountType
<1> USE DEF CountType
<1>1. Init => CountType
    BY DEF Init
<1>2. ParserType /\ CountType /\ [Next]_vars => CountType'
  <2> SUFFICES ASSUME ParserType, CountType, [Next]_vars PROVE CountType'
      OBVIOUS
  <2>1. CASE Lose \/ Publish \/ \E r \in Readers : Reset(r)
    <3>1. pos' \in Nat /\ since' = pos' /\ undisturbed' = 0
        BY <2>1, FrameAssumption DEF Lose, Publish, Reset, ResetCounters, ResetBuffer, ResetImu, Flush,
                                     Disturb, ParserType, FrameLen, Header, Payload
    <3> QED BY <3>1
  <2>2. CASE Hunt \/ Fetch
      BY <2>2 DEF Hunt, Fetch, Takes, ParserType
  <2>3. CASE UNCHANGED <<pos, count>>
      BY <2>3 DEF count
  <2>4. Poll => Hunt \/ Fetch \/ Publish \/ UNCHANGED <<pos, count>>
      BY DEF Poll, Synced, Store, ReadLength, NoHeader, Incomplete, Complete, Decode,
             ParseLow, ParseHigh, CopyLow, CopyHigh, Stamp
  <2>5. (\E r \in Readers : Read(r)) \/ UNCHANGED vars => UNCHANGED <<pos, count>>
      BY DEF Read, ReadWait, ReadLow, ReadHigh, ReadStamp, ReadClear, vars, marks
  <2> QED BY <2>1, <2>2, <2>3, <2>4, <2>5 DEF Next
<1> QED BY <1>1, <1>2, ParserTyped, PTL DEF Spec

(* Every variable keeps its type, for every wire and number of tasks.      *)
THEOREM TypeCorrect == Spec => []TypeOK
<1>1. ParserType /\ ReaderType /\ FlagType /\ CountType => TypeOK
    BY DEF ParserType, ReaderType, FlagType, CountType, TypeOK, Stages, ReadStages
<1> QED BY <1>1, ParserTyped, ReaderTyped, FlagsTyped, CountTyped, PTL

(* However the frames are torn by gaps and by resets at any moment,        *)
(* ch_serial_input stores no byte outside raw.buf and decode_ch reads none *)
(* there; the stores of parse_data into imu and item_code are not in the   *)
(* model.                                                                  *)
THEOREM AlwaysInsideBuffer == Spec => []InsideBuffer
<1>1. ParserType => InsideBuffer
    BY FrameAssumption DEF ParserType, RoomLeft, InsideBuffer, Size, Header
<1> QED BY <1>1, ParserTyped, PTL
-----------------------------------------------------------------------------
(* ReadIsWhole.  A frame that fits holds the two halves of one sample, so  *)
(* what is parsed and copied from it is whole until a reset comes between. *)

FrameInv ==
    /\ ppc = "parse" /\ len > 0 /\ buf[Header] # Zero
         => buf[Header].sample = buf[Header + 1].sample
    /\ ppc = "parsing" /\ spoilt = FALSE => imu.low = buf[Header + 1].sample
    /\ ppc # "parsing" /\ spoilt = FALSE => imu.low = imu.high

SnapInv ==
    damaged = FALSE =>
      /\ ppc = "copying" => snap.low = imu.low /\ imu.low = imu.high
      /\ ppc # "copying" => snap.low = snap.high
      /\ ppc \notin {"copying", "stamp"} => stamp = snap.low

(* Who has not met a publication has copied what is still published.       *)
CopyInv ==
    /\ ppc \in {"copying", "stamp"} =>
         \A r \in Readers : rpc[r] \in Copying => r \in overlap
    /\ \A r \in Readers \ overlap :
         /\ rpc[r] \in {"high", "stamp", "clear"} => out[r].low = snap.low
         /\ rpc[r] \in {"stamp", "clear"} => out[r].high = snap.high
         /\ rpc[r] = "clear" => out[r].stamp = stamp

(* A frame whose checksum fits is one that was sent, or zeros.             *)
LEMMA FittingFrame ==
    ASSUME ParserType, ChecksumFits, len > 0, buf[Header] # Zero
    PROVE  buf[Header].sample = buf[Header + 1].sample
<1> USE FrameAssumption
<1>1. ~ \A i \in 0 .. Header + len - 1 : buf[i] = Zero
  <2>1. Header \in 0 .. Header + len - 1
      BY DEF ParserType, Header
  <2> QED BY <2>1
<1>2. PICK k \in 1 .. Samples :
        \A i \in 0 .. FrameLen - 1 : buf[i] = Symbol((k - 1) * FrameLen + i)
    BY <1>1 DEF ChecksumFits
<1>3. buf[4] = Symbol((k - 1) * 6 + 4) /\ buf[5] = Symbol((k - 1) * 6 + 5)
    BY <1>2 DEF FrameLen, Header, Payload
<1>4. buf[4].sample = ((k - 1) * 6 + 4) \div 6 + 1
    BY <1>3 DEF Symbol, FrameLen, Header, Payload
<1>5. buf[5].sample = ((k - 1) * 6 + 5) \div 6 + 1
    BY <1>3 DEF Symbol, FrameLen, Header, Payload
<1>6. ((k - 1) * 6 + 4) \div 6 = k - 1 /\ ((k - 1) * 6 + 5) \div 6 = k - 1
    OBVIOUS
<1> QED BY <1>4, <1>5, <1>6 DEF Header

(* Of the steps of the readers only a reset touches the parser.            *)
LEMMA FrameStep ==
    ASSUME ParserType, FlagType, FrameInv, [Next]_vars
    PROVE  FrameInv'
<1> USE FrameAssumption DEF FrameInv, PollStep, raw, ghosts
<1>s. Header = 4
    BY DEF Header
<1>1. CASE Lose
    BY <1>1 DEF Lose, poll
<1>2. CASE Hunt \/ Synced \/ Fetch \/ Store \/ ReadLength \/ NoHeader
    BY <1>2 DEF Hunt, Synced, Fetch, Store, ReadLength, NoHeader
<1>3. CASE Incomplete \/ Complete
    BY <1>3 DEF Incomplete, Complete
<1>4. CASE Decode
    BY <1>4, FittingFrame DEF Decode
<1>5. CASE ParseLow
    BY <1>5, <1>s DEF ParseLow, ParserType, Halves
<1>6. CASE ParseHigh
    BY <1>6, <1>s DEF ParseHigh, ParserType, Halves
<1>7. CASE CopyLow \/ CopyHigh \/ Stamp \/ Publish
    BY <1>7 DEF CopyLow, CopyHigh, Stamp, Publish
<1>8. ASSUME NEW r \in Readers, Read(r) PROVE FrameInv'
    BY <1>8 DEF Read, ReaderStep, poll, marks,
                ReadWait, ReadLow, ReadHigh, ReadStamp, ReadClear
<1>9. ASSUME NEW r \in Readers, Reset(r) PROVE FrameInv'
  <2> USE DEF ReaderStep, poll
  <2>1. Disturb
      BY <1>9 DEF Reset, ResetCounters, ResetBuffer, ResetImu, Flush
  <2>2. ppc = "parsing" => spoilt' # FALSE
      BY <2>1, Zenon DEF Disturb
  <2>3. spoilt' = FALSE => spoilt = FALSE
      BY <2>1, FlagType, Zenon DEF Disturb, FlagType
  <2>4. CASE ResetCounters(r)
      BY <2>4, <2>2, <2>3 DEF ResetCounters
  <2>5. CASE ResetBuffer(r)
    <3>1. buf'[Header] = Zero
        BY <2>5, <1>s DEF ResetBuffer, Cleared, Size, Payload
    <3> QED BY <3>1, <2>5, <2>2, <2>3 DEF ResetBuffer
  <2>6. CASE ResetImu(r)
      BY <2>6, <2>2, <2>3 DEF ResetImu, Nothing
  <2>7. CASE Flush(r)
      BY <2>7, <2>2, <2>3 DEF Flush
  <2> QED BY <1>9, <2>4, <2>5, <2>6, <2>7 DEF Reset
<1>10. CASE UNCHANGED vars
    BY <1>10 DEF vars, poll, marks
<1> QED
    BY <1>1, <1>2, <1>3, <1>4, <1>5, <1>6, <1>7, <1>8, <1>9, <1>10 DEF Next, Poll

(* Of the steps of the poll task only a publication touches the snapshot.  *)
LEMMA SnapStep ==
    ASSUME ParserType, ReaderType, FlagType, FrameInv, SnapInv, [Next]_vars
    PROVE  SnapInv'
<1> USE DEF SnapInv, PollStep, raw, ghosts, published
<1>1. CASE Lose
    BY <1>1 DEF Lose, poll
<1>2. CASE Hunt \/ Synced \/ Fetch \/ Store \/ ReadLength \/ NoHeader
    BY <1>2 DEF Hunt, Synced, Fetch, Store, ReadLength, NoHeader
<1>3. CASE Incomplete \/ Complete \/ Decode
    BY <1>3 DEF Incomplete, Complete, Decode
<1>4. CASE ParseLow \/ ParseHigh
    BY <1>4 DEF ParseLow, ParseHigh
<1>5. CASE CopyLow
    BY <1>5 DEF CopyLow, FrameInv, ReaderType, Halves
<1>6. CASE CopyHigh
    BY <1>6 DEF CopyHigh, ReaderType, Halves
<1>7. CASE Stamp \/ Publish
    BY <1>7 DEF Stamp, Publish
<1>8. ASSUME NEW r \in Readers, Read(r) PROVE SnapInv'
    BY <1>8 DEF Read, ReaderStep, poll, marks,
                ReadWait, ReadLow, ReadHigh, ReadStamp, ReadClear
<1>9. ASSUME NEW r \in Readers, Reset(r) PROVE SnapInv'
  <2>1. Disturb /\ UNCHANGED <<ppc, snap, stamp>>
      BY <1>9 DEF Reset, ResetCounters, ResetBuffer, ResetImu, Flush, ReaderStep, poll
  <2>2. ppc = "copying" => damaged' # FALSE
      BY <2>1, Zenon DEF Disturb
  <2>3. damaged' = FALSE => damaged = FALSE
      BY <2>1, FlagType, Zenon DEF Disturb, FlagType
  <2> QED BY <2>1, <2>2, <2>3
<1>10. CASE UNCHANGED vars
    BY <1>10 DEF vars, poll, marks
<1> QED
    BY <1>1, <1>2, <1>3, <1>4, <1>5, <1>6, <1>7, <1>8, <1>9, <1>10 DEF Next, Poll

(* A reader leaves overlap only by a wait, which starts its copy anew.     *)
LEMMA CopyStep ==
    ASSUME ReaderType, CopyInv, [Next]_vars
    PROVE  CopyInv'
<1> USE DEF CopyInv, PollStep, raw, ghosts, published, reading, Copying
<1>1. CASE Lose
    BY <1>1 DEF Lose, poll
<1>2. CASE Hunt \/ Synced \/ Fetch \/ Store \/ ReadLength \/ NoHeader
    BY <1>2 DEF Hunt, Synced, Fetch, Store, ReadLength, NoHeader
<1>3. CASE Incomplete \/ Complete \/ Decode
    BY <1>3 DEF Incomplete, Complete, Decode
<1>4. CASE ParseLow \/ ParseHigh
    BY <1>4 DEF ParseLow, ParseHigh
<1>5. CASE CopyLow \/ CopyHigh \/ Stamp
  <2>1. /\ UNCHANGED <<rpc, out>>
        /\ overlap' = overlap \cup {r \in Readers : rpc[r] \in Copying}
      BY <1>5 DEF CopyLow, CopyHigh, Stamp, Meets
  <2>2. ASSUME NEW r \in Readers, rpc[r] \in Copying
        PROVE  r \in overlap'
      BY <2>1, <2>2
  <2> QED BY <2>1, <2>2
<1>6. CASE Publish
    BY <1>6 DEF Publish
<1>7. ASSUME NEW r \in Readers, Read(r) PROVE CopyInv'
  <2> USE DEF ReaderStep, poll, marks, ReaderType, ReadStages
  <2>1. CASE ReadWait(r)
      BY <2>1 DEF ReadWait
  <2>2. CASE ReadLow(r)
      BY <2>2 DEF ReadLow, Outs
  <2>3. CASE ReadHigh(r)
      BY <2>3 DEF ReadHigh, Outs
  <2>4. CASE ReadStamp(r)
      BY <2>4 DEF ReadStamp, Outs
  <2>5. CASE ReadClear(r)
      BY <2>5 DEF ReadClear
  <2> QED BY <1>7, <2>1, <2>2, <2>3, <2>4, <2>5 DEF Read
<1>8. ASSUME NEW r \in Readers, Reset(r) PROVE CopyInv'
    BY <1>8 DEF Reset, ResetCounters, ResetBuffer, ResetImu, Flush, ReaderStep,
                poll, ReaderType, ReadStages
<1>9. CASE UNCHANGED vars
    BY <1>9 DEF vars, poll, marks
<1> QED
    BY <1>1, <1>2, <1>3, <1>4, <1>5, <1>6, <1>7, <1>8, <1>9 DEF Next, Poll

(* Although no task takes the mutex, an undisturbed read gets a whole      *)
(* sample with its own time: hi229_read tears a sample only when it meets  *)
(* hi229_poll_task's copy, or a reset met the sample.                      *)
THEOREM WholeReads == Spec => []ReadIsWhole
<1> DEFINE Inv == FrameInv /\ SnapInv /\ CopyInv
<1>1. Init => Inv
    BY DEF Init, FrameInv, SnapInv, CopyInv, Copying, Nothing
<1>2. ParserType /\ ReaderType /\ FlagType /\ Inv /\ [Next]_vars => Inv'
    BY FrameStep, SnapStep, CopyStep
<1>3. ParserType /\ ReaderType /\ FlagType /\ Inv => ReadIsWhole
  <2> SUFFICES ASSUME SnapInv, CopyInv, FlagType,
                      NEW r \in Readers \ overlap, rpc[r] = "clear", ~damaged
               PROVE  out[r].low = out[r].high /\ out[r].low = out[r].stamp
      BY DEF ReadIsWhole
  <2>1. damaged = FALSE
      BY Zenon DEF FlagType
  <2>2. ppc \notin {"copying", "stamp"}
      BY DEF CopyInv, Copying
  <2> QED BY <2>1, <2>2 DEF SnapInv, CopyInv
<1> QED
    BY <1>1, <1>2, <1>3, ParserTyped, ReaderTyped, FlagsTyped, PTL DEF Spec
-----------------------------------------------------------------------------
(* AtMostTwice.  The samples that anybody has met were on the wire before  *)
(* what the parser is reading now, so that a frame that fits has a sample  *)
(* nobody has met.  Only a frame that a reset has zeroed publishes the     *)
(* last sample again, and the reset made the readers forget it.            *)

SeenType == seen \in [Readers -> [sample : 0 .. Samples, times : Nat]]

LEMMA SeenTyped == Spec => []SeenType
<1> USE FrameAssumption DEF SeenType
<1>1. Init => SeenType
    BY DEF Init, Unseen
<1>2. SeenType /\ ReaderType /\ [Next]_vars => SeenType'
  <2> SUFFICES ASSUME SeenType, ReaderType, [Next]_vars PROVE SeenType'
      OBVIOUS
  <2>1. CASE UNCHANGED seen
      BY <2>1
  <2>2. ASSUME NEW r \in Readers, ReadClear(r) PROVE SeenType'
      BY <2>2 DEF ReadClear, ReaderType, Outs
  <2>3. ASSUME NEW r \in Readers, Reset(r) PROVE SeenType'
      BY <2>3 DEF Reset, ResetCounters, ResetBuffer, ResetImu, Flush, Disturb, Unseen
  <2>4. ASSUME NEW r \in Readers, Read(r), ~ ReadClear(r) PROVE UNCHANGED seen
      BY <2>4 DEF Read, ReadWait, ReadLow, ReadHigh, ReadStamp, marks
  <2>5. CASE Poll
      BY <2>1, <2>5 DEF Poll, PollStep, Hunt, Synced, Fetch, Store, ReadLength, NoHeader, Incomplete,
                  Complete, Decode, ParseLow, ParseHigh, CopyLow, CopyHigh, Stamp, Publish
  <2>6. CASE Lose \/ UNCHANGED vars
      BY <2>1, <2>6 DEF Lose, vars, marks
  <2> QED BY <2>1, <2>2, <2>3, <2>4, <2>5, <2>6 DEF Next
<1> QED BY <1>1, <1>2, ReaderTyped, PTL DEF Spec

(* A sample somebody has met, and a place on the wire after all of them.   *)
Around(x) == \/ x = imu.low \/ x = snap.low
          \/ \E r \in Readers : x = out[r].low \/ x = seen[r].sample
Before(q) == \A x \in 0 .. Samples : Around(x) => 6 * x <= q
Taken(s) == s = Zero \/ \E q \in 0 .. pos - 1 : s = Symbol(q)

(* The parser is in a frame, behind its sync codes.                        *)
InFrame == nbyte # 0 \/ ppc \in {"synced", "append", "header", "test", "decode"}

Decoding == {"synced", "decode", "parse", "parsing", "copy", "copying", "stamp", "publish"}

PlaceInv ==
    /\ nbyte # 1 /\ (ppc = "append" => at >= 2)
    /\ ppc \in Decoding => nbyte = 0

TakenInv == Taken(byte) /\ \A i \in 0 .. Size - 1 : Taken(buf[i])

HeadInv == InFrame /\ buf[1] # Zero => \E q \in 0 .. pos - 1 : buf[1] = Symbol(q) /\ Before(q)

FreshInv ==
    ppc = "parse" /\ len > 0 /\ buf[Header] # Zero =>
      /\ \A x \in 0 .. Samples : Around(x) => x < buf[Header].sample
      /\ 6 * buf[Header].sample <= pos

ImuInv ==
    \/ imu.low = 0 \/ imu.low = snap.low
    \/ \A r \in Readers : imu.low # out[r].low /\ imu.low # seen[r].sample

OrderInv == PlaceInv /\ Before(pos) /\ TakenInv /\ HeadInv /\ FreshInv /\ ImuInv
Typed == ParserType /\ ReaderType /\ SeenType

(* Different places of the wire carry different symbols.                   *)
LEMMA SymbolOf ==
    ASSUME NEW p \in Nat
    PROVE  Symbol(p).part = Parts[(p % 6) + 1] /\ Symbol(p).sample = (p \div 6) + 1
    BY DEF Symbol, FrameLen, Header, Payload

LEMMA PartsDiffer ==
    /\ \A i, j \in 1 .. 6 : Parts[i] = Parts[j] => i = j
    /\ \A i \in 1 .. 6 : Parts[i] # "zero"
<1>1. /\ Parts[1] = "sync1" /\ Parts[2] = "sync2" /\ Parts[3] = "length"
      /\ Parts[4] = "check" /\ Parts[5] = "low" /\ Parts[6] = "high"
    BY DEF Parts
<1> QED BY <1>1

LEMMA SymbolsDiffer ==
    ASSUME NEW p \in Nat, NEW q \in Nat, Symbol(p) = Symbol(q)
    PROVE  p = q
<1>1. (p % 6) + 1 \in 1 .. 6 /\ (q % 6) + 1 \in 1 .. 6
    OBVIOUS
<1>2. Parts[(p % 6) + 1] = Parts[(q % 6) + 1] /\ p \div 6 = q \div 6
    BY SymbolOf
<1>3. p % 6 = q % 6
    BY <1>1, <1>2, PartsDiffer
<1> QED BY <1>2, <1>3

LEMMA SymbolNotZero == ASSUME NEW p \in Nat PROVE Symbol(p) # Zero
<1>1. (p % 6) + 1 \in 1 .. 6
    OBVIOUS
<1>2. Symbol(p).part # "zero"
    BY <1>1, SymbolOf, PartsDiffer
<1> QED BY <1>2 DEF Zero

(* A frame that fits has been sent with one sample, unless its second sync *)
(* code has been zeroed.                                                   *)
LEMMA SentFrame ==
    ASSUME ParserType, ChecksumFits, buf[1] # Zero
    PROVE  /\ len > 0 /\ buf[Header] # Zero
           /\ LET k == buf[Header].sample
              IN  /\ k \in 1 .. Samples /\ buf[1] = Symbol(6 * (k - 1) + 1)
                  /\ buf[5] = Symbol(6 * (k - 1) + 5)
<1> USE FrameAssumption
<1>1. ~ \A i \in 0 .. Header + len - 1 : buf[i] = Zero
    BY DEF ParserType, Header
<1>2. PICK k \in 1 .. Samples :
        \A i \in 0 .. FrameLen - 1 : buf[i] = Symbol((k - 1) * FrameLen + i)
    BY <1>1 DEF ChecksumFits
<1>3. len = Payload
    BY <1>1 DEF ChecksumFits
<1>4. /\ buf[1] = Symbol(6 * (k - 1) + 1) /\ buf[4] = Symbol(6 * (k - 1) + 4)
      /\ buf[5] = Symbol(6 * (k - 1) + 5)
    BY <1>2 DEF FrameLen, Header, Payload
<1>5. buf[4].sample = (6 * (k - 1) + 4) \div 6 + 1
    BY <1>4, SymbolOf
<1>6. buf[4].sample = k
    BY <1>5
<1>7. buf[4] # Zero
    BY <1>4, SymbolNotZero
<1> QED BY <1>3, <1>4, <1>6, <1>7 DEF Header, Payload

(* The wire goes on.                                                       *)
LEMMA WireGoesOn == ASSUME ParserType, [Next]_vars PROVE pos \in Nat /\ pos' \in Nat /\ pos <= pos'
<1>1. Samples * FrameLen \in Nat /\ pos \in Nat
    BY FrameAssumption DEF ParserType, FrameLen, Header, Payload
<1>2. UNCHANGED pos \/ pos' = pos + 1 \/ \E p \in pos + 1 .. Samples * FrameLen : pos' = p
    BY DEF Next, Lose, Poll, Takes, Hunt, Synced, Fetch, Store, ReadLength, NoHeader, Incomplete,
           Complete, Decode, ParseLow, ParseHigh, CopyLow, CopyHigh, Stamp, Publish,
           Read, ReadWait, ReadLow, ReadHigh, ReadStamp, ReadClear,
           Reset, ResetCounters, ResetBuffer, ResetImu, Flush, vars
<1> QED BY <1>1, <1>2

(* Samples are met by copying, but for the one that is parsed.             *)
LEMMA AroundStep ==
    ASSUME Typed, [Next]_vars, NEW x \in 0 .. Samples, Around(x)', x # 0
    PROVE  Around(x) \/ (ParseLow /\ len > 0 /\ buf[Header] # Zero /\ x = buf[Header].sample)
<1> USE DEF Around, Typed, ReaderType, SeenType, PollStep, raw, published, reading, poll, marks
<1>1. CASE Lose
    BY <1>1 DEF Lose
<1>2. CASE Hunt \/ Synced \/ Fetch \/ Store \/ ReadLength \/ NoHeader
    BY <1>2 DEF Hunt, Synced, Fetch, Store, ReadLength, NoHeader
<1>3. CASE Incomplete \/ Complete \/ Decode \/ Stamp \/ Publish
    BY <1>3 DEF Incomplete, Complete, Decode, Stamp, Publish
<1>4. CASE ParseLow
    BY <1>4 DEF ParseLow, ParserType, Halves
<1>5. CASE ParseHigh
    BY <1>5 DEF ParseHigh, ParserType, Halves
<1>6. CASE CopyLow
    BY <1>6 DEF CopyLow, Halves
<1>7. CASE CopyHigh
    BY <1>7 DEF CopyHigh, Halves
<1>8. ASSUME NEW r \in Readers, Read(r) PROVE Around(x)
  <2> USE DEF ReaderStep
  <2>1. CASE ReadWait(r)
      BY <2>1 DEF ReadWait
  <2>2. CASE ReadLow(r)
      BY <2>2 DEF ReadLow, Outs
  <2>3. CASE ReadHigh(r)
      BY <2>3 DEF ReadHigh, Outs
  <2>4. CASE ReadStamp(r)
      BY <2>4 DEF ReadStamp, Outs
  <2>5. CASE ReadClear(r)
      BY <2>5 DEF ReadClear, Outs, NothingRead
  <2> QED BY <1>8, <2>1, <2>2, <2>3, <2>4, <2>5 DEF Read
<1>9. ASSUME NEW r \in Readers, Reset(r) PROVE Around(x)
  <2>1. /\ seen' = [q \in Readers |-> Unseen] /\ UNCHANGED <<snap, out>>
        /\ imu' = imu \/ imu' = Nothing
      BY <1>9 DEF Reset, ResetCounters, ResetBuffer, ResetImu, Flush, ReaderStep, Disturb
  <2> QED BY <2>1 DEF Unseen, Nothing
<1>10. CASE UNCHANGED vars
    BY <1>10 DEF vars
<1> QED
    BY <1>1, <1>2, <1>3, <1>4, <1>5, <1>6, <1>7, <1>8, <1>9, <1>10 DEF Next, Poll

LEMMA BeforeStep ==
    ASSUME Typed, [Next]_vars, NEW q \in Nat, Before(q), ~ ParseLow
    PROVE  Before(q)'
    BY AroundStep DEF Before

LEMMA PlaceStep == ASSUME ParserType, PlaceInv, [Next]_vars PROVE PlaceInv'
<1> USE DEF PlaceInv, Decoding, PollStep, raw, Stages, ParserType
<1>1. CASE Lose
    BY <1>1 DEF Lose, poll
<1>2. CASE Hunt \/ Synced \/ Fetch \/ Store
    BY <1>2 DEF Hunt, Synced, Fetch, Store
<1>3. CASE ReadLength \/ NoHeader \/ Incomplete \/ Complete \/ Decode
    BY <1>3 DEF ReadLength, NoHeader, Incomplete, Complete, Decode
<1>4. CASE ParseLow \/ ParseHigh
    BY <1>4 DEF ParseLow, ParseHigh
<1>5. CASE CopyLow \/ CopyHigh \/ Stamp \/ Publish
    BY <1>5 DEF CopyLow, CopyHigh, Stamp, Publish
<1>6. ASSUME NEW r \in Readers, Read(r) PROVE PlaceInv'
    BY <1>6 DEF Read, ReaderStep, poll, ReadWait, ReadLow, ReadHigh, ReadStamp, ReadClear
<1>7. ASSUME NEW r \in Readers, Reset(r) PROVE PlaceInv'
    BY <1>7 DEF Reset, ResetCounters, ResetBuffer, ResetImu, Flush, ReaderStep, poll
<1>8. CASE UNCHANGED vars
    BY <1>8 DEF vars, poll
<1> QED BY <1>1, <1>2, <1>3, <1>4, <1>5, <1>6, <1>7, <1>8 DEF Next, Poll

LEMMA EarlierPlace == ASSUME NEW p \in Nat, NEW q \in Nat, q < p PROVE q \in 0 .. p - 1
    OBVIOUS

(* What the parser holds has been on the wire, or was zeroed.              *)
LEMMA TakenStep == ASSUME ParserType, TakenInv, [Next]_vars PROVE TakenInv'
<1> USE DEF TakenInv
<1>1. pos \in Nat /\ pos' \in Nat /\ pos <= pos'
    BY WireGoesOn
<1>2. ASSUME NEW s, Taken(s) PROVE s = Zero \/ \E q \in 0 .. pos' - 1 : s = Symbol(q)
  <2>1. CASE s = Zero
      BY <2>1
  <2>2. CASE \E q \in 0 .. pos - 1 : s = Symbol(q)
    <3>1. PICK q \in 0 .. pos - 1 : s = Symbol(q)
        BY <2>2
    <3>2. q \in Nat /\ q < pos'
        BY <1>1
    <3> QED BY <1>1, <3>1, <3>2, EarlierPlace
  <2> QED BY <1>2, <2>1, <2>2 DEF Taken
<1>3. CASE UNCHANGED <<byte, buf>>
    BY <1>2, <1>3 DEF Taken
<1>4. CASE Hunt
  <2>1. pos' = pos + 1 /\ UNCHANGED byte /\ buf' = [buf EXCEPT ![0] = buf[1], ![1] = Symbol(pos)]
      BY <1>4 DEF Hunt, Takes
  <2>2. \A i \in 0 .. Size - 1 : buf'[i] \in {buf[0], buf[1], buf[i], Symbol(pos)}
      BY <2>1 DEF ParserType
  <2>3. 0 \in 0 .. Size - 1 /\ 1 \in 0 .. Size - 1
      BY FrameAssumption DEF Size, Header
  <2>4. pos \in 0 .. pos' - 1
      BY <1>1, <2>1
  <2>5. ASSUME NEW i \in 0 .. Size - 1 PROVE Taken(buf[i])'
    <3>1. CASE buf'[i] = Symbol(pos)
        BY <2>4, <3>1 DEF Taken
    <3>2. CASE buf'[i] \in {buf[0], buf[1], buf[i]}
        BY <1>2, <2>3, <3>2 DEF Taken
    <3> QED BY <2>2, <3>1, <3>2
  <2>6. Taken(byte)'
      BY <1>2, <2>1 DEF Taken
  <2> QED BY <2>5, <2>6
<1>5. CASE Fetch
    BY <1>1, <1>2, <1>5 DEF Fetch, Takes, Taken, raw
<1>6. CASE Store
  <2>1. byte' = Zero /\ \A i \in 0 .. Size - 1 : buf'[i] \in {buf[i], byte}
      BY <1>6 DEF Store, ParserType
  <2> QED BY <1>2, <2>1 DEF Taken
<1>7. ASSUME NEW r \in Readers, ResetBuffer(r) PROVE TakenInv'
    BY <1>2, <1>7 DEF ResetBuffer, Cleared, ReaderStep, poll, Taken
<1>8. ASSUME NEW r \in Readers, Read(r) \/ Reset(r) PROVE UNCHANGED <<byte, buf>> \/ ResetBuffer(r)
    BY <1>8 DEF Read, ReaderStep, poll, raw, ReadWait, ReadLow, ReadHigh, ReadStamp, ReadClear,
                Reset, ResetCounters, ResetImu, Flush
<1>9. CASE Poll /\ ~ Hunt /\ ~ Fetch /\ ~ Store
    BY <1>3, <1>9 DEF Poll, raw, Synced, ReadLength, NoHeader, Incomplete, Complete, Decode,
                      ParseLow, ParseHigh, CopyLow, CopyHigh, Stamp, Publish
<1>10. CASE Lose \/ UNCHANGED vars
    BY <1>3, <1>10 DEF Lose, vars, poll, raw
<1> QED BY <1>3, <1>4, <1>5, <1>6, <1>7, <1>8, <1>9, <1>10 DEF Next

(* Every sample anybody has met has left the wire.                         *)
LEMMA BeforeNow == ASSUME Typed, Before(pos), FreshInv, [Next]_vars PROVE Before(pos)'
<1>1. pos \in Nat /\ pos' \in Nat /\ pos <= pos'
    BY WireGoesOn DEF Typed
<1>2. ASSUME NEW x \in 0 .. Samples, Around(x)' PROVE 6 * x <= pos
  <2>1. CASE x = 0
      BY <1>1, <2>1
  <2>2. CASE Around(x)
      BY <2>2 DEF Before
  <2>3. CASE ParseLow /\ len > 0 /\ buf[Header] # Zero /\ x = buf[Header].sample
      BY <2>3 DEF FreshInv, ParseLow, PollStep
  <2> QED BY <1>2, <2>1, <2>2, <2>3, AroundStep
<1> QED BY <1>1, <1>2 DEF Before

(* The second sync code of a frame comes after all samples met before.     *)
LEMMA HeadStep ==
    ASSUME Typed, PlaceInv, Before(pos), HeadInv, [Next]_vars
    PROVE  HeadInv'
<1> USE DEF HeadInv
<1>1. pos \in Nat /\ pos' \in Nat /\ pos <= pos'
    BY WireGoesOn DEF Typed
<1>2. CASE InFrame /\ buf'[1] = buf[1] /\ ~ ParseLow
  <2> SUFFICES ASSUME InFrame', buf[1] # Zero
               PROVE  \E q \in 0 .. pos' - 1 : buf[1] = Symbol(q) /\ Before(q)'
      BY <1>2
  <2>1. PICK q \in 0 .. pos - 1 : buf[1] = Symbol(q) /\ Before(q)
      BY <1>2
  <2>2. q \in Nat /\ q < pos'
      BY <1>1, <2>1
  <2>3. q \in 0 .. pos' - 1
      BY <1>1, <2>2, EarlierPlace
  <2>4. Before(q)'
      BY <1>2, <2>1, <2>2, BeforeStep
  <2> QED BY <2>1, <2>3, <2>4
<1>3. CASE ~ InFrame'
    BY <1>3
<1>4. CASE Hunt
  <2>1. buf'[1] = Symbol(pos) /\ pos' = pos + 1
      BY <1>4, FrameAssumption DEF Hunt, Takes, Typed, ParserType, Size, Header
  <2>2. ~ ParseLow
      BY <1>4 DEF Hunt, ParseLow, PollStep
  <2> QED BY <1>1, <2>1, <2>2, BeforeStep
<1>5. ASSUME NEW r \in Readers, ResetBuffer(r) PROVE HeadInv'
    BY <1>5, FrameAssumption DEF ResetBuffer, Cleared, Size, Header
<1>6. CASE Synced \/ Fetch \/ ReadLength \/ NoHeader \/ Incomplete
    BY <1>2, <1>6 DEF InFrame, Synced, Fetch, ReadLength, NoHeader, Incomplete, ParseLow, PollStep, raw
<1>7. CASE Store
    BY <1>2, <1>7 DEF InFrame, Store, ParseLow, PollStep, PlaceInv, Typed, ParserType
<1>8. CASE Complete
    BY <1>2, <1>8 DEF InFrame, Complete, ParseLow, PollStep
<1>9. CASE Decode \/ ParseLow \/ ParseHigh \/ CopyLow \/ CopyHigh \/ Stamp \/ Publish
    BY <1>2, <1>3, <1>9 DEF InFrame, Decode, ParseLow, ParseHigh, CopyLow, CopyHigh, Stamp, Publish,
                       PollStep, raw, PlaceInv, Decoding
<1>10. ASSUME NEW r \in Readers, Read(r) \/ Reset(r), ~ ResetBuffer(r) PROVE HeadInv'
  <2>1. UNCHANGED <<ppc, buf>> /\ (UNCHANGED nbyte \/ nbyte' = 0)
      BY <1>10 DEF Read, ReaderStep, poll, raw, ReadWait, ReadLow, ReadHigh, ReadStamp, ReadClear,
                   Reset, ResetCounters, ResetImu, Flush
  <2>2. ~ ParseLow \/ ~ InFrame
      BY DEF ParseLow, PollStep, InFrame, PlaceInv, Decoding
  <2> QED BY <1>2, <1>3, <2>1, <2>2 DEF InFrame
<1>11. CASE Lose \/ UNCHANGED vars
  <2>1. UNCHANGED <<ppc, buf, nbyte>>
      BY <1>11 DEF Lose, vars, poll, raw
  <2>2. ~ ParseLow \/ ~ InFrame
      BY DEF ParseLow, PollStep, InFrame, PlaceInv, Decoding
  <2> QED BY <1>2, <1>3, <2>1, <2>2 DEF InFrame
<1> QED
    BY <1>4, <1>5, <1>6, <1>7, <1>8, <1>9, <1>10, <1>11 DEF Next, Poll

(* A frame that fits has a sample nobody has met.                          *)
LEMMA FreshStep ==
    ASSUME Typed, PlaceInv, TakenInv, HeadInv, FreshInv, [Next]_vars
    PROVE  FreshInv'
<1> USE FrameAssumption DEF FreshInv
<1>s. Header = 4 /\ Size = 4 + MaxLen
    BY DEF Header, Size
<1>1. pos \in Nat /\ pos' \in Nat /\ pos <= pos'
    BY WireGoesOn DEF Typed
<1>t. \A i \in 0 .. Size - 1 : buf[i].sample \in 0 .. Samples
    BY SampleType DEF Typed, ParserType
<1>2. CASE ppc' # "parse"
    BY <1>2
<1>3. CASE Decode
  <2> SUFFICES ASSUME ChecksumFits, len > 0, buf[Header] # Zero, UNCHANGED <<pos, len, buf>>
               PROVE  FreshInv'
      BY <1>3 DEF Decode, raw
  <2>1. ~ ParseLow
      BY <1>3 DEF Decode, ParseLow, PollStep
  <2>2. buf[1] # Zero
    <3>1. 1 \in 0 .. Header + len - 1 /\ Header \in 0 .. Header + len - 1
        BY <1>s DEF Typed, ParserType
    <3>2. PICK k \in 1 .. Samples :
            \A i \in 0 .. FrameLen - 1 : buf[i] = Symbol((k - 1) * FrameLen + i)
        BY <3>1 DEF ChecksumFits
    <3>3. buf[1] = Symbol((k - 1) * 6 + 1)
        BY <3>2 DEF FrameLen, Header, Payload
    <3> QED BY <3>3, SymbolNotZero
  <2> DEFINE k == buf[Header].sample
  <2>3. k \in 1 .. Samples /\ buf[1] = Symbol(6 * (k - 1) + 1) /\ buf[5] = Symbol(6 * (k - 1) + 5)
      BY <2>2, SentFrame DEF Typed
  <2> HIDE DEF k
  <2>4. PICK q \in 0 .. pos - 1 : buf[1] = Symbol(q) /\ Before(q)
      BY <1>3, <2>2 DEF HeadInv, InFrame, Decode, PollStep
  <2>5. q = 6 * (k - 1) + 1
      BY <1>1, <2>3, <2>4, SymbolsDiffer
  <2>6. PICK p \in 0 .. pos - 1 : buf[5] = Symbol(p)
    <3>1. buf[5] # Zero
        BY <2>3, SymbolNotZero
    <3>2. 5 \in 0 .. Size - 1
        BY <1>s DEF Payload
    <3> QED BY <3>1, <3>2 DEF TakenInv, Taken
  <2>7. p = 6 * (k - 1) + 5
      BY <1>1, <2>3, <2>6, SymbolsDiffer
  <2>8. 6 * k <= pos
      BY <1>1, <2>3, <2>6, <2>7
  <2>9. ASSUME NEW x \in 0 .. Samples, Around(x)' PROVE x < k
    <3>1. CASE x = 0
        BY <2>3, <3>1
    <3>2. CASE Around(x)
      <4>1. 6 * x <= q
          BY <2>4, <3>2 DEF Before
      <4> QED BY <4>1, <2>3, <2>5
    <3> QED BY <2>1, <2>9, <3>1, <3>2, AroundStep
  <2> QED BY <2>8, <2>9 DEF k
<1>4. ASSUME ppc = "parse", ~ ParseLow,
             buf'[Header] = Zero \/ (UNCHANGED buf /\ len' \in {0, len})
      PROVE  FreshInv'
  <2> SUFFICES ASSUME len > 0, buf[Header] # Zero, UNCHANGED buf
               PROVE  /\ \A x \in 0 .. Samples : Around(x)' => x < buf[Header].sample
                      /\ 6 * buf[Header].sample <= pos'
      BY <1>4
  <2>1. /\ \A x \in 0 .. Samples : Around(x) => x < buf[Header].sample
        /\ 6 * buf[Header].sample <= pos
      BY <1>4
  <2>2. buf[Header].sample \in 0 .. Samples /\ buf[Header].sample > 0
    <3>1. buf[Header].sample \in 0 .. Samples
        BY <1>s, <1>t DEF Payload
    <3>2. imu.low \in 0 .. Samples /\ Around(imu.low)
        BY DEF Around, Typed, ParserType, Halves
    <3> QED BY <2>1, <3>1, <3>2
  <2>3. ASSUME NEW x \in 0 .. Samples, Around(x)' PROVE x < buf[Header].sample
      BY <1>4, <2>1, <2>2, <2>3, AroundStep
  <2> QED BY <1>1, <2>1, <2>2, <2>3
<1>5. CASE Poll /\ ~ Decode
    BY <1>2, <1>5 DEF Poll, PollStep, Hunt, Synced, Fetch, Store, ReadLength, NoHeader, Incomplete,
                      Complete, ParseLow, ParseHigh, CopyLow, CopyHigh, Stamp, Publish
<1>6. ASSUME ~ Poll PROVE FreshInv'
  <2>1. UNCHANGED <<ppc>>
      BY <1>6 DEF Next, Lose, vars, poll, Read, ReaderStep, ReadWait, ReadLow, ReadHigh, ReadStamp,
                  ReadClear, Reset, ResetCounters, ResetBuffer, ResetImu, Flush
  <2>2. buf'[Header] = Zero \/ (UNCHANGED buf /\ len' \in {0, len})
      BY <1>6, <1>s DEF Next, Lose, vars, raw, Read, ReadWait, ReadLow, ReadHigh, ReadStamp,
                  ReadClear, Reset, ResetCounters, ResetBuffer, ResetImu, Flush, Cleared, Payload
  <2>3. ~ ParseLow
      BY <1>6 DEF Poll
  <2> QED BY <1>2, <1>4, <2>1, <2>2, <2>3
<1> QED BY <1>3, <1>5, <1>6

(* Between parsing and copying the new sample is nobody's; a reset leaves  *)
(* none.                                                                   *)
LEMMA ImuStep ==
    ASSUME Typed, FreshInv, ImuInv, [Next]_vars
    PROVE  ImuInv'
<1> USE DEF ImuInv, Typed, ReaderType, SeenType, PollStep, raw, published, reading, poll, marks
<1>1. CASE UNCHANGED <<imu, snap, out, seen>>
    BY <1>1
<1>2. CASE ParseLow
  <2>1. CASE len > 0 /\ buf[Header] # Zero
    <3>1. imu'.low = buf[Header].sample
        BY <1>2, <2>1 DEF ParseLow, ParserType, Halves
    <3>2. \A r \in Readers : out[r].low \in 0 .. Samples /\ seen[r].sample \in 0 .. Samples
        BY DEF Outs
    <3>3. \A r \in Readers : out[r].low < buf[Header].sample /\ seen[r].sample < buf[Header].sample
        BY <1>2, <2>1, <3>2 DEF FreshInv, ParseLow, Around
    <3> QED BY <1>2, <3>1, <3>2, <3>3 DEF ParseLow
  <2>2. CASE ~ (len > 0 /\ buf[Header] # Zero)
      BY <1>1, <1>2, <2>2 DEF ParseLow
  <2> QED BY <2>1, <2>2
<1>3. CASE ParseHigh
    BY <1>3 DEF ParseHigh, ParserType, Halves
<1>4. CASE CopyLow
    BY <1>4 DEF CopyLow, Halves
<1>5. CASE CopyHigh
    BY <1>5 DEF CopyHigh, Halves
<1>6. CASE Poll /\ ~ (ParseLow \/ ParseHigh \/ CopyLow \/ CopyHigh)
    BY <1>1, <1>6 DEF Poll, Hunt, Synced, Fetch, Store, ReadLength, NoHeader, Incomplete,
                      Complete, Decode, Stamp, Publish
<1>7. ASSUME NEW r \in Readers, Read(r) PROVE ImuInv'
  <2> USE DEF ReaderStep
  <2>1. CASE ReadWait(r)
      BY <1>1, <2>1 DEF ReadWait
  <2>2. CASE ReadLow(r)
      BY <2>2 DEF ReadLow, Outs
  <2>3. CASE ReadHigh(r)
      BY <2>3 DEF ReadHigh, Outs
  <2>4. CASE ReadStamp(r)
      BY <2>4 DEF ReadStamp, Outs
  <2>5. CASE ReadClear(r)
      BY <2>5 DEF ReadClear, Outs, NothingRead
  <2> QED BY <1>7, <2>1, <2>2, <2>3, <2>4, <2>5 DEF Read
<1>8. ASSUME NEW r \in Readers, Reset(r) PROVE ImuInv'
  <2>1. /\ seen' = [q \in Readers |-> Unseen] /\ UNCHANGED <<snap, out>>
        /\ imu' = imu \/ imu' = Nothing
      BY <1>8 DEF Reset, ResetCounters, ResetBuffer, ResetImu, Flush, ReaderStep, Disturb
  <2> QED BY <2>1 DEF Unseen, Nothing
<1>9. CASE Lose \/ UNCHANGED vars
    BY <1>1, <1>9 DEF Lose, vars
<1> QED BY <1>2, <1>3, <1>4, <1>5, <1>6, <1>7, <1>8, <1>9 DEF Next

LEMMA InOrder == Spec => []OrderInv
<1>1. Init => OrderInv
  <2>1. ASSUME Init, NEW x, Around(x) PROVE x = 0
      BY <2>1 DEF Init, Around, Nothing, NothingRead, Unseen
  <2>2. ASSUME Init PROVE Before(pos)
    <3>1. pos = 0
        BY <2>2 DEF Init
    <3>2. ASSUME NEW x \in 0 .. Samples, Around(x) PROVE 6 * x <= pos
      <4>1. x = 0
          BY <2>1, <2>2, <3>2
      <4> QED BY <3>1, <4>1
    <3> QED BY <3>2 DEF Before
  <2>3. Init => PlaceInv /\ TakenInv /\ HeadInv /\ FreshInv /\ ImuInv
      BY DEF Init, PlaceInv, Decoding, TakenInv, Taken, Cleared, HeadInv, InFrame, FreshInv,
             ImuInv, Nothing
  <2> QED BY <2>2, <2>3 DEF OrderInv
<1>2. ParserType /\ ReaderType /\ SeenType /\ OrderInv /\ [Next]_vars => OrderInv'
    BY PlaceStep, TakenStep, BeforeNow, HeadStep, FreshStep, ImuStep DEF OrderInv, Typed
<1> QED BY <1>1, <1>2, ParserTyped, ReaderTyped, SeenTyped, PTL DEF Spec

(* Sample s may be published again, and r may come to read it.             *)
Again(s) ==
    \/ InFrame /\ buf[1] = Zero /\ imu.low = s
    \/ ppc = "parse" /\ (len = 0 \/ buf[Header] = Zero) /\ imu.low = s
    \/ ppc \in {"parsing", "copy"} /\ imu.low = s
    \/ ppc \in {"copying", "stamp", "publish"} /\ snap.low = s

Chance(r, s) ==
    \/ rpc[r] \in {"high", "stamp", "clear"} /\ out[r].low = s
    \/ snap.low = s /\ (ready = TRUE \/ rpc[r] = "low")

(* Who has read a sample twice has no chance to read it again, who has     *)
(* read it once has at most one.                                           *)
TwiceInv ==
    \A r \in Readers, s \in 1 .. Samples : seen[r].sample = s =>
        /\ seen[r].times \in {1, 2}
        /\ Again(s) \/ Chance(r, s) => seen[r].times = 1
        /\ ~ (Again(s) /\ Chance(r, s))

LEMMA AgainStep ==
    ASSUME Typed, OrderInv, [Next]_vars, NEW r \in Readers, NEW s, s # 0,
           seen[r].sample = s, seen'[r] = seen[r], Again(s)'
    PROVE  Again(s) /\ ~ Publish
<1> USE FrameAssumption DEF Again, PollStep, raw, published, poll
<1>s. Header = 4 /\ Size = 4 + MaxLen /\ 1 \in 0 .. Size - 1
    BY DEF Header, Size
<1>p. pos \in Nat
    BY WireGoesOn DEF Typed
<1>1. CASE Lose
    BY <1>1 DEF Lose, Publish, InFrame
<1>2. CASE Hunt
  <2>1. buf'[1] = Symbol(pos) /\ nbyte' = 0 /\ ppc' \in {"idle", "synced"}
      BY <1>2, <1>s DEF Hunt, Typed, ParserType
  <2> QED BY <1>p, <2>1, SymbolNotZero DEF InFrame
<1>3. CASE Synced \/ Fetch \/ ReadLength \/ NoHeader
    BY <1>3 DEF Synced, Fetch, ReadLength, NoHeader, InFrame, Publish
<1>4. CASE Store
    BY <1>4, <1>s DEF Store, InFrame, Publish, OrderInv, PlaceInv, Typed, ParserType
<1>5. CASE Incomplete \/ Complete
    BY <1>5 DEF Incomplete, Complete, InFrame, Publish
<1>6. CASE Decode
  <2>1. nbyte' = 0
      BY <1>6 DEF Decode, OrderInv, PlaceInv, Decoding
  <2>2. ppc' = "parse" /\ ChecksumFits /\ (len = 0 \/ buf[Header] = Zero) /\ imu.low = s
      BY <1>6, <2>1 DEF Decode, InFrame
  <2>3. buf[1] = Zero
      BY <2>2, SentFrame DEF Typed, ParserType
  <2> QED BY <1>6, <2>2, <2>3 DEF Decode, InFrame, Publish
<1>7. CASE ParseLow
  <2>1. nbyte' = 0
      BY <1>7 DEF ParseLow, OrderInv, PlaceInv, Decoding
  <2>2. CASE len > 0 /\ buf[Header] # Zero
    <3>1. imu'.low = buf[Header].sample /\ ppc' = "parsing"
        BY <1>7, <2>2 DEF ParseLow, Typed, ParserType, Halves
    <3>2. s \in 0 .. Samples /\ Around(s)
        BY DEF Around, Typed, SeenType
    <3>3. buf[Header].sample \in 0 .. Samples
        BY <1>s, SampleType DEF Payload, Typed, ParserType
    <3>4. s < buf[Header].sample
        BY <1>7, <2>2, <3>2 DEF ParseLow, OrderInv, FreshInv
    <3> QED BY <2>1, <3>1, <3>2, <3>3, <3>4 DEF InFrame
  <2>3. CASE ~ (len > 0 /\ buf[Header] # Zero)
    <3>1. len = 0 \/ buf[Header] = Zero
        BY <2>3 DEF Typed, ParserType
    <3> QED BY <1>7, <2>1, <2>3, <3>1 DEF ParseLow, InFrame, Publish
  <2> QED BY <2>2, <2>3
<1>8. CASE ParseHigh
    BY <1>8 DEF ParseHigh, InFrame, Publish, OrderInv, PlaceInv, Decoding, Typed, ParserType, Halves
<1>9. CASE CopyLow
    BY <1>9 DEF CopyLow, InFrame, Publish, OrderInv, PlaceInv, Decoding, Typed, ReaderType, Halves
<1>10. CASE CopyHigh
    BY <1>10 DEF CopyHigh, InFrame, Publish, OrderInv, PlaceInv, Decoding, Typed, ReaderType, Halves
<1>11. CASE Stamp \/ Publish
    BY <1>11 DEF Stamp, InFrame, Publish, OrderInv, PlaceInv, Decoding
<1>12. ASSUME NEW q \in Readers, Read(q) PROVE Again(s) /\ ~ Publish
  <2>1. UNCHANGED <<pos, nbyte, len, buf, imu, ppc, snap>>
      BY <1>12 DEF Read, ReaderStep, ReadWait, ReadLow, ReadHigh, ReadStamp, ReadClear
  <2>2. rpc' # rpc
      BY <1>12 DEF Read, ReaderStep, ReadWait, ReadLow, ReadHigh, ReadStamp, ReadClear, Typed, ReaderType
  <2> QED BY <2>1, <2>2 DEF InFrame, Publish, reading
<1>13. ASSUME NEW q \in Readers, Reset(q) PROVE FALSE
  <2>1. seen'[r].sample = 0
      BY <1>13 DEF Reset, ResetCounters, ResetBuffer, ResetImu, Flush, Disturb, Unseen
  <2> QED BY <2>1
<1>14. CASE UNCHANGED vars
    BY <1>14 DEF vars, InFrame, Publish
<1> QED
    BY <1>1, <1>2, <1>3, <1>4, <1>5, <1>6, <1>7, <1>8, <1>9, <1>10, <1>11, <1>12, <1>13, <1>14
    DEF Next, Poll

LEMMA ChanceStep ==
    ASSUME Typed, OrderInv, [Next]_vars, NEW r \in Readers, NEW s, s # 0,
           seen[r].sample = s, seen'[r] = seen[r], Chance(r, s)', ~ Publish
    PROVE  Chance(r, s)
<1> USE DEF Chance, Typed, ReaderType, PollStep, raw, published, reading
<1>1. CASE UNCHANGED <<ready, rpc, out>> /\ snap'.low = snap.low
    BY <1>1
<1>2. CASE CopyLow
  <2>1. snap'.low = imu.low
      BY <1>2 DEF CopyLow, Halves
  <2>2. imu.low = s => imu.low = snap.low
      BY DEF OrderInv, ImuInv
  <2> QED BY <1>2, <2>1, <2>2 DEF CopyLow
<1>3. CASE CopyHigh
    BY <1>1, <1>3 DEF CopyHigh, Halves
<1>4. CASE Poll /\ ~ CopyLow /\ ~ CopyHigh
    BY <1>1, <1>4 DEF Poll, Hunt, Synced, Fetch, Store, ReadLength, NoHeader, Incomplete, Complete,
                      Decode, ParseLow, ParseHigh, Stamp
<1>5. ASSUME NEW q \in Readers, Read(q) PROVE Chance(r, s)
  <2> USE DEF ReaderStep, poll, marks
  <2>1. CASE ReadWait(q)
    <3>1. ready = TRUE
        BY <2>1, Zenon DEF ReadWait, ReaderType
    <3> QED BY <2>1, <3>1 DEF ReadWait
  <2>2. CASE ReadLow(q)
      BY <2>2 DEF ReadLow, Outs
  <2>3. CASE ReadHigh(q)
      BY <2>3 DEF ReadHigh, Outs
  <2>4. CASE ReadStamp(q)
      BY <2>4 DEF ReadStamp, Outs
  <2>5. CASE ReadClear(q)
    <3>1. ready' = FALSE /\ UNCHANGED snap /\ rpc' = [rpc EXCEPT ![q] = "idle"]
          /\ out' = [out EXCEPT ![q] = NothingRead]
        BY <2>5, Zenon DEF ReadClear
    <3> QED BY <3>1 DEF Outs
  <2> QED BY <1>5, <2>1, <2>2, <2>3, <2>4, <2>5 DEF Read
<1>6. ASSUME NEW q \in Readers, Reset(q) PROVE FALSE
  <2>1. seen'[r].sample = 0
      BY <1>6 DEF Reset, ResetCounters, ResetBuffer, ResetImu, Flush, Disturb, Unseen
  <2> QED BY <2>1
<1>7. CASE Lose \/ UNCHANGED vars
    BY <1>1, <1>7 DEF Lose, vars
<1> QED BY <1>2, <1>3, <1>4, <1>5, <1>6, <1>7 DEF Next

LEMMA TwiceStep ==
    ASSUME Typed, OrderInv, TwiceInv, [Next]_vars
    PROVE  TwiceInv'
<1> SUFFICES ASSUME NEW r \in Readers, NEW s \in 1 .. Samples, seen'[r].sample = s
             PROVE  /\ seen'[r].times \in {1, 2}
                    /\ Again(s)' \/ Chance(r, s)' => seen'[r].times = 1
                    /\ ~ (Again(s)' /\ Chance(r, s)')
    BY DEF TwiceInv
<1> s # 0
    BY FrameAssumption
<1>1. CASE seen'[r] = seen[r] /\ ~ Publish
  <2>1. Again(s)' => Again(s)
      BY <1>1, AgainStep
  <2>2. Chance(r, s)' => Chance(r, s)
      BY <1>1, ChanceStep
  <2> QED BY <1>1, <2>1, <2>2 DEF TwiceInv
<1>2. CASE Publish
  <2>1. seen' = seen /\ snap' = snap /\ rpc' = rpc /\ out' = out /\ ppc = "publish"
      BY <1>2 DEF Publish, PollStep, reading
  <2>2. ~ Again(s)'
      BY <1>2, <2>1, AgainStep
  <2>3. Chance(r, s)' => Chance(r, s) \/ Again(s)
      BY <2>1 DEF Chance, Again
  <2> QED BY <2>1, <2>2, <2>3 DEF TwiceInv
<1>3. CASE ReadClear(r)
  <2>1. /\ rpc[r] = "clear" /\ rpc' = [rpc EXCEPT ![r] = "idle"] /\ ready' = FALSE
        /\ seen' = [seen EXCEPT ![r] =
             [sample |-> out[r].low,
              times |-> IF @.sample = out[r].low THEN @.times + 1 ELSE 1]]
      BY <1>3, Zenon DEF ReadClear, ReaderStep
  <2>2. out[r].low = s
        /\ seen'[r].times = IF seen[r].sample = s THEN seen[r].times + 1 ELSE 1
      BY <2>1 DEF Typed, SeenType
  <2>3. ~ Chance(r, s)'
      BY <2>1, Zenon DEF Chance, Typed, ReaderType
  <2>4. CASE seen[r].sample # s
      BY <2>2, <2>3, <2>4
  <2>5. CASE seen[r].sample = s
    <3>1. Chance(r, s)
        BY <2>1, <2>2 DEF Chance
    <3>2. seen[r].times = 1 /\ ~ Again(s)
        BY <2>5, <3>1 DEF TwiceInv
    <3>3. ~ Again(s)'
        BY <1>3, <3>2 DEF ReadClear, ReaderStep, raw, poll, Again, InFrame
    <3> QED BY <2>2, <2>3, <2>5, <3>2, <3>3
  <2> QED BY <2>4, <2>5
<1>4. ASSUME NEW q \in Readers, Reset(q) PROVE FALSE
  <2>1. seen'[r].sample = 0
      BY <1>4 DEF Reset, ResetCounters, ResetBuffer, ResetImu, Flush, Disturb, Unseen
  <2> QED BY <2>1
<1>5. ASSUME NEW q \in Readers, q # r, ReadClear(q) PROVE seen'[r] = seen[r] /\ ~ Publish
  <2>1. seen'[r] = seen[r] /\ rpc' # rpc
      BY <1>5 DEF ReadClear, ReaderStep, Typed, SeenType, ReaderType
  <2> QED BY <2>1 DEF Publish, PollStep, reading
<1>6. CASE seen' = seen
    BY <1>1, <1>2, <1>6
<1>7. ASSUME NEW q \in Readers, Read(q), ~ ReadClear(q) PROVE seen' = seen
    BY <1>7 DEF Read, ReadWait, ReadLow, ReadHigh, ReadStamp, marks
<1>8. CASE Poll
    BY <1>6, <1>8 DEF Poll, PollStep, Hunt, Synced, Fetch, Store, ReadLength, NoHeader, Incomplete,
                Complete, Decode, ParseLow, ParseHigh, CopyLow, CopyHigh, Stamp, Publish
<1>9. CASE Lose \/ UNCHANGED vars
    BY <1>6, <1>9 DEF Lose, vars, marks
<1> QED BY <1>1, <1>3, <1>4, <1>5, <1>6, <1>7, <1>8, <1>9 DEF Next

(* The bit may be found set for the sample before, and a reset may publish *)
(* it again, but no reader gets a sample a third time before the next      *)
(* reset: hi229_read clears the bit, and only hi229_poll_task sets it.     *)
THEOREM NoThirdRead == Spec => []AtMostTwice
<1>1. Init => TwiceInv
    BY DEF Init, TwiceInv, Unseen
<1>2. ParserType /\ ReaderType /\ SeenType /\ OrderInv /\ TwiceInv /\ [Next]_vars => TwiceInv'
    BY TwiceStep DEF Typed
<1>3. SeenType /\ TwiceInv => AtMostTwice
    BY FrameAssumption DEF SeenType, TwiceInv, AtMostTwice
<1> QED
    BY <1>1, <1>2, <1>3, ParserTyped, ReaderTyped, SeenTyped, InOrder, PTL DEF Spec
-----------------------------------------------------------------------------
(* ResyncBound.  Rest bounds the symbols that are still taken before the   *)
(* next sample: those of a frame that may be bogus, those until the next   *)
(* frame begins, and that frame.  Every symbol taken makes it smaller.     *)

\* The bytes of a frame that have been taken, the one in flight included.
Count == IF ppc = "append" THEN at + 1 ELSE IF ppc = "synced" THEN 2 ELSE nbyte
Cell(i) == IF ppc = "append" /\ i = at THEN byte ELSE buf[i]
LengthRead == Count > 4 \/ (Count = 4 /\ ppc \notin {"append", "header"})

\* The frame lies where one was sent, behind its sync codes; with them.
Follows ==
    /\ pos % 6 = Count % 6 /\ Count <= 6
    /\ \A i \in 2 .. Count - 1 : Cell(i) = Symbol(pos - Count + i)
    /\ LengthRead => len = 2
InStep == Count <= pos /\ \A i \in 0 .. 1 : Cell(i) = Symbol(pos - Count + i)
Sent == 6 <= pos /\ pos % 6 = 0 /\ len = 2 /\ \A i \in 0 .. 5 : buf[i] = Symbol(pos - 6 + i)

Hunting == IF pos % 6 = 0 THEN 6 ELSE 12 - (pos % 6)
Left == LET l == IF LengthRead THEN len ELSE MaxLen
        IN  IF Count < 4 + l THEN 4 + l - Count ELSE 0

Parsed == {"parse", "parsing", "copy", "copying", "stamp", "publish"}

Rest ==
    IF ppc \in Parsed THEN 0
    ELSE IF ppc = "decode" THEN (IF Sent THEN 0 ELSE Hunting)
    ELSE IF Count < 2 THEN (IF pos % 6 = 1 /\ buf[1] = Symbol(pos - 1) THEN 5 ELSE Hunting)
    ELSE IF ~ Follows THEN Left + 11
    ELSE IF InStep THEN 6 - Count ELSE 12 - Count

ResyncInv == undisturbed \in Nat /\ undisturbed + Rest <= MaxLen + 13

LEMMA Numbers ==
    ASSUME ParserType
    PROVE  /\ MaxLen \in Nat /\ MaxLen >= 2 /\ Samples \in Nat
           /\ Header = 4 /\ Payload = 2 /\ FrameLen = 6 /\ Size = 4 + MaxLen
           /\ pos \in Nat /\ pos <= 6 * Samples /\ pos % 6 \in 0 .. 5
           /\ nbyte \in Nat /\ at \in Nat /\ len \in Nat /\ Count \in Nat
           /\ Hunting \in 6 .. 11 /\ Left \in Nat
<1>1. /\ MaxLen \in Nat /\ MaxLen >= 2 /\ Samples \in Nat
      /\ Header = 4 /\ Payload = 2 /\ FrameLen = 6 /\ Size = 4 + MaxLen
    BY FrameAssumption DEF Header, Payload, FrameLen, Size
<1>2. pos \in Nat /\ pos <= 6 * Samples /\ nbyte \in Nat /\ at \in Nat /\ len \in Nat
    BY <1>1 DEF ParserType
<1>3. pos % 6 \in 0 .. 5 /\ Count \in Nat
    BY <1>2 DEF Count
<1> QED BY <1>1, <1>2, <1>3 DEF Hunting, Left

RestType == Rest \in Nat /\ Rest <= MaxLen + 13

LEMMA RestRange == ASSUME ParserType PROVE RestType
<1> USE Numbers
<1>1. len <= MaxLen + 1
    BY DEF ParserType
<1>2. ASSUME Count >= 2 PROVE Left <= MaxLen + 2
    BY <1>1, <1>2 DEF Left, LengthRead
<1>3. Follows => Count <= 6
    BY DEF Follows
<1> QED BY <1>2, <1>3 DEF Rest, RestType

(* Which part of a frame a place on the wire is.                           *)
LEMMA PartOf ==
    ASSUME NEW p \in Nat
    PROVE  /\ Symbol(p).part = "sync1" <=> p % 6 = 0
           /\ Symbol(p).part = "sync2" <=> p % 6 = 1
           /\ Symbol(p).part = "length" <=> p % 6 = 2
<1>1. /\ Parts[1] = "sync1" /\ Parts[2] = "sync2" /\ Parts[3] = "length"
      /\ Parts[4] = "check" /\ Parts[5] = "low" /\ Parts[6] = "high"
    BY DEF Parts
<1>2. p % 6 \in 0 .. 5
    OBVIOUS
<1> QED BY <1>1, <1>2, SymbolOf

LEMMA NextPart == ASSUME NEW p \in Nat PROVE (p + 1) % 6 = IF p % 6 = 5 THEN 0 ELSE (p % 6) + 1
    OBVIOUS

(* A symbol that is no data of a confusing sample brings the next sample   *)
(* nearer, whether the parser hunts for a frame ...                        *)
LEMMA HuntNears ==
    ASSUME ParserType, Hunt, Symbol(pos).sample \notin Confusing
    PROVE  Rest' <= Rest - 1
<1> USE Numbers DEF PollStep
<1>1. /\ ppc = "idle" /\ nbyte = 0 /\ nbyte' = 0 /\ pos' = pos + 1 /\ ppc' \in {"idle", "synced"}
      /\ buf' = [buf EXCEPT ![0] = buf[1], ![1] = Symbol(pos)]
    BY DEF Hunt, Takes
<1>2. buf'[0] = buf[1] /\ buf'[1] = Symbol(pos)
    BY <1>1 DEF ParserType
<1>3. Rest = IF pos % 6 = 1 /\ buf[1] = Symbol(pos - 1) THEN 5 ELSE Hunting
    BY <1>1 DEF Rest, Count, Parsed
<1>4. IsSync2(Symbol(pos)) <=> pos % 6 = 1
    BY PartOf DEF IsSync2
<1>5. pos' % 6 = IF pos % 6 = 5 THEN 0 ELSE (pos % 6) + 1
    BY <1>1, NextPart
<1>6. CASE ppc' = "synced"
  <2>1. pos % 6 = 1
      BY <1>1, <1>4, <1>6 DEF Hunt
  <2>2. Count' = 2 /\ Cell(0)' = buf[1] /\ Cell(1)' = Symbol(pos) /\ ~ LengthRead'
      BY <1>2, <1>6 DEF Count, Cell, LengthRead
  <2>3. Follows'
      BY <1>5, <2>1, <2>2 DEF Follows
  <2>4. Rest' = IF InStep' THEN 4 ELSE 10
      BY <1>6, <2>2, <2>3 DEF Rest, Parsed
  <2>5. buf[1] = Symbol(pos - 1) => InStep'
    <3>1. pos' - 2 + 0 = pos - 1 /\ pos' - 2 + 1 = pos
        BY <1>1
    <3>2. 2 <= pos'
        BY <1>1, <2>1
    <3> QED BY <2>2, <3>1, <3>2 DEF InStep
  <2> QED BY <1>3, <2>1, <2>4, <2>5 DEF Hunting
<1>7. CASE ppc' = "idle"
  <2>1. Rest' = IF pos' % 6 = 1 /\ buf'[1] = Symbol(pos' - 1) THEN 5 ELSE Hunting'
      BY <1>1, <1>7 DEF Rest, Count, Parsed
  <2>2. ~ (pos % 6 = 1 /\ buf[1] = Symbol(pos - 1))
    <3>1. ASSUME pos % 6 = 1 PROVE Symbol(pos - 1).part = "sync1"
      <4>1. pos - 1 \in Nat /\ (pos - 1) % 6 = 0
          BY <3>1
      <4> QED BY <4>1, PartOf
    <3> QED BY <1>1, <1>4, <1>7, <3>1 DEF Hunt, IsSync1
  <2>3. pos % 6 = 0 => Rest' = 5
    <3>1. pos' - 1 = pos
        BY <1>1
    <3> QED BY <1>2, <1>5, <2>1, <3>1
  <2>4. pos % 6 # 0 => Rest' = Hunting'
      BY <1>5, <2>1
  <2>5. Hunting' = IF pos' % 6 = 0 THEN 6 ELSE 12 - (pos' % 6)
      BY DEF Hunting
  <2> QED BY <1>3, <1>5, <2>2, <2>3, <2>4, <2>5 DEF Hunting
<1> QED BY <1>1, <1>6, <1>7

(* ... or is in one.                                                       *)
LEMMA FetchNears ==
    ASSUME ParserType, PlaceInv, Fetch
    PROVE  Rest' <= Rest - 1
<1> USE Numbers DEF PollStep
<1>1. /\ ppc = "idle" /\ nbyte >= 2 /\ pos' = pos + 1 /\ ppc' = "append" /\ at' = nbyte
      /\ byte' = Symbol(pos) /\ UNCHANGED <<nbyte, len, buf>>
    BY DEF Fetch, Takes, raw, PlaceInv
<1>2. Count = nbyte /\ Count' = nbyte + 1
    BY <1>1 DEF Count
<1>3. LengthRead' <=> LengthRead
    BY <1>1, <1>2 DEF LengthRead
<1>4. nbyte < 4 \/ nbyte < len + 4
    BY <1>1 DEF ParserType, RoomLeft
<1>5. \A i \in 0 .. nbyte : Cell(i)' = IF i = nbyte THEN Symbol(pos) ELSE Cell(i)
    BY <1>1 DEF Cell
<1>6. Rest = IF ~ Follows THEN Left + 11 ELSE IF InStep THEN 6 - Count ELSE 12 - Count
    BY <1>1, <1>2 DEF Rest, Parsed
<1>7. Rest' = IF ~ Follows' THEN Left' + 11 ELSE IF InStep' THEN 6 - Count' ELSE 12 - Count'
    BY <1>1, <1>2 DEF Rest, Parsed
<1>8. \A i \in 0 .. nbyte : pos' - (nbyte + 1) + i = pos - nbyte + i
    BY <1>1
<1>9. CASE Follows
  <2>1. Count < 6
      BY <1>1, <1>2, <1>4, <1>9 DEF Follows, LengthRead
  <2>2. pos' % 6 = Count' % 6
    <3>1. pos % 6 = Count % 6
        BY <1>9 DEF Follows
    <3> QED BY <1>1, <1>2, <3>1, NextPart
  <2>3. ASSUME NEW i \in 2 .. Count' - 1 PROVE Cell(i)' = Symbol(pos' - Count' + i)
    <3>1. CASE i = nbyte
      <4>1. pos' - Count' + i = pos
          BY <1>1, <1>2, <3>1
      <4> QED BY <1>5, <3>1, <4>1
    <3>2. CASE i \in 2 .. nbyte - 1
      <4>1. pos' - Count' + i = pos - Count + i
          BY <1>2, <1>8
      <4>2. Cell(i)' = Cell(i)
          BY <1>5, <3>2
      <4>3. Cell(i) = Symbol(pos - Count + i)
          BY <1>2, <1>9, <3>2 DEF Follows
      <4> QED BY <4>1, <4>2, <4>3
    <3>3. i = nbyte \/ i \in 2 .. nbyte - 1
        BY <1>2
    <3> QED BY <3>1, <3>2, <3>3
  <2>4. Follows'
      BY <1>1, <1>2, <1>3, <1>9, <2>1, <2>2, <2>3 DEF Follows
  <2>5. InStep => InStep'
    <3>1. ASSUME NEW i \in 0 .. 1 PROVE Cell(i)' = Cell(i) /\ pos' - Count' + i = pos - Count + i
        BY <1>1, <1>2, <1>5, <1>8
    <3>2. Count <= pos => Count' <= pos'
        BY <1>1, <1>2
    <3> QED BY <3>1, <3>2 DEF InStep
  <2> QED BY <1>2, <1>6, <1>7, <1>9, <2>4, <2>5
<1>10. CASE ~ Follows
  <2>1. Left >= 1 /\ Left' = Left - 1
      BY <1>1, <1>2, <1>3, <1>4 DEF Left, LengthRead
  <2> QED BY <1>1, <1>2, <1>6, <1>7, <1>10, <2>1
<1> QED BY <1>9, <1>10

(* All other steps of the parser but the last bring it no farther.         *)
LEMMA ParserNears ==
    ASSUME ParserType, PlaceInv, Poll, UNCHANGED pos, ~ Publish
    PROVE  Rest' <= Rest
<1> USE Numbers, RestRange DEF PollStep, RestType
<1>1. CASE Synced
  <2>1. /\ ppc = "synced" /\ ppc' = "idle" /\ nbyte' = 2 /\ Count = 2 /\ Count' = 2
        /\ UNCHANGED <<pos, len, buf>>
      BY <1>1 DEF Synced, Count
  <2>2. ~ LengthRead /\ ~ LengthRead' /\ \A i \in 0 .. 1 : Cell(i)' = Cell(i)
      BY <2>1 DEF LengthRead, Cell
  <2>3. (Follows' <=> Follows) /\ (InStep' <=> InStep) /\ Left' = Left
    <3>1. Follows' <=> Follows
        BY <2>1, <2>2 DEF Follows
    <3>2. InStep' <=> InStep
        BY <2>1, <2>2 DEF InStep
    <3> QED BY <2>1, <2>2, <3>1, <3>2 DEF Left
  <2>4. Rest = IF ~ Follows THEN Left + 11 ELSE IF InStep THEN 4 ELSE 10
      BY <2>1 DEF Rest, Parsed
  <2>5. Rest' = IF ~ Follows' THEN Left' + 11 ELSE IF InStep' THEN 4 ELSE 10
      BY <2>1 DEF Rest, Parsed
  <2> QED BY <2>3, <2>4, <2>5
<1>2. CASE Store
  <2>1. /\ ppc = "append" /\ ppc' = "header" /\ nbyte' = at + 1 /\ Count' = Count /\ Count = at + 1
        /\ UNCHANGED <<pos, len>> /\ buf' = [buf EXCEPT ![at] = byte]
      BY <1>2 DEF Store, Count
  <2>2. LengthRead' <=> LengthRead
      BY <2>1 DEF LengthRead
  <2>3. \A i \in 0 .. Count - 1 : Cell(i)' = Cell(i)
      BY <2>1 DEF Cell, ParserType
  <2>4. Count >= 3
      BY <2>1 DEF PlaceInv
  <2>5. (Follows' <=> Follows) /\ (InStep' <=> InStep) /\ Left' = Left
    <3>1. Follows' <=> Follows
        BY <2>1, <2>2, <2>3 DEF Follows
    <3>2. InStep' <=> InStep
        BY <2>1, <2>3, <2>4 DEF InStep
    <3> QED BY <2>1, <2>2, <3>1, <3>2 DEF Left
  <2>6. Rest = IF ~ Follows THEN Left + 11 ELSE IF InStep THEN 6 - Count ELSE 12 - Count
      BY <2>1, <2>4 DEF Rest, Parsed
  <2>7. Rest' = IF ~ Follows' THEN Left' + 11 ELSE IF InStep' THEN 6 - Count' ELSE 12 - Count'
      BY <2>1, <2>4 DEF Rest, Parsed
  <2> QED BY <2>1, <2>5, <2>6, <2>7
<1>3. CASE ReadLength
  <2>1. /\ ppc = "header" /\ nbyte = 4 /\ Count = 4 /\ UNCHANGED <<pos, buf>>
        /\ len' \in Lengths(buf[2])
        /\ \/ len' > MaxLen /\ nbyte' = 0 /\ ppc' = "idle"
           \/ len' <= MaxLen /\ nbyte' = 4 /\ ppc' = "test"
      <3>1. PICK n \in Lengths(buf[2]) :
              /\ len' = n
              /\ IF n > MaxLen THEN nbyte' = 0 /\ ppc' = "idle"
                 ELSE UNCHANGED nbyte /\ ppc' = "test"
          BY <1>3 DEF ReadLength
      <3>2. n \in 0 .. MaxLen + 1
          BY LengthType
      <3> QED BY <1>3, <3>1, <3>2 DEF ReadLength, Count
  <2>2. Rest = IF ~ Follows THEN MaxLen + 11 ELSE IF InStep THEN 2 ELSE 8
      BY <2>1 DEF Rest, Parsed, Left, LengthRead
  <2>3. ASSUME Follows PROVE len' = 2
    <3>1. pos % 6 = 4 /\ buf[2] = Symbol(pos - 2)
      <4>1. Cell(2) = Symbol(pos - Count + 2) /\ pos % 6 = 4
          BY <2>1, <2>3 DEF Follows
      <4>2. Cell(2) = buf[2] /\ pos - Count + 2 = pos - 2
          BY <2>1 DEF Cell
      <4> QED BY <4>1, <4>2
    <3>2. pos - 2 \in Nat /\ (pos - 2) % 6 = 2
        BY <3>1
    <3>3. buf[2].part = "length" /\ buf[2] # Zero
        BY <3>1, <3>2, PartOf, SymbolNotZero
    <3> QED BY <2>1, <3>3 DEF Lengths
  <2>4. CASE ppc' = "idle"
    <3>1. ~ Follows /\ Count' = 0
        BY <2>1, <2>3, <2>4 DEF Count
    <3>2. Rest' \in 0 .. 11
        BY <2>1, <2>4, <3>1 DEF Rest, Parsed, Hunting
    <3> QED BY <2>2, <3>1, <3>2
  <2>5. CASE ppc' = "test"
    <3>1. Count' = 4 /\ LengthRead' /\ ~ LengthRead /\ len' \in Nat /\ len' <= MaxLen
      <4>1. len' \in 0 .. MaxLen + 1
          BY <2>1, LengthType
      <4> QED BY <2>1, <2>5, <4>1 DEF Count, LengthRead
    <3>2. Left' \in Nat /\ Left' <= MaxLen
      <4>1. Left' = IF 4 < 4 + len' THEN 4 + len' - 4 ELSE 0
          BY <3>1 DEF Left
      <4>2. len' \in Nat /\ len' <= MaxLen
          BY <3>1
      <4>3. (IF 4 < 4 + len' THEN 4 + len' - 4 ELSE 0) = len'
        <5>1. ASSUME NEW n \in Nat PROVE (IF 4 < 4 + n THEN 4 + n - 4 ELSE 0) = n
            OBVIOUS
        <5> QED BY <4>2, <5>1
      <4> QED BY <4>1, <4>2, <4>3
    <3>3. \A i \in 0 .. 3 : Cell(i)' = Cell(i)
        BY <2>1, <2>5 DEF Cell
    <3>4. Follows => Follows'
        BY <2>1, <2>3, <3>1, <3>3 DEF Follows
    <3>5. InStep => InStep'
        BY <2>1, <3>1, <3>3 DEF InStep
    <3>6. Rest' = IF ~ Follows' THEN Left' + 11 ELSE IF InStep' THEN 2 ELSE 8
        BY <2>5, <3>1 DEF Rest, Parsed
    <3>8. CASE Follows
        BY <2>2, <3>4, <3>5, <3>6, <3>8
    <3>9. CASE ~ Follows
        BY <2>2, <3>2, <3>6, <3>9
    <3> QED BY <3>8, <3>9
  <2> QED BY <2>1, <2>4, <2>5
<1>4. CASE NoHeader \/ Incomplete
  <2>1. /\ ppc \in {"header", "test"} /\ ppc' \in {"test", "idle"} /\ (ppc = "header" => nbyte # 4)
        /\ UNCHANGED <<pos, nbyte, len, buf>> /\ Count = nbyte /\ Count' = nbyte
      BY <1>4 DEF NoHeader, Incomplete, Count, raw
  <2>2. LengthRead' <=> LengthRead
      BY <2>1 DEF LengthRead
  <2>3. \A i \in 0 .. nbyte + 2 : Cell(i)' = Cell(i)
      BY <2>1 DEF Cell
  <2>4. Follows' <=> Follows
      BY <2>1, <2>2, <2>3 DEF Follows
  <2>5. InStep' <=> InStep
      BY <2>1, <2>3 DEF InStep
  <2>6. Left' = Left /\ Hunting' = Hunting
      BY <2>1, <2>2 DEF Left, Hunting
  <2>7. Rest = IF nbyte < 2
               THEN (IF pos % 6 = 1 /\ buf[1] = Symbol(pos - 1) THEN 5 ELSE Hunting)
               ELSE IF ~ Follows THEN Left + 11
               ELSE IF InStep THEN 6 - nbyte ELSE 12 - nbyte
      BY <2>1 DEF Rest, Parsed
  <2>8. Rest' = IF nbyte < 2
                THEN (IF pos' % 6 = 1 /\ buf'[1] = Symbol(pos' - 1) THEN 5 ELSE Hunting')
                ELSE IF ~ Follows' THEN Left' + 11
                ELSE IF InStep' THEN 6 - nbyte ELSE 12 - nbyte
      BY <2>1 DEF Rest, Parsed
  <2> QED BY <2>1, <2>4, <2>5, <2>6, <2>7, <2>8
<1>5. CASE Complete
  <2>1. /\ ppc = "test" /\ nbyte >= len + 4 /\ ppc' = "decode" /\ Count = nbyte
        /\ UNCHANGED <<pos, len, buf>> /\ LengthRead
      BY <1>5 DEF Complete, Count, LengthRead
  <2>2. Rest' = (IF Sent' THEN 0 ELSE Hunting)
    <3>1. Hunting' = Hunting
        BY <2>1 DEF Hunting
    <3>2. Rest' = (IF Sent' THEN 0 ELSE Hunting')
        BY <2>1 DEF Rest, Parsed
    <3> QED BY <3>1, <3>2
  <2>3. Rest = IF ~ Follows THEN 11 ELSE IF InStep THEN 6 - Count ELSE 12 - Count
      BY <2>1 DEF Rest, Parsed, Left
  <2>4. ASSUME Follows PROVE Count = 6 /\ pos % 6 = 0 /\ len = 2
      BY <2>1, <2>4 DEF Follows
  <2>5. ASSUME Follows, InStep PROVE Sent'
    <3>1. ASSUME NEW i \in 0 .. 5 PROVE buf[i] = Symbol(pos - 6 + i)
      <4>1. Cell(i) = buf[i] /\ Count = 6
          BY <2>1, <2>4, <2>5 DEF Cell
      <4> QED BY <2>5, <4>1 DEF Follows, InStep
    <3>2. 6 <= pos
        BY <2>4, <2>5 DEF InStep
    <3> QED BY <2>1, <2>4, <2>5, <3>1, <3>2 DEF Sent
  <2> QED BY <2>2, <2>3, <2>4, <2>5 DEF Hunting
<1>6. CASE Decode
  <2>1. /\ ppc = "decode" /\ nbyte = 0 /\ UNCHANGED <<pos, nbyte, len, buf>>
        /\ ppc' = IF ChecksumFits THEN "parse" ELSE "idle"
      BY <1>6 DEF Decode, raw, PlaceInv, Decoding
  <2>2. Rest = IF Sent THEN 0 ELSE Hunting
      BY <2>1 DEF Rest, Parsed
  <2>3. ASSUME Sent PROVE ChecksumFits
    <3>1. PICK k \in Nat : pos = 6 * k
      <4>1. pos = 6 * (pos \div 6) /\ pos \div 6 \in Nat
          BY <2>3 DEF Sent
      <4> QED BY <4>1
    <3>2. k # 0
        BY <2>3, <3>1 DEF Sent
    <3>3. k \in 1 .. Samples
        BY <3>1, <3>2
    <3>4. \A i \in 0 .. FrameLen - 1 : buf[i] = Symbol((k - 1) * FrameLen + i)
        BY <2>3, <3>1, <3>3 DEF Sent
    <3> QED BY <2>3, <3>3, <3>4 DEF ChecksumFits, Sent
  <2>4. CASE ChecksumFits
      BY <2>1, <2>4 DEF Rest, Parsed
  <2>5. CASE ~ ChecksumFits
    <3>1. Count' = 0 /\ ppc' = "idle"
        BY <2>1, <2>5 DEF Count
    <3>2. Rest' <= Hunting
        BY <2>1, <3>1 DEF Rest, Parsed, Hunting
    <3> QED BY <2>2, <2>3, <2>5, <3>2
  <2> QED BY <2>4, <2>5
<1>7. CASE ParseLow \/ ParseHigh \/ CopyLow \/ CopyHigh \/ Stamp
  <2>1. ppc' \in Parsed
      BY <1>7 DEF ParseLow, ParseHigh, CopyLow, CopyHigh, Stamp, Parsed
  <2> QED BY <2>1 DEF Rest
<1>8. ~ Hunt /\ ~ Fetch
    BY DEF Hunt, Fetch, Takes
<1> QED BY <1>1, <1>2, <1>3, <1>4, <1>5, <1>6, <1>7, <1>8 DEF Poll

LEMMA ResyncStep ==
    ASSUME ParserType, RestType', PlaceInv, ResyncInv, [Next]_vars
    PROVE  ResyncInv'
<1> USE Numbers
<1>1. Rest \in Nat /\ Rest <= MaxLen + 13 /\ Rest' \in Nat /\ Rest' <= MaxLen + 13
    BY RestRange DEF RestType
<1>2. CASE undisturbed' = 0
    BY <1>1, <1>2 DEF ResyncInv
<1>3. CASE undisturbed' = undisturbed /\ Rest' <= Rest
    BY <1>1, <1>3 DEF ResyncInv
<1>4. CASE Hunt \/ Fetch
  <2>1. \/ Symbol(pos).sample \in Confusing /\ undisturbed' = 0
        \/ Symbol(pos).sample \notin Confusing /\ undisturbed' = undisturbed + 1
      BY <1>4 DEF Hunt, Fetch, Takes
  <2>2. Symbol(pos).sample \notin Confusing => Rest' <= Rest - 1
      BY <1>4, HuntNears, FetchNears
  <2> QED BY <1>1, <1>2, <2>1, <2>2 DEF ResyncInv
<1>5. CASE Publish \/ Lose
    BY <1>2, <1>5 DEF Publish, Lose
<1>6. CASE Poll /\ ~ Hunt /\ ~ Fetch /\ ~ Publish
  <2>1. pos' = pos /\ undisturbed' = undisturbed
      BY <1>6 DEF Poll, Synced, Store, ReadLength, NoHeader, Incomplete, Complete, Decode,
                  ParseLow, ParseHigh, CopyLow, CopyHigh, Stamp, count
  <2> QED BY <1>3, <1>6, <2>1, ParserNears
<1>7. ASSUME NEW r \in Readers, Reset(r) PROVE undisturbed' = 0
    BY <1>7 DEF Reset, ResetCounters, ResetBuffer, ResetImu, Flush, Disturb
<1>8. ASSUME (\E r \in Readers : Read(r)) \/ UNCHANGED vars PROVE undisturbed' = undisturbed /\ Rest' <= Rest
  <2>1. UNCHANGED <<pos, raw, poll, undisturbed>>
      BY <1>8 DEF Read, ReadWait, ReadLow, ReadHigh, ReadStamp, ReadClear, ReaderStep, vars, marks, count
  <2>2. Rest' = Rest
      BY <2>1 DEF raw, poll, Rest, Sent, Hunting, Left, Follows, InStep, LengthRead, Cell, Count
  <2> QED BY <1>1, <2>1, <2>2
<1> QED BY <1>2, <1>3, <1>4, <1>5, <1>6, <1>7, <1>8 DEF Next

(* The symbols since the last gap, reset or sample: those since the last   *)
(* confusing one, and for every confusing sample that has been met one     *)
(* resynchronisation and its own length, as far as it has gone by.         *)
Cost == Cardinality(Met) * (Resync + 6)
Ahead == IF Symbol(pos).sample \in Met THEN 6 - (pos % 6) ELSE 0

SpanInv ==
    /\ since < pos /\ Symbol(pos - 1).sample \in Confusing => undisturbed = 0
    /\ pos - since <= undisturbed + Cost - Ahead

(* Where a sample is on the wire.                                          *)
LEMMA SampleAt ==
    ASSUME NEW p \in Nat
    PROVE  LET k == Symbol(p).sample
           IN  k \in Nat /\ 6 * (k - 1) <= p /\ p < 6 * k /\ p % 6 = p - 6 * (k - 1)
BY DEF Symbol, FrameLen, Header, Payload

LEMMA MetFinite ==
    IsFiniteSet(Met) /\ Cardinality(Met) \in Nat
<1>1. IsFiniteSet(1 .. Samples)
    BY FrameAssumption, FS_Interval
<1>2. Met \subseteq 1 .. Samples
    BY FrameAssumption DEF Met
<1> QED BY <1>1, <1>2, FS_Subset, FS_CardinalityType

(* One resynchronisation more.                                             *)
LEMMA CostType ==
    /\ Resync = MaxLen + 13 /\ Cost \in Nat
    /\ \A c, K \in Nat : c * K \in Nat /\ (c + 1) * K = c * K + K
<1>1. Resync = MaxLen + 13 /\ Resync + 6 \in Nat
    BY FrameAssumption DEF Resync, Header, FrameLen, Payload
<1>2. \A c, K \in Nat : c * K \in Nat /\ (c + 1) * K = c * K + K
    OBVIOUS
<1> QED BY <1>1, <1>2, MetFinite DEF Cost

(* Arithmetic.                                                             *)
LEMMA NothingLeft ==
    ASSUME NEW p \in Nat, NEW s, NEW u, NEW c, NEW a, s = p, u = 0, c = 0, a = 0
    PROVE  p - s <= u + c - a
OBVIOUS

LEMMA OneMore ==
    ASSUME NEW p \in Nat, NEW s \in Nat, NEW c \in Nat, NEW a \in Int, NEW b \in Int,
           p - s <= c - a, b <= a - 1,
           NEW q, NEW t, NEW u, NEW d, q = p + 1, t = s, u = 0, d = c
    PROVE  q - t <= u + d - b
OBVIOUS

LEMMA TakesSpan ==
    ASSUME ParserType, CountType, ResyncInv, RestType, SpanInv, Takes, CountType'
    PROVE  SpanInv'
<1> DEFINE k == Symbol(pos).sample
           n == Symbol(pos').sample
<1>1. pos \in Nat /\ pos' = pos + 1 /\ since' = since /\ since \in Nat /\ since <= pos
    BY DEF Takes, ParserType, CountType
<1>2. undisturbed \in Nat /\ undisturbed <= Resync
    BY CostType, Numbers DEF ResyncInv, RestType
<1>3. k \in Nat /\ 6 * (k - 1) <= pos /\ pos < 6 * k /\ pos % 6 = pos - 6 * (k - 1)
    BY <1>1, SampleAt
<1>4. n \in Nat /\ 6 * (n - 1) <= pos + 1 /\ pos + 1 < 6 * n /\ pos' % 6 = pos + 1 - 6 * (n - 1)
    BY <1>1, SampleAt
<1>5. n = k \/ (n = k + 1 /\ pos + 1 = 6 * k)
    BY <1>1, <1>3, <1>4
<1>6. Met = {j \in Confusing : since < pos /\ (j - 1) * 6 < pos /\ since < j * 6}
    BY DEF Met, FrameLen, Header, Payload
<1>7. Met' = {j \in Confusing : since < pos + 1 /\ (j - 1) * 6 < pos + 1 /\ since < j * 6}
    BY <1>1 DEF Met, FrameLen, Header, Payload
<1>8. n \in Met' => n = k
  <2>1. n \in Met' => (n - 1) * 6 < pos + 1
      BY <1>7
  <2>2. n = k + 1 => (n - 1) * 6 = 6 * k
      BY <1>3
  <2> HIDE DEF n, k
  <2> QED BY <1>1, <1>3, <1>5, <2>1, <2>2
<1>9. \A j \in Confusing : j \in Nat
    BY FrameAssumption
<1>10. Met' = IF k \in Confusing THEN Met \cup {k} ELSE Met
  <2>1. ASSUME NEW j \in Confusing, j # k PROVE j \in Met' <=> j \in Met
    <3>0. j \in Nat
        BY <1>9
    <3> HIDE DEF n, k
    <3>1. (j - 1) * 6 < pos + 1 /\ since < j * 6 => (j - 1) * 6 < pos
        BY <1>1, <1>3, <2>1, <3>0
    <3>2. (j - 1) * 6 < pos + 1 /\ since < j * 6 => since < pos
      <4>1. CASE j < k
          BY <1>1, <1>3, <3>0, <4>1
      <4>2. CASE j > k
          BY <1>1, <1>3, <3>0, <4>2
      <4> QED BY <1>3, <2>1, <3>0, <4>1, <4>2
    <3> QED BY <1>1, <1>6, <1>7, <3>0, <3>1, <3>2
  <2>2. k \in Confusing => k \in Met'
      BY <1>1, <1>3, <1>7
  <2>3. Met \subseteq Confusing /\ Met' \subseteq Confusing
      BY <1>6, <1>7
  <2> QED BY <2>1, <2>2, <2>3
<1>11. Symbol(pos' - 1).sample = k
    BY <1>1
<1>12. CASE k \notin Confusing
  <2>1. undisturbed' = undisturbed + 1 /\ Met' = Met
      BY <1>10, <1>12 DEF Takes
  <2>2. k \notin Met /\ n \notin Met'
      BY <1>6, <1>8, <1>12, <2>1
  <2>3. Cost' = Cost /\ Ahead = 0 /\ Ahead' = 0
      BY <2>1, <2>2 DEF Cost, Ahead
  <2>4. pos - since <= undisturbed + Cost - Ahead
      BY DEF SpanInv
  <2>5. pos' - since' <= undisturbed' + Cost' - Ahead'
    <3>1. Cost \in Nat
        BY CostType
    <3>2. pos - since <= undisturbed + Cost
        BY <1>2, <2>3, <2>4, <3>1
    <3>3. pos + 1 - since <= undisturbed + 1 + Cost
        BY <1>1, <1>2, <3>1, <3>2
    <3> QED BY <1>1, <1>2, <2>1, <2>3, <3>1, <3>3
  <2> QED BY <1>11, <1>12, <2>5 DEF SpanInv
<1>13. CASE k \in Confusing
  <2>1. undisturbed' = 0
      BY <1>13 DEF Takes
  <2>2. CASE k \in Met
    <3>1. since < pos /\ (k - 1) * 6 < pos
        BY <1>6, <2>2
    <3>2. pos - 1 \in Nat /\ Symbol(pos - 1).sample = k
      <4>1. pos - 1 \in Nat
          BY <1>1, <3>1
      <4>2. LET m == Symbol(pos - 1).sample IN m \in Nat /\ 6 * (m - 1) <= pos - 1 /\ pos - 1 < 6 * m
          BY <4>1, SampleAt
      <4> QED BY <1>1, <1>3, <3>1, <4>1, <4>2
    <3>3. undisturbed = 0
        BY <1>13, <3>1, <3>2 DEF SpanInv
    <3>4. Met' = Met /\ Cost' = Cost
      <4>1. Met' = Met
          BY <1>10, <1>13, <2>2
      <4> QED BY <4>1 DEF Cost
    <3>5. Ahead = 6 - (pos % 6) /\ pos - since <= Cost - Ahead
        BY <1>1, <2>2, <3>3, CostType DEF Ahead, SpanInv
    <3>6. Ahead' = IF n \in Met' THEN 6 - (pos' % 6) ELSE 0
        BY DEF Ahead
    <3>7. Ahead' <= Ahead - 1
      <4>1. CASE n \in Met'
          BY <1>1, <1>3, <1>4, <1>8, <3>5, <3>6, <4>1
      <4>2. CASE n \notin Met'
          BY <1>1, <1>3, <3>5, <3>6, <4>2
      <4> QED BY <4>1, <4>2
    <3>8. Ahead' \in Int /\ Ahead \in Int
        BY <1>1, <3>5, <3>6
    <3>9. pos' - since' <= undisturbed' + Cost' - Ahead'
      <4>1. Cost \in Nat
          BY CostType
      <4> QED BY <1>1, <2>1, <3>4, <3>5, <3>7, <3>8, <4>1, OneMore, Zenon
    <3> QED BY <2>1, <3>9 DEF SpanInv
  <2>3. CASE k \notin Met
    <3>1. Met' = Met \cup {k}
        BY <1>10, <1>13
    <3>2. Cardinality(Met') = Cardinality(Met) + 1
        BY <2>3, <3>1, MetFinite, FS_AddElement
    <3>3. Cost' = Cost + Resync + 6
      <4>1. Resync + 6 \in Nat /\ Cardinality(Met) \in Nat
          BY CostType, FrameAssumption, MetFinite
      <4>2. Resync' = Resync
          BY DEF Resync
      <4>3. (Cardinality(Met) + 1) * (Resync + 6) = Cardinality(Met) * (Resync + 6) + (Resync + 6)
          BY <4>1, CostType
      <4>4. Cost' = (Cardinality(Met) + 1) * (Resync + 6)
          BY <3>2, <4>2 DEF Cost
      <4>5. Cost' = Cost + (Resync + 6)
          BY <4>3, <4>4 DEF Cost
      <4> QED BY <4>1, <4>5, CostType, FrameAssumption
    <3>4. Ahead = 0
        BY <2>3 DEF Ahead
    <3>5. Ahead' \in Int /\ Ahead' <= 5
      <4>1. Ahead' = IF n \in Met' THEN 6 - (pos' % 6) ELSE 0
          BY DEF Ahead
      <4>2. n \in Met' => pos' % 6 >= 1
          BY <1>1, <1>3, <1>4, <1>8
      <4> QED BY <1>1, <4>1, <4>2
    <3>6. pos - since <= undisturbed + Cost
        BY <1>1, <1>2, <3>4, CostType DEF SpanInv
    <3>7. Resync \in Nat
        BY CostType, FrameAssumption
    <3>8. pos' - since' <= undisturbed' + Cost' - Ahead'
        BY <1>1, <1>2, <2>1, <3>3, <3>5, <3>6, <3>7, CostType
    <3> QED BY <2>1, <3>8 DEF SpanInv
  <2> QED BY <2>2, <2>3
<1> QED BY <1>12, <1>13

(* Where symbols are counted anew none has been met.                       *)
LEMMA AnewSpan ==
    ASSUME pos \in Nat, since = pos, undisturbed = 0
    PROVE  SpanInv
<1>1. Met = {}
    BY DEF Met
<1>2. Ahead = 0
    BY <1>1 DEF Ahead
<1> QED BY <1>2, CostType DEF SpanInv

LEMMA SpanStep ==
    ASSUME ParserType, CountType, ResyncInv, RestType, SpanInv, [Next]_vars,
           ParserType', CountType'
    PROVE  SpanInv'
<1>1. CASE Hunt \/ Fetch
    BY <1>1, TakesSpan DEF Hunt, Fetch
<1>2. CASE Lose \/ Publish \/ \E r \in Readers : Reset(r)
  <2>1. pos' \in Nat /\ since' = pos' /\ undisturbed' = 0
      BY <1>2 DEF Lose, Publish, Reset, ResetCounters, ResetBuffer, ResetImu, Flush, Disturb,
                  CountType, ParserType
  <2>2. Met' = {}
      BY <2>1 DEF Met
  <2>3. Ahead' = 0 /\ Cost' = 0
    <3>1. Cardinality({}) = 0 /\ Resync' = Resync
        BY FS_EmptySet DEF Resync
    <3>2. Resync + 6 \in Nat
        BY CostType, FrameAssumption
    <3> QED BY <2>2, <3>1, <3>2 DEF Ahead, Cost
  <2>4. pos' - since' <= undisturbed' + Cost' - Ahead'
      BY <2>1, <2>3, NothingLeft, Zenon
  <2> QED BY <2>1, <2>4 DEF SpanInv
<1>3. CASE UNCHANGED <<pos, count>>
  <2>1. pos' = pos /\ since' = since /\ undisturbed' = undisturbed
      BY <1>3 DEF count
  <2>2. Met' = Met
      BY <2>1 DEF Met
  <2>3. Ahead' = Ahead /\ Cost' = Cost
      BY <2>1, <2>2 DEF Ahead, Cost, Resync
  <2>4. Symbol(pos' - 1) = Symbol(pos - 1)
      BY <2>1
  <2>5. since' < pos' /\ Symbol(pos' - 1).sample \in Confusing => undisturbed' = 0
      BY <2>1, <2>4 DEF SpanInv
  <2>6. pos' - since' <= undisturbed' + Cost' - Ahead'
      BY <2>1, <2>3 DEF SpanInv
  <2> QED BY <2>5, <2>6 DEF SpanInv
<1>4. Poll => Hunt \/ Fetch \/ Publish \/ UNCHANGED <<pos, count>>
    BY DEF Poll, Synced, Store, ReadLength, NoHeader, Incomplete, Complete, Decode,
           ParseLow, ParseHigh, CopyLow, CopyHigh, Stamp
<1>5. (\E r \in Readers : Read(r)) \/ UNCHANGED vars => UNCHANGED <<pos, count>>
    BY DEF Read, ReadWait, ReadLow, ReadHigh, ReadStamp, ReadClear, vars, marks
<1> QED BY <1>1, <1>2, <1>3, <1>4, <1>5 DEF Next

(* After any gap or reset, of any frame at any moment, and every sample,   *)
(* the parser is back in step and publishes one before a bogus frame and   *)
(* the rest of a true one have gone by; samples whose data look like sync  *)
(* codes put it off by as much again each.                                 *)
THEOREM BackInStep == Spec => []ResyncBound
<1>1. Init => ResyncInv /\ SpanInv
  <2>1. ASSUME Init PROVE undisturbed = 0 /\ Rest = 6 /\ MaxLen \in Nat
    <3>1. pos = 0 /\ ppc = "idle" /\ Count = 0 /\ MaxLen \in Nat
        BY <2>1, FrameAssumption DEF Init, Count
    <3> QED BY <2>1, <3>1 DEF Init, Rest, Parsed, Hunting
  <2>2. Init => pos \in Nat /\ since = pos /\ undisturbed = 0
      BY DEF Init
  <2>3. Init => SpanInv
      BY <2>2, AnewSpan
  <2> QED BY <2>1, <2>3 DEF ResyncInv
<1>2. ParserType /\ RestType' /\ OrderInv /\ ResyncInv /\ [Next]_vars => ResyncInv'
    BY ResyncStep DEF OrderInv
<1>3. ParserType /\ CountType /\ RestType /\ ResyncInv /\ SpanInv /\ [Next]_vars /\ ParserType' /\ CountType' => SpanInv'
    BY SpanStep
<1>4. ParserType /\ CountType /\ ResyncInv /\ RestType /\ SpanInv => ResyncBound
  <2> SUFFICES ASSUME ParserType, CountType, ResyncInv, RestType, SpanInv PROVE ResyncBound
      OBVIOUS
  <2>1. undisturbed \in Nat /\ undisturbed <= Resync
      BY CostType, Numbers DEF ResyncInv, RestType
  <2>2. Resync \in Nat /\ FrameLen = 6 /\ pos \in Nat /\ since \in Nat /\ pos % 6 < 6
      BY CostType, FrameAssumption DEF FrameLen, Header, Payload, CountType, ParserType
  <2>3. Ahead \in Nat
      BY <2>2 DEF Ahead
  <2>4. pos - since <= Resync + Cost
      BY <2>1, <2>2, <2>3, CostType DEF SpanInv
  <2> QED BY <2>2, <2>4 DEF ResyncBound, Cost
<1>5. ParserType => RestType
    BY RestRange
<1> QED
    BY <1>1, <1>2, <1>3, <1>4, <1>5, ParserTyped, CountTyped, InOrder, PTL DEF Spec
=============================================================================
