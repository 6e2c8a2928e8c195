------------------------------- MODULE Hi229 -------------------------------
(***************************************************************************)
(* The HI229 driver (lib/hi229): hi229_poll_task feeds the bytes of the    *)
(* UART to the frame parser ch_serial_input and publishes every frame in   *)
(* raw_snapshot; hi229_read copies the snapshot for the monitor, the REST  *)
(* server and power save, which also call hi229_buffer_reset.  Nobody      *)
(* takes the mutex of the device, so the parser's state is zeroed under    *)
(* the parser, and the snapshot is written under its readers.              *)
(*                                                                         *)
(* A field of two or more bytes is one symbol here: a frame is two sync    *)
(* codes, a length, a checksum and a payload of one item, of which the two *)
(* halves of a sample are seen.  A sample is known by its number; zeroed   *)
(* memory reads as sample 0.  The checksum of what is not a frame never    *)
(* fits, except that of zeros, which is zero.                              *)
(***************************************************************************)
EXTENDS Integers, FiniteSets

CONSTANTS MaxLen,      \* MAXRAWLEN - CH_HDR_SIZE
          Samples,     \* bound: frames the sensor sends
          Confusing,   \* the samples whose data look like sync codes
          Readers,     \* the tasks that read and reset
          MaxLosses,   \* bound: symbols lost
          MaxResets    \* bound: resets

Header == 4
Payload == 2

ASSUME FrameAssumption ==
    /\ MaxLen \in Nat /\ MaxLen >= Payload /\ Samples \in Nat
    /\ Confusing \subseteq 1 .. Samples
    /\ MaxLosses \in Nat /\ MaxResets \in Nat

VARIABLES
  pos,                \* symbols that have left the wire
  nbyte, len, buf,    \* raw: the parser
  imu,                \* raw.imu[0]
  ppc, byte, at,      \* hi229_poll_task, with data and the index it writes
  snap, stamp,        \* raw_snapshot, raw_timestamp
  ready,              \* EV_DATA_READY
  rpc, out,           \* the readers and what they copy
  gaps,               \* gaps in what the parser gets that may still come
  resets,             \* history
  since,              \* pos at the last gap, reset or published sample
  undisturbed,        \* symbols taken since then, confusing ones start it anew
  overlap,            \* readers that met a publication
  spoilt, damaged,    \* a reset met the parsing of imu, the copy of snap
  seen                \* per reader: its last sample since a reset, and how often

raw == <<nbyte, len, buf, imu>>
poll == <<ppc, byte, at>>
published == <<snap, stamp, ready>>
reading == <<rpc, out>>
bounds == <<gaps, resets>>
ghosts == <<overlap, spoilt, damaged>>
count == <<since, undisturbed>>
marks == <<count, ghosts, seen>>
vars == <<pos, raw, poll, published, reading, bounds, marks>>

-----------------------------------------------------------------------------
(* The wire.                                                               *)

Parts == <<"sync1", "sync2", "length", "check", "low", "high">>
FrameLen == Header + Payload
Zero == [part |-> "zero", sample |-> 0]
Symbol(p) == [part |-> Parts[(p % FrameLen) + 1], sample |-> (p \div FrameLen) + 1]
Symbols == {Zero} \cup {Symbol(p) : p \in 0 .. Samples * FrameLen - 1}

IsSync1(s) == s.part = "sync1" \/ (s.part = "low" /\ s.sample \in Confusing)
IsSync2(s) == s.part = "sync2" \/ (s.part = "high" /\ s.sample \in Confusing)

\* What the parser may take for a length: anything, if it is none.
Lengths(s) ==
    CASE s = Zero -> {0}
      [] s.part = "length" -> {Payload}
      [] OTHER -> 0 .. MaxLen + 1

Size == Header + MaxLen
Halves == [low : 0 .. Samples, high : 0 .. Samples]
Outs == [low : 0 .. Samples, high : 0 .. Samples, stamp : 0 .. Samples]
Nothing == [low |-> 0, high |-> 0]
NothingRead == [low |-> 0, high |-> 0, stamp |-> 0]
Unseen == [sample |-> 0, times |-> 0]
Cleared == [i \in 0 .. Size - 1 |-> Zero]

\* The states of the parser after hi229_init; the device sends.
Init ==
    /\ pos = 0 /\ nbyte = 0 /\ len = 0 /\ buf = Cleared /\ imu = Nothing
    /\ ppc = "idle" /\ byte = Zero /\ at = 0
    /\ snap = Nothing /\ stamp = 0 /\ ready = FALSE
    /\ rpc = [r \in Readers |-> "idle"] /\ out = [r \in Readers |-> NothingRead]
    /\ gaps = MaxLosses /\ resets = 0 /\ since = 0 /\ undisturbed = 0 /\ overlap = {}
    /\ spoilt = FALSE /\ damaged = FALSE
    /\ seen = [r \in Readers |-> Unseen]

\* The receive buffer overflows, somebody else reads it (read_bytes), or it
\* has been flushed: what the task had read before is parsed first.  The gap
\* is between two symbols that the parser takes.
Lose ==
    /\ ppc = "idle" /\ gaps > 0 /\ gaps' = gaps - 1
    /\ \E p \in pos + 1 .. Samples * FrameLen : pos' = p
    /\ since' = pos' /\ undisturbed' = 0
    /\ UNCHANGED <<raw, poll, published, reading, resets, ghosts, seen>>
-----------------------------------------------------------------------------
(* hi229_poll_task: ch_serial_input for every byte.                        *)

Copying == {"low", "high", "stamp", "clear"}

PollStep(from) ==
    /\ ppc = from
    /\ UNCHANGED <<reading, bounds, seen>>

Takes ==
    /\ pos < Samples * FrameLen /\ pos' = pos + 1
    /\ undisturbed' = IF Symbol(pos).sample \in Confusing THEN 0 ELSE undisturbed + 1
    /\ UNCHANGED since

\* sync_ch
Hunt ==
    /\ PollStep("idle") /\ Takes /\ nbyte = 0
    /\ buf' = [buf EXCEPT ![0] = buf[1], ![1] = Symbol(pos)]
    /\ ppc' = IF IsSync1(buf[1]) /\ IsSync2(Symbol(pos)) THEN "synced" ELSE "idle"
    /\ UNCHANGED <<nbyte, len, imu, byte, at, published, ghosts>>

Synced ==
    /\ PollStep("synced")
    /\ nbyte' = 2 /\ ppc' = "idle"
    /\ UNCHANGED <<pos, len, buf, imu, byte, at, published, count, ghosts>>

\* raw->buf[raw->nbyte++] = data, with the index loaded before the store.
Fetch ==
    /\ PollStep("idle") /\ Takes /\ nbyte # 0
    /\ byte' = Symbol(pos) /\ at' = nbyte /\ ppc' = "append"
    /\ UNCHANGED <<raw, published, ghosts>>

Store ==
    /\ PollStep("append")
    /\ buf' = [buf EXCEPT ![at] = byte] /\ nbyte' = at + 1
    /\ byte' = Zero /\ at' = 0 /\ ppc' = "header"
    /\ UNCHANGED <<pos, len, imu, published, count, ghosts>>

\* A slip: the length is not compared with the room.
ReadLengthUnchecked ==
    /\ PollStep("header") /\ nbyte = Header
    /\ \E n \in Lengths(buf[2]) : len' = n
    /\ ppc' = "test"
    /\ UNCHANGED <<pos, nbyte, buf, imu, byte, at, published, count, ghosts>>

\* Complete header: a frame that does not fit into the buffer is given up.
ReadLength ==
    /\ PollStep("header") /\ nbyte = Header
    /\ \E n \in Lengths(buf[2]) :
         /\ len' = n
         /\ IF n > MaxLen THEN nbyte' = 0 /\ ppc' = "idle"
            ELSE UNCHANGED nbyte /\ ppc' = "test"
    /\ UNCHANGED <<pos, buf, imu, byte, at, published, count, ghosts>>

NoHeader ==
    /\ PollStep("header") /\ nbyte # Header
    /\ ppc' = "test"
    /\ UNCHANGED <<pos, raw, byte, at, published, count, ghosts>>

Incomplete ==
    /\ PollStep("test") /\ nbyte < len + Header
    /\ ppc' = "idle"
    /\ UNCHANGED <<pos, raw, byte, at, published, count, ghosts>>

Complete ==
    /\ PollStep("test") /\ nbyte >= len + Header
    /\ nbyte' = 0 /\ ppc' = "decode"
    /\ UNCHANGED <<pos, len, buf, imu, byte, at, published, count, ghosts>>

\* decode_ch: the checksum over sync codes, length and payload.
ChecksumFits ==
    \/ /\ len = Payload
       /\ \E k \in 1 .. Samples : \A i \in 0 .. FrameLen - 1 :
            buf[i] = Symbol((k - 1) * FrameLen + i)
    \/ \A i \in 0 .. Header + len - 1 : buf[i] = Zero

\* A slip: a frame that fails is taken for the header of the next.
DecodeKeepsSync ==
    /\ PollStep("decode")
    /\ ppc' = IF ChecksumFits THEN "parse" ELSE "synced"
    /\ UNCHANGED <<pos, raw, byte, at, published, count, ghosts>>

Decode ==
    /\ PollStep("decode")
    /\ ppc' = IF ChecksumFits THEN "parse" ELSE "idle"
    /\ UNCHANGED <<pos, raw, byte, at, published, count, ghosts>>

\* parse_data: an item whose code is zero is skipped, no item leaves imu as it
\* is, and the result is a sample all the same.
ParseLow ==
    /\ PollStep("parse")
    /\ IF len > 0 /\ buf[Header] # Zero
       THEN /\ imu' = [imu EXCEPT !.low = buf[Header].sample]
            /\ ppc' = "parsing" /\ spoilt' = FALSE
       ELSE UNCHANGED <<imu, spoilt>> /\ ppc' = "copy"
    /\ UNCHANGED <<pos, nbyte, len, buf, byte, at, published, count, overlap, damaged>>

ParseHigh ==
    /\ PollStep("parsing")
    /\ imu' = [imu EXCEPT !.high = buf[Header + 1].sample]
    /\ ppc' = "copy"
    /\ UNCHANGED <<pos, nbyte, len, buf, byte, at, published, count, ghosts>>

\* The snapshot, its time, the bit.
Meets == overlap' = overlap \cup {r \in Readers : rpc[r] \in Copying}

CopyLow ==
    /\ PollStep("copy") /\ Meets
    /\ snap' = [snap EXCEPT !.low = imu.low] /\ ppc' = "copying"
    /\ damaged' = spoilt
    /\ UNCHANGED <<pos, raw, byte, at, stamp, ready, count, spoilt>>

CopyHigh ==
    /\ PollStep("copying") /\ Meets
    /\ snap' = [snap EXCEPT !.high = imu.high] /\ ppc' = "stamp"
    /\ UNCHANGED <<pos, raw, byte, at, stamp, ready, count, spoilt, damaged>>

Stamp ==
    /\ PollStep("stamp") /\ Meets
    /\ stamp' = snap.low /\ ppc' = "publish"
    /\ UNCHANGED <<pos, raw, byte, at, snap, ready, count, spoilt, damaged>>

Publish ==
    /\ PollStep("publish")
    /\ ready' = TRUE /\ ppc' = "idle"
    /\ since' = pos /\ undisturbed' = 0
    /\ UNCHANGED <<pos, raw, byte, at, snap, stamp, ghosts>>

Poll ==
    \/ Hunt \/ Synced \/ Fetch \/ Store \/ ReadLength \/ NoHeader \/ Incomplete
    \/ Complete \/ Decode \/ ParseLow \/ ParseHigh
    \/ CopyLow \/ CopyHigh \/ Stamp \/ Publish
-----------------------------------------------------------------------------
(* The tasks that read: hi229_read and hi229_buffer_reset.                 *)

ReaderStep(r, from, to) ==
    /\ rpc[r] = from /\ rpc' = [rpc EXCEPT ![r] = to]
    /\ UNCHANGED <<poll, snap, stamp>>

\* The wait does not clear the bit.
ReadWait(r) ==
    /\ ready /\ ReaderStep(r, "idle", "low")
    /\ overlap' = IF ppc \in {"copying", "stamp"} THEN overlap \cup {r} ELSE overlap \ {r}
    /\ UNCHANGED <<pos, raw, ready, out, bounds, count, spoilt, damaged, seen>>

ReadLow(r) ==
    /\ ReaderStep(r, "low", "high") /\ out' = [out EXCEPT ![r].low = snap.low]
    /\ UNCHANGED <<pos, raw, ready, bounds, marks>>

\* A slip: the sample is copied from the parser, not from the snapshot.
ReadHighLive(r) ==
    /\ ReaderStep(r, "high", "stamp") /\ out' = [out EXCEPT ![r].high = imu.high]
    /\ UNCHANGED <<pos, raw, ready, bounds, marks>>

ReadHigh(r) ==
    /\ ReaderStep(r, "high", "stamp") /\ out' = [out EXCEPT ![r].high = snap.high]
    /\ UNCHANGED <<pos, raw, ready, bounds, marks>>

ReadStamp(r) ==
    /\ ReaderStep(r, "stamp", "clear") /\ out' = [out EXCEPT ![r].stamp = stamp]
    /\ UNCHANGED <<pos, raw, ready, bounds, marks>>

\* A slip: the bit stays set.
ReadClearForgotten(r) ==
    /\ ReaderStep(r, "clear", "idle")
    /\ out' = [out EXCEPT ![r] = NothingRead]
    /\ seen' = [seen EXCEPT ![r] =
         [sample |-> out[r].low,
          times |-> IF @.sample = out[r].low THEN @.times + 1 ELSE 1]]
    /\ UNCHANGED <<pos, raw, ready, bounds, count, ghosts>>

ReadClear(r) ==
    /\ ReaderStep(r, "clear", "idle") /\ ready' = FALSE
    /\ out' = [out EXCEPT ![r] = NothingRead]
    /\ seen' = [seen EXCEPT ![r] =
         [sample |-> out[r].low,
          times |-> IF @.sample = out[r].low THEN @.times + 1 ELSE 1]]
    /\ UNCHANGED <<pos, raw, bounds, count, ghosts>>

Read(r) == ReadWait(r) \/ ReadLow(r) \/ ReadHigh(r) \/ ReadStamp(r) \/ ReadClear(r)

\* memset of raw, in the order of its fields, then uart_flush.
Disturb ==
    /\ since' = pos /\ undisturbed' = 0
    /\ spoilt' = (spoilt \/ ppc = "parsing")
    /\ damaged' = (damaged \/ ppc = "copying")
    /\ seen' = [q \in Readers |-> Unseen]

ResetCounters(r) ==
    /\ resets < MaxResets /\ resets' = resets + 1
    /\ ReaderStep(r, "idle", "buffer") /\ Disturb
    /\ nbyte' = 0 /\ len' = 0
    /\ UNCHANGED <<pos, gaps, buf, imu, ready, out, overlap>>

ResetBuffer(r) ==
    /\ ReaderStep(r, "buffer", "imu") /\ Disturb
    /\ buf' = Cleared
    /\ UNCHANGED <<pos, nbyte, len, imu, ready, out, bounds, overlap>>

ResetImu(r) ==
    /\ ReaderStep(r, "imu", "flush") /\ Disturb
    /\ imu' = Nothing
    /\ UNCHANGED <<pos, nbyte, len, buf, ready, out, bounds, overlap>>

Flush(r) ==
    /\ ReaderStep(r, "flush", "idle") /\ Disturb
    /\ gaps' = gaps + 1
    /\ UNCHANGED <<pos, raw, ready, out, resets, overlap>>

Reset(r) == ResetCounters(r) \/ ResetBuffer(r) \/ ResetImu(r) \/ Flush(r)

Next == Lose \/ Poll \/ \E r \in Readers : Read(r) \/ Reset(r)

Spec == Init /\ [][Next]_vars
-----------------------------------------------------------------------------
(* Every variable keeps its type.                                          *)
TypeOK ==
    /\ pos \in 0 .. Samples * FrameLen
    /\ nbyte \in 0 .. Size /\ len \in 0 .. MaxLen + 1 /\ at \in 0 .. Size - 1
    /\ buf \in [0 .. Size - 1 -> Symbols] /\ byte \in Symbols
    /\ ppc \in {"idle", "synced", "append", "header", "test", "decode", "parse",
               "parsing", "copy", "copying", "stamp", "publish"}
    /\ imu \in Halves /\ snap \in Halves /\ stamp \in 0 .. Samples /\ ready \in BOOLEAN
    /\ rpc \in [Readers -> Copying \cup {"idle", "buffer", "imu", "flush"}]
    /\ out \in [Readers -> Outs]
    /\ gaps \in Nat /\ resets \in 0 .. MaxResets
    /\ since \in 0 .. pos /\ undisturbed \in Nat
    /\ overlap \subseteq Readers /\ spoilt \in BOOLEAN /\ damaged \in BOOLEAN

(* Of ch_serial_input and decode_ch, with nbyte, len and buf zeroed under  *)
(* them at any moment: a byte is stored inside raw.buf, and the checksum   *)
(* reads no farther than its end.  Of what parse_data stores elsewhere     *)
(* nothing is said.                                                        *)
InsideBuffer ==
    /\ ppc = "append" => at < Size
    /\ ppc \in {"decode", "parse", "parsing"} => Header + len <= Size

(* A read that met no publication, of a snapshot that met no reset, gets a *)
(* whole sample with its own time, although no lock is taken.              *)
ReadIsWhole ==
    \A r \in Readers \ overlap :
        rpc[r] = "clear" /\ ~damaged
          => out[r].low = out[r].high /\ out[r].low = out[r].stamp

(* The bit may be found set for the sample before, so a sample may be read *)
(* twice, but no reader gets it a third time before the next reset.        *)
AtMostTwice == \A r \in Readers : seen[r].sample # 0 => seen[r].times <= 2

\* One bogus frame of any length, the rest of a true one, and a sample.
Resync == (Header - 2 + MaxLen) + (FrameLen - 1) + FrameLen

\* The samples that look like sync codes, of which some symbol was taken.
Met == {k \in Confusing : since < pos /\ (k - 1) * FrameLen < pos /\ since < k * FrameLen}

(* After any gap, reset or sample the parser is back in step, and has      *)
(* published a sample, before it has taken more than a bogus frame and the *)
(* rest of a true one; every sample on the way whose data look like sync   *)
(* codes can cost it as much again, and that sample.                       *)
ResyncBound == pos - since <= Resync + Cardinality(Met) * (Resync + FrameLen)
=============================================================================
