------------------------------- MODULE Samples -------------------------------
(***************************************************************************)
(* What the nodes of the flow graph do to the samples: sources make floats *)
(* of them, converters change the number of channels, sinks make samples   *)
(* of the floats.  A float is a whole multiple of 1 / Unit, with Mantissa  *)
(* significant bits.  Samples of a block are interleaved.  The casts to    *)
(* int32_t are taken to be in range, as they are for floats below 256.     *)
(***************************************************************************)
EXTENDS Integers, Sequences

CONSTANTS Bits,      \* of the integers of each format
          Mantissa,
          Paths,     \* formats and channels of two streams: [from, to], each [format, channels]
          Frames,    \* in a block
          Memory     \* what a read past the block can find

VARIABLES path, node, block,
          first,     \* the samples put in
          outcome,     \* what came out the first time
          trip       \* blocks go there, back and there again
vars == <<path, node, block, first, outcome, trip>>

Two(k) == 2 ^ k
Unit == Two(Bits["I32"])
Lesser(a, b) == IF a =< b THEN a ELSE b
Greater(a, b) == IF a >= b THEN a ELSE b
Size(n) == IF n < 0 THEN -n ELSE n
Toward0(n, d) == IF n >= 0 THEN n \div d ELSE -((-n) \div d)
AwayAtHalf(n, d) == IF n >= 0 THEN (2 * n + d) \div (2 * d) ELSE -((-2 * n + d) \div (2 * d))

Lowest(bits) == -Two(bits - 1)
Highest(bits) == Two(bits - 1) - 1
Clip(n, bits) == Lesser(Highest(bits), Greater(Lowest(bits), n))
Signed(u, bits) == IF u > Highest(bits) THEN u - Two(bits) ELSE u

(* An integer as a float: the nearest, and the even one of two.            *)
Float(n) ==
  LET excess == CHOOSE e \in 0 .. Bits["I32"] :
                  Size(n) < Two(Mantissa + e) /\ (e = 0 \/ Size(n) >= Two(Mantissa + e - 1))
      step == Two(excess)
      below == n \div step
      rest == n % step
  IN  step * (IF 2 * rest > step \/ (2 * rest = step /\ below % 2 = 1) THEN below + 1 ELSE below)

-----------------------------------------------------------------------------
(* onProcess of the sources, and of those that call the app for the block. *)
Scaled16(n) == n * (Unit \div Two(Bits["I16"] - 1))
Scaled32(n) == Float(n) * (Unit \div Two(Bits["I32"] - 1))

(* Three bytes are put at the top of an integer of 32 bits.                *)
Padded(bytes) == Signed(bytes * Two(Bits["I32"] - Bits["I24"]), Bits["I32"])

FromI16(n) == Scaled16(n)
FromI24(bytes) == Scaled32(Padded(bytes))
FromI32(n) == Scaled32(n)
FromI8_24(n) == Float(n) * (Unit \div Two(Bits["I24"] - 1))
FromPcm16(n) == Scaled16(n)

CallerI16(n) == Scaled16(n)
CallerI24(bytes) == Scaled32(Padded(bytes))
CallerI32(n) == Scaled32(n)

Source(format, calls, x) ==
  CASE format = "Float" -> x
    [] format = "I16" -> IF calls THEN CallerI16(x) ELSE FromI16(x)
    [] format = "I24" -> IF calls THEN CallerI24(x) ELSE FromI24(x)
    [] format = "I32" -> IF calls THEN CallerI32(x) ELSE FromI32(x)
    [] format = "I8_24" -> FromI8_24(x)
    [] format = "Pcm16" -> FromPcm16(x)

(* read of the sinks.                                                      *)
ToI16(f) == Clip(Toward0(f * Two(Bits["I16"] - 1), Unit), Bits["I16"])

(* Variant of ToI24: bytes are taken of what was not clipped. *)
ToI24Unclipped(f) == Toward0(f * Two(Bits["I24"] - 1), Unit) % Two(Bits["I24"])

ToI24(f) == Clip(Toward0(f * Two(Bits["I24"] - 1), Unit), Bits["I24"]) % Two(Bits["I24"])

Clamp32(f) ==
  IF f =< -Unit THEN Lowest(Bits["I32"])
  ELSE IF f >= Unit THEN Highest(Bits["I32"])
  ELSE AwayAtHalf(f * Two(Bits["I32"] - 1), Unit)
ToI32(f) == Clamp32(f)

Clamp24(f) ==
  LET scale == Two(Bits["I24"] - 1)
  IN  AwayAtHalf(Greater(Lesser(f * scale, (scale - 1) * Unit), -scale * Unit), Unit)
ToI8_24(f) == Clamp24(f)

(* convertFloatToPcm16: raised by one, so that it is cut off downward.     *)
ToPcm16(f) ==
  LET raised == Float(f + Unit) * Two(Bits["I16"] - 1)
  IN  Lesser(Two(Bits["I16"]) - 1, Greater(0, Toward0(raised, Unit))) + Lowest(Bits["I16"])

Sink(format, f) ==
  CASE format = "Float" -> f
    [] format = "I16" -> ToI16(f)
    [] format = "Pcm16" -> ToPcm16(f)
    [] format = "I24" -> ToI24(f)
    [] format = "I32" -> ToI32(f)
    [] format = "I8_24" -> ToI8_24(f)

-----------------------------------------------------------------------------
(* The converters: which sample of its input is sample c of frame i.       *)
ToMono(ins, outs, i, c) == i * ins + 1
FromMono(ins, outs, i, c) == i + 1

(* ChannelCountConverter goes back to the first channel after the one that *)
(* is not there.                                                           *)
Between(ins, outs, i, c) == i * ins + (c % (ins + 1)) + 1

Taken(ins, outs, i, c) ==
  IF outs = 1 THEN ToMono(ins, outs, i, c)
  ELSE IF ins = 1 THEN FromMono(ins, outs, i, c)
  ELSE Between(ins, outs, i, c)

Converted(samples, ins, outs, beyond) ==
  [k \in 1 .. Frames * outs |->
     LET at == Taken(ins, outs, (k - 1) \div outs, (k - 1) % outs)
     IN  IF at \in DOMAIN samples THEN samples[at] ELSE beyond]

-----------------------------------------------------------------------------
From == IF trip = "back" THEN path.to ELSE path.from
To == IF trip = "back" THEN path.from ELSE path.to

(* Samples of a format: of an app that keeps to the range, or is up to     *)
(* twice as loud.  I24 is in bytes.                                        *)
Loud == 2 * Unit
Any(format) ==
  CASE format = "Float" -> -Loud .. Loud
    [] format \in {"I16", "Pcm16"} -> Lowest(Bits["I16"]) .. Highest(Bits["I16"])
    [] format = "I24" -> 0 .. Two(Bits["I24"]) - 1
    [] format \in {"I32", "I8_24"} -> Lowest(Bits["I32"]) .. Highest(Bits["I32"])

Init ==
  /\ path \in Paths /\ node = "source" /\ trip = "there" /\ outcome = <<>>
  /\ \E s \in Any(path.from.format) :
       first = [k \in 1 .. Frames * path.from.channels |-> IF k % 2 = 1 THEN s ELSE 0]
            \/ (path.from.channels > 1 /\ s \in 0 .. 1 /\ first = [k \in 1 .. Frames * path.from.channels |-> k - s])
  /\ (path.from.format = "Float" => \A k \in DOMAIN first : first[k] = Float(first[k]))
  /\ block = first

OnProcess ==
  /\ node = "source" /\ node' = "channels"
  /\ \E calls \in BOOLEAN : block' = [k \in DOMAIN block |-> Source(From.format, calls, block[k])]
  /\ UNCHANGED <<path, first, outcome, trip>>

(* The number of channels is brought down before the rate is converted,    *)
(* or up after it.                                                         *)
ConvertChannels ==
  /\ node = "channels" /\ node' = "sink"
  /\ IF From.channels = To.channels
       THEN UNCHANGED block
       ELSE \E beyond \in Memory : block' = Converted(block, From.channels, To.channels, beyond)
  /\ UNCHANGED <<path, first, outcome, trip>>

Read ==
  /\ node = "sink" /\ node' = "read"
  /\ block' = [k \in DOMAIN block |-> Sink(To.format, block[k])]
  /\ outcome' = IF trip = "there" THEN block' ELSE outcome
  /\ UNCHANGED <<path, first, trip>>

(* What was heard is sent back by the other way, and once more.            *)
Again ==
  /\ node = "read" /\ trip # "again" /\ node' = "source"
  /\ trip' = IF trip = "there" THEN "back" ELSE "again"
  /\ UNCHANGED <<path, block, first, outcome>>

Next == OnProcess \/ ConvertChannels \/ Read \/ Again

-----------------------------------------------------------------------------
(* Properties.                                                             *)

(* The value of a sample, in parts of Unit.                                *)
Value(format, x) ==
  LET n == IF format = "I24" THEN Signed(x, Bits["I24"]) ELSE x
      bits == CASE format \in {"I16", "Pcm16"} -> Bits["I16"]
                [] format \in {"I24", "I8_24"} -> Bits["I24"]
                [] OTHER -> Bits["I32"]
  IN  IF format = "Float" THEN x ELSE n * (Unit \div Two(bits - 1))

(* A step of a format, and what a source and a sink may lose.              *)
Grain(format) ==
  CASE format = "Float" -> 1
    [] format \in {"I16", "Pcm16"} -> Unit \div Two(Bits["I16"] - 1)
    [] format \in {"I24", "I8_24"} -> Unit \div Two(Bits["I24"] - 1)
    [] format = "I32" -> Unit \div Two(Bits["I32"] - 1)
SourceLoss(format) == IF format \in {"I32", "I8_24"} THEN Unit \div Two(Mantissa + 1) ELSE 0
SinkLoss(format) == Grain(format) - 1

(* A sample that was in range is heard as it was, to within less than a    *)
(* step of the coarser format; a louder one is heard as loud as can be,    *)
(* and none with the other sign.                                           *)
Alike(was, is) ==
  LET x == Value(path.from.format, was)
      y == Value(path.to.format, is)
  IN  /\ x >= 0 => y >= 0
      /\ x =< 0 => y =< 0
      /\ Size(x) < Unit => Size(x - y) =< SourceLoss(path.from.format) + SinkLoss(path.to.format)
      /\ Size(x) >= Unit => Size(y) >= Unit - Grain(path.to.format)

HasItsOwn(c) == c =< path.from.channels \/ path.from.channels = 1
Column(k, channels) == ((k - 1) % channels) + 1
Row(k, channels) == (k - 1) \div channels

(* Every channel that the source has is heard alike in the same frame, and *)
(* a mono source in all; sent back and forth, samples that were in range   *)
(* lose no more.                                                           *)
SamplesKept ==
  node = "read" =>
    /\ \A k \in DOMAIN outcome :
         HasItsOwn(Column(k, path.to.channels)) =>
           LET c == IF path.from.channels = 1 THEN 1 ELSE Column(k, path.to.channels)
           IN  Alike(first[Row(k, path.to.channels) * path.from.channels + c], outcome[k])
    /\ trip = "again" /\ path.from.channels = path.to.channels =>
         \A k \in DOMAIN outcome : Size(Value(path.from.format, first[k])) < Unit => block[k] = outcome[k]
=============================================================================
