------------------------------- MODULE Decoder ------------------------------
(* The incremental framer of the wire (core/wire/src/codec.rs) under the reader that      *)
(* feeds it from a pipe (core/host/src/mux.rs, read_loop): bytes come in chunks cut        *)
(* anywhere, frames go out at each LF, and the first fault is the last word.               *)
EXTENDS Integers, FiniteSets, SequencesExt

CONSTANTS Bytes,         \* the bytes the properties tell apart
          LF,
          Utf8,          \* the byte sequences without LF that are text
          Json,          \* those of them that are one JSON value
          MaxFrameBytes,
          MaxStream      \* the bound on how much an adapter writes

ASSUME DecoderAssumption ==
  /\ LF \in Bytes
  /\ Json \subseteq Utf8 /\ Utf8 \subseteq Seq(Bytes \ {LF}) /\ <<>> \notin Json
  /\ MaxFrameBytes \in Nat \ {0} /\ MaxStream \in Nat

VARIABLES stream,        \* what was read of what the adapter wrote
          decoder,       \* the frame in progress, the violation, and what was handed on
          ended          \* what the reader made of the end of the stream

decoderVars == <<stream, decoder, ended>>

(* The JSON parse is for its verdict only; a text that is none is told apart from bytes    *)
(* that are no text.                                                                       *)
DecodeFrame(bytes) ==
  IF bytes \notin Utf8 THEN "NonUtf8" ELSE IF bytes \notin Json THEN "NotJson" ELSE "Ok"

Caught(d, kind) == [d EXCEPT !.violation = kind]

(* The size is looked at when the frame ends. *)
Step_lenient(d, b) ==
  IF d.violation # "None" THEN d
  ELSE IF b # LF THEN [d EXCEPT !.buf = Append(@, b)]
  ELSE IF Len(d.buf) > MaxFrameBytes THEN Caught(d, "OversizeFrame")
  ELSE IF DecodeFrame(d.buf) # "Ok" THEN Caught(d, DecodeFrame(d.buf))
  ELSE [d EXCEPT !.out = Append(@, d.buf), !.buf = <<>>]

(* One byte. *)
Step(d, b) ==
  IF d.violation # "None" THEN d
  ELSE IF b # LF
  THEN LET longer == [d EXCEPT !.buf = Append(@, b)]
       IN  IF Len(longer.buf) > MaxFrameBytes THEN Caught(longer, "OversizeFrame") ELSE longer
  ELSE IF DecodeFrame(d.buf) # "Ok" THEN Caught(d, DecodeFrame(d.buf))
  ELSE [d EXCEPT !.out = Append(@, d.buf), !.buf = <<>>]

(* A chunk is its bytes, one at a time, with no look past its end. *)
Push(d, chunk) ==
  LET taken[n \in 0 .. Len(chunk)] ==
        IF n = 0 THEN d ELSE Step(taken[n - 1], chunk[n])
  IN  taken[Len(chunk)]

NewDecoder == [buf |-> <<>>, violation |-> "None", out |-> <<>>]

------------------------------------------------------------------------------
(* A read returns what is in the pipe, cut anywhere; after a violation none is made. *)
Read(chunk) ==
  /\ ended = "None" /\ decoder.violation = "None"
  /\ stream' = stream \o chunk
  /\ decoder' = Push(decoder, chunk)
  /\ UNCHANGED ended

(* At the end of the stream, bytes never judged are not drained in silence. *)
EndOfStream ==
  /\ ended = "None"
  /\ ended' = IF decoder.violation # "None" THEN decoder.violation
              ELSE IF decoder.buf # <<>> THEN "UnterminatedFrame" ELSE "Clean"
  /\ UNCHANGED <<stream, decoder>>

DecoderInit == stream = <<>> /\ decoder = NewDecoder /\ ended = "None"

DecoderNext ==
  \/ \E n \in 1 .. MaxStream - Len(stream) : \E chunk \in [1 .. n -> Bytes] : Read(chunk)
  \/ EndOfStream

DecoderSpec == DecoderInit /\ [][DecoderNext]_decoderVars

------------------------------------------------------------------------------
(* What the stream is judged to be, whole: its first fault is the first frame that is not  *)
(* right at its LF, or the first byte one too many; what stands before it is handed on.    *)
LFs(s) == {i \in DOMAIN s : s[i] = LF}

Start(s, i) == LET before == {j \in LFs(s) : j < i} IN IF before = {} THEN 1 ELSE Max(before) + 1

Line(s, i) == SubSeq(s, Start(s, i), i - 1)

Fault(s, i) ==
  IF i \in LFs(s) THEN DecodeFrame(Line(s, i))
  ELSE IF i - Start(s, i) + 1 > MaxFrameBytes THEN "OversizeFrame" ELSE "Ok"

Faults(s) == {i \in DOMAIN s : Fault(s, i) # "Ok"}

(* "Feeding the same bytes through any chunking produces the identical frame sequence      *)
(* (and the identical violation, if any)" (codec.rs:25-28): at every point of every        *)
(* chunking the decoder says of the bytes it took what a look at them all says, an         *)
(* oversize is caught by the byte that is one too many, and the end of the stream is clean  *)
(* only when every byte of it was judged.                                                  *)
SplitInvariant ==
  LET faults == Faults(stream)
      good == {i \in LFs(stream) : \A j \in faults : i < j}
  IN  /\ Len(decoder.out) = Cardinality(good)
      /\ \A i \in good :
           decoder.out[Cardinality({j \in good : j =< i})] = Line(stream, i)
      /\ decoder.violation = IF faults = {} THEN "None" ELSE Fault(stream, Min(faults))
      /\ Len(decoder.buf) =< MaxFrameBytes + 1
      /\ ended # "None" =>
           (ended = "Clean" <=> faults = {} /\ (stream = <<>> \/ Last(stream) = LF))
=============================================================================
