----------------------------- MODULE Unscramble -----------------------------
(***************************************************************************)
(* What the server makes of the buffers of a frame: unscrambleToFull(),    *)
(* which puts a sub-frame into the full image, and unscramble(), for the   *)
(* single sub-frame of spatial mode; and the table the driver makes for    *)
(* the latter.  The tables of gains are uniform (see Configurator) and     *)
(* the offsets zero, so the value of a pixel does not depend on the ADC.   *)
(***************************************************************************)
EXTENDS Configurator

Unset == -1   (* a byte that nobody has written                            *)

Decode(v) == ((v \div 1024) % 32) * HighGain + ((v \div 4) % 256) * LowGain
Gain(v)   == v % 4

(* The reset frame, if there is one, is subtracted in diode sampling mode. *)
Corrected(v, reset) ==
  IF reset # Unset /\ Gain(v) = 0 THEN Decode(v) - Decode(reset) ELSE Decode(v)

(* out with the points k of 0 .. n - 1 written, value[k] at target[k], one *)
(* after the other.                                                        *)
Written(out, n, target, value) ==
  [a \in DOMAIN out |->
    LET writers == {k \in 0 .. n - 1 : target[k] = a} IN
    IF writers = {} THEN out[a]
    ELSE value[CHOOSE k \in writers : \A j \in writers : j <= k]]

(* Mutant of unscrambleToFull: the table is indexed within the sub-frame. *)
unscrambleToFullLocal(mode, in, reset, out, r, w, dataIndex) ==
  Written(out, PixelsOf(r),
          [k \in 0 .. PixelsOf(r) - 1 |->
            IF mode = 0 THEN InFrame(r, k, w) ELSE dataIndex[k]],
          [k \in 0 .. PixelsOf(r) - 1 |->
            IF mode = 1 THEN Corrected(in[k], reset[InFrame(r, k, w)]) ELSE in[k]])

(* descramble_ 0: copy; 1: descramble and decode; 2: descramble only.  The *)
(* reset frame is a full frame already.                                    *)
unscrambleToFull(mode, in, reset, out, r, w, dataIndex) ==
  Written(out, PixelsOf(r),
          [k \in 0 .. PixelsOf(r) - 1 |->
            LET ip == InFrame(r, k, w) IN IF mode = 0 THEN ip ELSE dataIndex[ip]],
          [k \in 0 .. PixelsOf(r) - 1 |->
            IF mode = 1 THEN Corrected(in[k], reset[InFrame(r, k, w)]) ELSE in[k]])

unscramble(mode, in, reset, out, n, dataIndex) ==
  Written(out, n,
          [k \in 0 .. n - 1 |-> IF mode = 0 THEN k ELSE dataIndex[k]],
          [k \in 0 .. n - 1 |-> IF mode = 0 THEN in[k] ELSE Corrected(in[k], reset[k])])

(* setupSpatialImage(): for each point of sub-frame r, the place in the    *)
(* sub-frame of the point of the full frame that it came from.  The code   *)
(* counts modulo 2^32: what is negative here is far too large there.       *)
Realigned(r, w, descramble) ==
  [k \in 0 .. PixelsOf(r) - 1 |->
    LET from == descramble[InFrame(r, k, w)] IN
    ((from \div w) - r.tly) * WidthOf(r) + (from % w) - r.tlx]

=============================================================================
