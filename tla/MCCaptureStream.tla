--------------------------- MODULE MCCaptureStream ---------------------------
(* A small instance of CaptureStream. *)
EXTENDS CaptureStream, TLC

CONSTANTS c1, c2, w1

TwoCaptures == {c1, c2}
OneSaver == {w1}

(* The first capture fills a batch and has a packet left over that no COPY *)
(* takes; the second has a packet without a network layer, and its saver   *)
(* reads what the first has sent.                                          *)
ThreeAndOne == c1 :> 3 @@ c2 :> 1
ThirdOfFirst == {<<c1, 3>>}
FirstOfSecond == {<<c2, 1>>}
=============================================================================
