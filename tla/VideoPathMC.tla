---------------------------- MODULE VideoPathMC ----------------------------
(* Packets of five bytes hold four of a unit, or two of a fragment, so that  *)
(* units of two to seven bytes make one to three packets; the ring takes     *)
(* three.  One file has pictures of two slices, the other a picture that is  *)
(* not referred to and is followed by one with the same frame_num.           *)
EXTENDS VideoPath

U(type, ref, pic, frameNum, len) ==
    [type |-> type, ref |-> ref, pic |-> pic, frameNum |-> frameNum, len |-> len]

MCFiles ==
    { << U("SPS", TRUE, 1, 0, 2), U("PPS", TRUE, 1, 0, 1), U("IDR", TRUE, 1, 0, 7),
         U("slice", TRUE, 2, 1, 4), U("slice", TRUE, 2, 1, 5), U("slice", TRUE, 3, 2, 6),
         U("slice", TRUE, 4, 3, 3) >>,
      << U("SEI", FALSE, 1, 0, 1), U("SPS", TRUE, 1, 0, 5), U("IDR", TRUE, 1, 0, 6),
         U("slice", FALSE, 2, 1, 7), U("slice", TRUE, 3, 1, 5), U("SEI", FALSE, 4, 1, 2),
         U("slice", FALSE, 4, 2, 4), U("slice", TRUE, 5, 2, 4) >> }

MCMtu       == 5
MCHeaderLen == 1
MCFuaLen    == 2
MCRingSize  == 4
=============================================================================
