----------------------------- MODULE Propagator -----------------------------
(***************************************************************************)
(* satellite.js/lib: what becomes of a pair of element lines.  Of the      *)
(* orbit the model keeps the mean motion, in ten-thousandths of a          *)
(* revolution a day, and the epoch, a day and a second of it.              *)
(***************************************************************************)
EXTENDS Calendar

(* The mean motion is read from column 52 on; twoline2satrec expects the    *)
(* inclination in 8 columns.  After one of 7 the first of two digits is     *)
(* lost, after a wider one blanks are skipped.                              *)
Column == 8

(* Seeded fault: the columns are those of the line as it was written. *)
ReadMotionAsWritten(width, motion) == motion

ReadMotion(width, motion) ==
  IF width < Column THEN motion % 100000 ELSE motion

(* Two digits of a year, and the day in it at some second.                  *)
Epoch(epochyr, dayofyr, sec) ==
  LET year == IF epochyr < 57 THEN epochyr + 2000 ELSE epochyr + 1900
  IN [jd |-> Jday(Days2mdhms(year, dayofyr)), sec |-> sec]

Twoline2satrec(width, motion, epoch) ==
  [no |-> ReadMotion(width, motion), epoch |-> epoch]
=============================================================================
