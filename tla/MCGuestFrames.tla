----------------------------- MODULE MCGuestFrames -----------------------------
(***************************************************************************)
(* The settings, shaders and captures of the run.                          *)
(***************************************************************************)
EXTENDS GuestFrames

CONSTANTS x, u, w

-----------------------------------------------------------------------------
(* The settings of the frames' schedule. *)

MCConfigurations ==
  LET plain == [benchmark |-> "none", start |-> 0, options |-> <<>>, generic |-> TRUE,
                asset |-> 1, tuning |-> [switches |-> {}, spin |-> 100, chunk |-> 512],
                chunks |-> {}, captures |-> {}, trace |-> FALSE, records |-> FALSE, last |-> 6]
      timed == [plain EXCEPT !.benchmark = "perf", !.start = 5, !.last = 11,
                  !.options = <<{"root"}, {"spin", "chunk_2048"}, {"root"}>>]
  IN {plain, [plain EXCEPT !.trace = TRUE, !.chunks = {3, 4}, !.last = 5],
      [plain EXCEPT !.records = TRUE, !.captures = {1, 3, 4}, !.generic = FALSE, !.asset = 0],
      [plain EXCEPT !.benchmark = "asset", !.start = 2, !.last = 14, !.asset = 2],
      [plain EXCEPT !.benchmark = "asset", !.start = 1, !.last = 6, !.trace = TRUE],
      timed, [timed EXCEPT !.start = 1, !.last = 6, !.trace = TRUE, !.chunks = {2}],
      [timed EXCEPT !.options = <<>>, !.last = 6]}

(* The bindings of two shaders: one texture with both views and another     *)
(* filter of its own, and one without.                                      *)
MCTextures ==
  LET b(f, d, s) == [fetch |-> f, dimension |-> d, signed |-> s]
  IN [c \in {u, w} |->
        IF c = u THEN <<b(0, "2d", FALSE), b(0, "2d", TRUE), b(1, "cube", FALSE)>>
        ELSE <<b(0, "2d", TRUE), b(1, "2d", FALSE)>>]
MCSamplers ==
  LET b(f, filter) == [fetch |-> f, filter |-> filter]
  IN [c \in {u, w} |-> IF c = u THEN <<b(0, "fetch"), b(0, "linear"), b(1, "fetch")>>
                       ELSE <<b(0, "fetch"), b(1, "fetch")>>]
MCReads ==
  LET r(f, kind) == [fetch |-> f, kind |-> kind]
  IN [c \in {u, w} |-> IF c = u THEN <<r(0, "2d"), r(1, "cube")>>
                       ELSE <<r(1, "stacked"), r(0, "2d")>>]
MCFetches ==
  LET plain == [dimension |-> "2d", empty |-> FALSE, signs |-> "unsigned",
                filter |-> "linear", uniform |-> TRUE]
  IN [f \in {0, 1} |->
        IF f = 0 THEN {plain, [plain EXCEPT !.signs = "signed", !.filter = "point"],
                       [plain EXCEPT !.empty = TRUE]}
        ELSE {[plain EXCEPT !.dimension = "cube"], [plain EXCEPT !.signs = "mixed"],
              [plain EXCEPT !.uniform = FALSE]}]

(* One frame, and two of which the first is sampled.                       *)
MCCaptures == {<<1, 1>>, <<2, 2>>}

=============================================================================
