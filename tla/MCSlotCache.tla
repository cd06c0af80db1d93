---------------------------- MODULE MCSlotCache ----------------------------
(* Instances of SlotCache for TLC.                                         *)
EXTENDS SlotCache

Conf(u, sh, f) == [unified |-> u, shift |-> sh, families |-> f, keep |-> 0, discard |-> 0]

TwoPrompts == {<<1>>, <<1, 2>>}

Keeping(m, k, d) == [m EXCEPT !.keep = k, !.discard = d]

(* Context shifts where no cells are shared, which keep a token and discard *)
(* half of the others or more than there are; shared prompts without        *)
(* shifts, which are one token so that a family is never split over two     *)
(* views; and a stream for each slot, with shifts that discard two tokens.  *)
SoundModes == {Keeping(Conf(TRUE, TRUE, {}), 1, 0), Keeping(Conf(TRUE, TRUE, {}), 1, 4),
               Conf(TRUE, FALSE, {<<1>>}), Keeping(Conf(FALSE, TRUE, TwoPrompts), 1, 2)}

(* A prompt of two tokens may be split (README, section 5).                *)
SplitModes == {Conf(TRUE, FALSE, TwoPrompts)}

(* A family and a later single task that goes on from the same prompt.      *)
Continued   == {<<1, 2, 2>>, <<1, 2, 2, 2, 2>>}
SharedShift == {Conf(TRUE, TRUE, {<<1, 2, 2>>})}

SlotIds == 0 .. NSlots - 1
=============================================================================
