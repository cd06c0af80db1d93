----------------------------- MODULE SlotCache -----------------------------
(***************************************************************************)
(* The slots of the server and what they have in the KV cache              *)
(* (tools/server/server-context.cpp).  A slot keeps the tokens of its last *)
(* prompt and answer in slot.prompt, and what a new task has in common     *)
(* with them is not decoded again: slot.prompt has to tell exactly what    *)
(* the sequence of the slot holds in the cache, through truncation, shared *)
(* prompts, context shifts, batches that do not fit, retries and errors.   *)
(* One thread runs all of this.  The prompt cache in RAM, multimodal       *)
(* prompts, cache_reuse and speculative decoding are not used              *)
(* (--cache-ram 0, the default of the others).                             *)
(***************************************************************************)
EXTENDS KVCache, FiniteSetsExt

CONSTANTS
  NSlots,     \* slots; the id of a slot is its sequence id
  Tokens,
  Sampleable, \* bound: the tokens that sampling gives
  Prompts,    \* prompts of the tasks, sequences of tokens
  Modes,      \* the configurations to start with
  NCtx,       \* slot.n_ctx
  NBatch,     \* n_batch
  MayFail,    \* whether the decode of a ubatch may fail
  NoSlot

Slots == 0 .. NSlots - 1

(* kv_unified: one stream for all, ctx_shift, the prompts with which tasks *)
(* ask for several completions (n_cmpl), and n_keep, with the BOS token,   *)
(* and n_discard of the tasks, bound: the same for all.                    *)
Mode == [unified : BOOLEAN, shift : BOOLEAN, families : SUBSET Prompts, keep : Nat, discard : Nat]

(* llama_batch_init(max(n_batch, n_parallel)): every slot adds its sampled *)
(* token, and prompts fill the batch up to n_batch.                        *)
BatchSize == Max({NBatch, NSlots})

(* What the context is loaded with is at least what a shift subtracts:      *)
(* n_ctx is a multiple of 256.  Bound: n_discard is no more than the       *)
(* tokens there are, or the new size of slot.prompt is below 0.            *)
ASSUME SlotAssumption ==
  /\ NSlots \in Nat \ {0} /\ Seqs = Slots /\ Modes \subseteq Mode /\ NoSlot \notin Slots
  /\ Sampleable \subseteq Tokens /\ NCtx \in Nat /\ NBatch \in Nat \ {0}
  /\ 4 <= NCtx /\ NCtx <= Size /\ NCtx <= MaxPos + 1
  /\ \A m \in Modes : m.discard <= NCtx - 1
  /\ \A p \in Prompts : p \in Seq(Tokens) /\ Len(p) \in 1 .. NCtx - 1
  /\ MayFail \in BOOLEAN

VARIABLES
  mode,      \* the parameters, which do not change
  cells,     \* the streams of the cache
  copies,    \* sc_info: copies of streams that update() has to make
  state,     \* slot.state
  role,      \* whether slot.task is a parent, a child or neither
  kin,       \* the slot of the parent that a child waits for
  input,     \* slot.task->tokens
  prompt,    \* slot.prompt.tokens
  iBatch,    \* slot.i_batch, counted in the tokens that are left; 0: none
  batch,     \* the tokens of the batch that are left to decode
  nBatch,    \* n_batch, halved when a batch does not fit
  pc         \* "tasks", or "decode" within update_slots()

slotVars == <<state, role, kin, prompt, iBatch>>
vars == <<mode, cells, copies, slotVars, input, batch, nBatch, pc>>

StreamOf(s) == IF mode.unified THEN 0 ELSE s
Streams     == {StreamOf(s) : s \in Slots}

Init ==
  /\ mode \in Modes
  /\ cells = [st \in Slots |-> EmptyCells]
  /\ copies = <<>>
  /\ state = [s \in Slots |-> "idle"] /\ role = [s \in Slots |-> "none"]
  /\ kin = [s \in Slots |-> NoSlot] /\ input = [s \in Slots |-> <<>>]
  /\ prompt = [s \in Slots |-> <<>>] /\ iBatch = [s \in Slots |-> 0]
  /\ batch = <<>> /\ nBatch = NBatch /\ pc = "tasks"

---------------------------------------------------------------------------
(* What update_slots() works on: a record, changed slot by slot.           *)
Now == [cells |-> cells, copies |-> copies, state |-> state, role |-> role,
        kin |-> kin, prompt |-> prompt, iBatch |-> iBatch, batch |-> batch]

(* The state becomes v; \E w \in {v} : ... gives the value of v a name.     *)
Become(v) ==
  \E w \in {v} :
    /\ cells' = w.cells /\ copies' = w.copies
    /\ state' = w.state /\ role' = w.role /\ kin' = w.kin
    /\ prompt' = w.prompt /\ iBatch' = w.iBatch

(* A loop over the slots: op for each of them, by id.                      *)
InSlotOrder(op(_, _), w) ==
  LET after[n \in 0 .. NSlots] == IF n = 0 THEN w ELSE op(after[n - 1], n - 1)
  IN  after[NSlots]

Rm(w, s, p0, p1) == [w EXCEPT !.cells[StreamOf(s)] = SeqRm(@, s, p0, p1)]

(* server_slot::prompt_clear()                                             *)
Clear(w, s) == [Rm(w, s, 0, Infinity) EXCEPT !.prompt[s] = <<>>]

(* server_slot::release(): "do not keep context of the child slots".  A    *)
(* child that still waits for s waits for a task that is gone.  i_batch    *)
(* stays in the code, but nothing is sampled for an idle slot, and a slot  *)
(* that is not idle any more sets it before it is looked at.               *)
Release(w, s) ==
  [(IF w.role[s] = "child" THEN Clear(w, s) ELSE w) EXCEPT
     !.state[s] = "idle", !.role[s] = "none", !.iBatch[s] = 0,
     !.kin = [x \in Slots |-> IF x = s \/ w.kin[x] = s THEN NoSlot ELSE w.kin[x]]]

(* An error of llama_decode(): every task ends, and "we simply clear the   *)
(* entire context".                                                        *)
FailAll(w) ==
  InSlotOrder(LAMBDA u, s : IF u.state[s] = "idle" THEN u ELSE Clear(Release(u, s), s), w)

---------------------------------------------------------------------------
(* Tasks.                                                                  *)

(* launch_slots_with_parent_task(): a task on s, its children on C.        *)
Launch(s, p, C) ==
  /\ pc = "tasks" /\ state[s] = "idle" /\ \A x \in C : state[x] = "idle"
  /\ C # {} => p \in mode.families
  /\ state' = [x \in Slots |-> IF x = s THEN "started" ELSE IF x \in C THEN "wait_other" ELSE state[x]]
  /\ role'  = [x \in Slots |-> IF x = s THEN IF C = {} THEN "single" ELSE "parent"
                               ELSE IF x \in C THEN "child" ELSE role[x]]
  /\ kin'   = [x \in Slots |-> IF x \in C THEN s ELSE kin[x]]
  /\ input' = [x \in Slots |-> IF x \in C \cup {s} THEN p ELSE input[x]]
  /\ UNCHANGED <<mode, cells, copies, prompt, iBatch, batch, nBatch, pc>>

(* A cancel task.                                                          *)
Cancel(s) ==
  /\ pc = "tasks" /\ state[s] # "idle"
  /\ Become(Release(Now, s))
  /\ UNCHANGED <<mode, input, batch, nBatch, pc>>

(* SERVER_TASK_TYPE_SLOT_ERASE                                             *)
Erase(s) ==
  /\ pc = "tasks" /\ state[s] = "idle" /\ prompt[s] # <<>>
  /\ Become(Clear(Now, s))
  /\ UNCHANGED <<mode, input, batch, nBatch, pc>>

---------------------------------------------------------------------------
(* update_slots(): the batch.                                              *)

(* "apply context-shift if needed": the tokens after the discarded ones    *)
(* move, and what is left at the end is cut off.                           *)
Keep == Min({NCtx - 4, mode.keep})

ShiftContext(w, s) ==
  LET n       == Len(w.prompt[s])
      discard == IF mode.discard # 0 THEN mode.discard ELSE (n - Keep) \div 2
      removed == Rm(w, s, Keep, Keep + discard)
      moved   == SubSeq(w.prompt[s], 1, Keep) \o SubSeq(w.prompt[s], Keep + discard + 1, n)
  IN  IF w.state[s] # "generating" \/ n + 1 < NCtx THEN w
      ELSE IF ~mode.shift \/ w.role[s] # "single" THEN Release(w, s)
      ELSE [removed EXCEPT
             !.cells[StreamOf(s)] = SeqAdd(@, s, Keep + discard, n, - discard),
             !.prompt[s] = SubSeq(moved, 1, n - discard)]

Entry(s, p, t) == [seq |-> s, pos |-> p, tok |-> t]

(* server_slot::update_batch(): the token that was sampled.                *)
AddSampled(w, s, t) ==
  [w EXCEPT !.batch = Append(@, Entry(s, Len(w.prompt[s]), t)),
            !.prompt[s] = Append(@, t),
            !.iBatch[s] = Len(w.batch) + 1]

(* What the slot keeps of its last prompt: the common prefix, but for one  *)
(* token to evaluate.                                                      *)
NPast(w, s) ==
  LET common == {n \in 0 .. Min({Len(w.prompt[s]), Len(input[s]) - 1}) :
                   SubSeq(w.prompt[s], 1, n) = SubSeq(input[s], 1, n)}
  IN  IF w.state[s] = "started" THEN Max(common) ELSE Len(w.prompt[s])

(* Mutant: a prompt goes to the batch as a whole.                          *)
AddWholePrompt(w, s) ==
  LET past == NPast(w, s)
      n    == Len(input[s]) - past
      more == [j \in 1 .. n |-> Entry(s, past + j - 1, input[s][past + j])]
  IN  IF w.state[s] \notin {"started", "prompt"} \/ Len(w.batch) >= NBatch THEN w
      ELSE [Rm(w, s, past, Infinity) EXCEPT
             !.batch = @ \o more, !.prompt[s] = input[s],
             !.state[s] = "done", !.iBatch[s] = Len(w.batch) + n]

(* Mutant: what is beyond n_past stays in the cache.                       *)
AddPromptKeeping(w, s) ==
  LET past == NPast(w, s)
      n    == Min({NBatch - Len(w.batch), Len(input[s]) - past})
      more == [j \in 1 .. n |-> Entry(s, past + j - 1, input[s][past + j])]
      done == past + n = Len(input[s])
  IN  IF w.state[s] \notin {"started", "prompt"} \/ Len(w.batch) >= NBatch THEN w
      ELSE [w EXCEPT
             !.batch = @ \o more,
             !.prompt[s] = SubSeq(input[s], 1, past + n),
             !.state[s] = IF done THEN "done" ELSE "prompt",
             !.iBatch[s] = IF done THEN Len(w.batch) + n ELSE 0]

(* The rest of the prompt goes to the batch as far as n_batch allows, and  *)
(* "any tokens that are beyond n_past" go from the cache.                  *)
AddPrompt(w, s) ==
  LET past == NPast(w, s)
      n    == Min({NBatch - Len(w.batch), Len(input[s]) - past})
      more == [j \in 1 .. n |-> Entry(s, past + j - 1, input[s][past + j])]
      done == past + n = Len(input[s])
  IN  IF w.state[s] \notin {"started", "prompt"} \/ Len(w.batch) >= NBatch THEN w
      ELSE [Rm(w, s, past, Infinity) EXCEPT
             !.batch = @ \o more,
             !.prompt[s] = SubSeq(input[s], 1, past + n),
             !.state[s] = IF done THEN "done" ELSE "prompt",
             !.iBatch[s] = IF done THEN Len(w.batch) + n ELSE 0]

(* sampled[s] is the token that was sampled for s.                         *)
AddAllSampled(w, sampled) ==
  InSlotOrder(LAMBDA u, s : IF u.state[s] = "generating" THEN AddSampled(u, s, sampled[s]) ELSE u, w)

StartPass ==
  /\ pc = "tasks" /\ \E s \in Slots : state[s] # "idle"
  /\ \E sampled \in [{s \in Slots : state[s] = "generating"} -> Sampleable] :
     \E shifted \in {InSlotOrder(ShiftContext, Now)} :
     \E added \in {AddAllSampled(shifted, sampled)} :
     \E full \in {InSlotOrder(AddPrompt, added)} :
       /\ Become(full)
       /\ batch' = full.batch /\ nBatch' = NBatch
       /\ pc' = IF full.batch = <<>> THEN "tasks" ELSE "decode"
  /\ UNCHANGED <<mode, input>>

---------------------------------------------------------------------------
(* llama_decode() of the next nBatch tokens.                               *)

NView == Min({nBatch, Len(batch)})
View  == SubSeq(batch, 1, NView)
Rest  == SubSeq(batch, NView + 1, Len(batch))

(* Mutant: the streams are not copied.                                     *)
UpdatedWithoutCopies == [st \in Slots |-> ApplyShift(cells[st])]

(* memory_update(): first the copies of streams, in the order of sc_info,   *)
(* then the shifts.                                                        *)
Copied(cs, list) ==
  LET rows[n \in 0 .. Len(list)] ==
        IF n = 0 THEN [st \in Slots |-> cs[st].k]
        ELSE [rows[n - 1] EXCEPT ![list[n].to] = rows[n - 1][list[n].from]]
  IN  rows[Len(list)]

Updated == [st \in Slots |-> ApplyShift([cells[st] EXCEPT !.k = Copied(cells, copies)[st]])]

Positions(s) == {View[j].pos : j \in {i \in 1 .. NView : View[i].seq = s}}

(* "it is required that the sequence positions remain consecutive": the    *)
(* view goes on from the last position in the cache, if there is one, or   *)
(* llama_decode() does nothing and every task ends.                        *)
Consecutive ==
  \A s \in Slots :
    LET last == SeqPosMax(cells[StreamOf(s)], s)
    IN  Positions(s) # {} /\ last # -1 => Min(Positions(s)) = last + 1

InvalidBatch ==
  /\ ~Consecutive
  /\ Become(FailAll(Now))
  /\ batch' = <<>> /\ pc' = "tasks"
  /\ UNCHANGED nBatch

(* The tokens of the view that go to the stream st.                        *)
Part(st) ==
  LET of == {j \in 1 .. NView : StreamOf(View[j].seq) = st}
  IN  [j \in 1 .. Cardinality(of) |-> View[Nth(of, j)]]

(* find_slot() in every stream, for all tokens or for none.                *)
Fits(c) == \A st \in Streams : Len(FindSlot(c[st], Len(Part(st)))) = Len(Part(st))

Placed(c) ==
  [st \in Slots |->
     IF st \in Streams /\ Part(st) # <<>>
     THEN Place(c[st], FindSlot(c[st], Len(Part(st))), Part(st)) ELSE c[st]]

(* copy_state_to(): the sequence and the prompt of s become those of x.    *)
CopyState(w, s, x) ==
  [Rm(w, x, 0, Infinity) EXCEPT
    !.cells[StreamOf(x)] = IF mode.unified THEN SeqCp(@, s, x) ELSE SeqCpTo(w.cells[s], s, @, x),
    !.copies = IF mode.unified THEN @ ELSE Append(@, [from |-> s, to |-> x]),
    !.prompt[x] = w.prompt[s], !.iBatch[x] = w.iBatch[s],
    !.state[x] = "done", !.kin[x] = NoSlot]

(* "when the main prompt is processed, activate all child tasks too"       *)
ActivateChild(w, x) ==
  IF w.kin[x] # NoSlot /\ w.state[w.kin[x]] = "done" THEN CopyState(w, w.kin[x], x) ELSE w

(* The work on the cells c, once update() is done.                         *)
Working(c) == [Now EXCEPT !.cells = c, !.copies = <<>>]

(* A slot whose last token was in the view is sampled; its answer may end  *)
(* there, and has to when the context is full and may not be shifted.      *)
Sampled(w) == {s \in Slots : w.iBatch[s] \in 1 .. NView}
AtEnd(w)   == {s \in Sampled(w) : ~mode.shift /\ Len(w.prompt[s]) + 1 >= NCtx}

(* The slots of ends have their whole answer.                              *)
EndAll(w, ends) == InSlotOrder(LAMBDA u, s : IF s \in ends THEN Release(u, s) ELSE u, w)

Sample(w, ends) ==
  LET going == [w EXCEPT
        !.state  = [s \in Slots |-> IF s \in Sampled(w) THEN "generating" ELSE @[s]],
        !.iBatch = [s \in Slots |-> IF s \in Sampled(w) \/ @[s] = 0 THEN 0 ELSE @[s] - NView]]
  IN  EndAll(going, ends)

DecodeView(c) ==
  /\ Fits(c)
  /\ \E placed \in {Placed(c)} :
     \E active \in {InSlotOrder(ActivateChild, [Working(placed) EXCEPT !.batch = Rest])} :
     \E ends \in SUBSET Sampled(active) :
       /\ AtEnd(active) \subseteq ends
       /\ Become(Sample(active, ends))
  /\ batch' = Rest /\ nBatch' = NBatch
  /\ pc' = IF Rest = <<>> THEN "tasks" ELSE "decode"

(* No room: the first idle slot with a prompt is purged when all slots     *)
(* share one stream, else the batch is halved, and a single token ends     *)
(* every task.                                                             *)
Purgeable == {s \in Slots : mode.unified /\ state[s] = "idle" /\ prompt[s] # <<>>}

(* Mutant: it also tries without any token.                                *)
GivesUpAtNone == nBatch = 0

GivesUp == nBatch = 1

NoRoom(c) ==
  /\ ~Fits(c)
  /\ \/ /\ GivesUp
        /\ Become(FailAll(Working(c)))
        /\ batch' = <<>> /\ pc' = "tasks" /\ UNCHANGED nBatch
     \/ /\ ~GivesUp /\ Purgeable # {}
        /\ Become(Clear(Working(c), Min(Purgeable)))
        /\ UNCHANGED <<batch, nBatch, pc>>
     \/ /\ ~GivesUp /\ Purgeable = {}
        /\ Become(Working(c))
        /\ nBatch' = nBatch \div 2
        /\ UNCHANGED <<batch, pc>>

(* The graph fails: llama_decode() removes the positions of the ubatch,    *)
(* and the server clears the slots.                                        *)
RmView(w, s) == IF Positions(s) = {} THEN w ELSE Rm(w, s, Min(Positions(s)), Infinity)

ComputeFails(c) ==
  /\ Fits(c) /\ MayFail
  /\ \E placed \in {Placed(c)} :
       Become(FailAll(InSlotOrder(RmView, Working(placed))))
  /\ batch' = <<>> /\ pc' = "tasks"
  /\ UNCHANGED nBatch

Decode ==
  /\ pc = "decode"
  /\ \/ InvalidBatch
     \/ Consecutive /\ \E c \in {Updated} : DecodeView(c) \/ NoRoom(c) \/ ComputeFails(c)
  /\ UNCHANGED <<mode, input>>

Next ==
  \/ \E s \in Slots : Cancel(s) \/ Erase(s)
  \/ \E s \in Slots, p \in Prompts, C \in SUBSET Slots : s \notin C /\ Launch(s, p, C)
  \/ StartPass \/ Decode

Spec == Init /\ [][Next]_vars

---------------------------------------------------------------------------
(* Properties.                                                             *)

TypeOK ==
  /\ mode \in Modes
  /\ \A st \in Slots : CellsOK(cells[st])
  /\ copies \in Seq([from : Slots, to : Slots])
  /\ state \in [Slots -> {"idle", "wait_other", "started", "prompt", "done", "generating"}]
  /\ role \in [Slots -> {"none", "single", "parent", "child"}]
  /\ kin \in [Slots -> Slots \cup {NoSlot}]
  /\ \A s \in Slots : prompt[s] \in Seq(Tokens) /\ Len(prompt[s]) <= NCtx
  /\ iBatch \in [Slots -> 0 .. BatchSize]
  /\ batch \in Seq([seq : Slots, pos : Pos, tok : Tokens])
  /\ nBatch \in 1 .. NBatch /\ pc \in {"tasks", "decode"}

CellsAlwaysAgree == \A st \in Slots : CellsAgree(cells[st])

(* What the next decode attends to for s: slot.prompt, but for the tokens  *)
(* that are still in the batch.                                            *)
HoldsPrompt(c, s) ==
  LET mine == {i \in Idx : s \in c.seq[i]}
      left == Cardinality({j \in 1 .. Len(batch) : batch[j].seq = s})
      n    == Len(prompt[s]) - left
  IN  /\ Cardinality(mine) = n
      /\ {c.pos[i] : i \in mine} = 0 .. n - 1
      /\ \A i \in mine : c.k[i].tok = prompt[s][c.pos[i] + 1]

(* A shift that discards more than the tokens after n_keep cuts slot.prompt *)
(* below what the sequence keeps.                                          *)
DiscardsLess == mode.discard <= NCtx - 1 - Keep

SlotsHoldPrompts ==
  DiscardsLess => \A c \in {Updated} : \A s \in Slots : HoldsPrompt(c[StreamOf(s)], s)

(* Every row that is attended to is rotated to the position of its cell,   *)
(* whatever was shifted or copied since it was written.                    *)
RowsRotated ==
  \A c \in {Updated} : \A st \in Slots, i \in Idx :
    c[st].pos[i] # -1 => c[st].k[i].rot = c[st].pos[i]

(* The loop over a batch ends: a round that goes on has decoded some of it, *)
(* or halved n_batch, or purged a slot that was not purged before.         *)
RoundsLead ==
  [][pc = "decode" /\ pc' = "decode" =>
       \/ Len(batch') < Len(batch)
       \/ batch' = batch /\ nBatch' < nBatch
       \/ batch' = batch /\ nBatch' = nBatch
          /\ Purgeable' \subseteq Purgeable /\ Purgeable' # Purgeable]_vars
=============================================================================
