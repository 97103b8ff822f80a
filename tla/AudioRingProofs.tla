--------------------------- MODULE AudioRingProofs ---------------------------
(***************************************************************************)
(* Proofs about AudioRing for every size of the ring, piece and mix: the   *)
(* ring invariant, and that the ring implements SampleStream.              *)
(***************************************************************************)
EXTENDS AudioRing, TLAPS

(* What the cells hold was decoded, also when the order is lost.           *)
CellsDecoded ==
  \A i \in Cells : audio_buffer[i] <= base + audio_total_decoded + Stored

(* RingInv is not inductive in a torn ring: that the piece keeps to its    *)
(* length and the cells to what was decoded holds there, too.              *)
IInv == TypeOK /\ PieceInProgress /\ CellsDecoded /\ RingInv

(* Every step but those of sound_seek.                                     *)
Locked == \/ Decode \/ SoundUpdate \/ Decoded
          \/ MixAudio \/ MixSample \/ MixDry \/ MixEnd
          \/ Reset \/ UNCHANGED vars

(* A ring that holds min_buffers and a piece has a cell.                   *)
LEMMA SizePositive == Size \in Nat /\ Size >= 1
BY ChunkAssumption, LowWaterAssumption, SizeAssumption

(* The empty ring.                                                         *)
LEMMA InitIInv == Init => IInv
<1> SUFFICES ASSUME Init PROVE IInv
  OBVIOUS
<1> USE SizePositive DEF Init
<1>1. TypeOK /\ PieceInProgress
  <2>1. pending = {} /\ torn = FALSE /\ seeks = 0
    OBVIOUS
  <2>2. SeekOK
    <3>1. seeks \in 0 .. MaxSeeks
      BY <2>1, BoundAssumption
    <3>2. pending \in SUBSET Fields /\ torn \in BOOLEAN
      BY <2>1
    <3> QED
      BY <3>1, <3>2 DEF SeekOK
  <2> QED
    BY <2>2, ChunkAssumption DEF TypeOK, PieceInProgress, Cells, Free
<1>2. NoOverrun /\ PieceFits /\ IndicesAgree
  BY <1>1 DEF NoOverrun, PieceFits, IndicesAgree, Unread, Stored, Waiting, Free
<1>3. ContentsAgree /\ CellsDecoded
  BY DEF ContentsAgree, CellsDecoded, Cells, Stored, Free
<1> QED
  BY <1>1, <1>2, <1>3 DEF IInv, RingInv, InStep

(* What one store of sound_seek leaves of the variables, with the types of *)
(* Nat: each as it was or zero, and the sum of all that was decoded kept.  *)
LEMMA SeekKeeps ==
  ASSUME TypeOK, SoundSeek
  PROVE  /\ audio_wd' \in {0, audio_wd} /\ audio_wd_num' \in {0, audio_wd_num}
         /\ audio_rd' \in {0, audio_rd} /\ audio_rd_num' \in {0, audio_rd_num}
         /\ audio_total_decoded' \in {0, audio_total_decoded}
         /\ audio_total_done' \in {0, audio_total_done}
         /\ base' \in Nat
         /\ base' + audio_total_decoded' = base + audio_total_decoded
         /\ UNCHANGED <<audio_buffer, audio_mutex, chunk, left, sample>>
<1>1. PICK f \in Fields :
        /\ audio_wd' \in ResetOf(f, "wd", audio_wd, "decoder")
        /\ audio_wd_num' \in ResetOf(f, "wd_num", audio_wd_num, "decoder")
        /\ audio_total_decoded' \in ResetOf(f, "decoded", audio_total_decoded, "decoder")
        /\ audio_rd' \in ResetOf(f, "rd", audio_rd, "mixer")
        /\ audio_rd_num' \in ResetOf(f, "rd_num", audio_rd_num, "mixer")
        /\ audio_total_done' \in ResetOf(f, "done", audio_total_done, "mixer")
        /\ base' = base + audio_total_decoded - audio_total_decoded'
  BY DEF SoundSeek, TypeOK, SeekOK
<1>2. /\ audio_wd' \in {0, audio_wd} /\ audio_wd_num' \in {0, audio_wd_num}
      /\ audio_rd' \in {0, audio_rd} /\ audio_rd_num' \in {0, audio_rd_num}
      /\ audio_total_decoded' \in {0, audio_total_decoded}
      /\ audio_total_done' \in {0, audio_total_done}
  BY <1>1 DEF ResetOf
<1>3. base' \in Nat /\ base' + audio_total_decoded' = base + audio_total_decoded
  <2>1. base \in Nat /\ audio_total_decoded \in Nat
    BY DEF TypeOK
  <2>2. base' = base + audio_total_decoded - audio_total_decoded'
    BY <1>1
  <2>3. CASE audio_total_decoded' = 0
    BY <2>1, <2>2, <2>3
  <2>4. CASE audio_total_decoded' = audio_total_decoded
    BY <2>1, <2>2, <2>4
  <2> QED
    BY <1>2, <2>3, <2>4
<1>4. UNCHANGED <<audio_buffer, audio_mutex, chunk, left, sample>>
  BY DEF SoundSeek, loop
<1> QED
  BY <1>2, <1>3, <1>4

(* Every step keeps the types: an index never leaves the ring, and what is *)
(* stored in a cell is a sample number.                                    *)
LEMMA NextSeekOK == TypeOK /\ [Next]_vars => SeekOK'
<1> SUFFICES ASSUME SeekOK, [Next]_vars PROVE SeekOK'
  BY DEF TypeOK
<1> USE DEF SeekOK
<1>1. CASE Decode \/ MixAudio
  BY <1>1 DEF Decode, MixAudio, Take
<1>2. CASE SoundUpdate \/ Decoded \/ MixSample \/ MixDry \/ MixEnd \/ UNCHANGED vars
  BY <1>2 DEF SoundUpdate, Decoded, MixSample, MixDry, MixEnd, vars, seek
<1>3. CASE Reset
  BY <1>3 DEF Reset
<1>4. CASE SoundSeek
  <2>1. pending' \in SUBSET Fields /\ torn' \in BOOLEAN
    BY <1>4 DEF SoundSeek
  <2>2. seeks' \in 0 .. MaxSeeks
    BY <1>4, BoundAssumption DEF SoundSeek
  <2> QED
    BY <2>1, <2>2
<1> QED
  BY <1>1, <1>2, <1>3, <1>4 DEF Next

LEMMA NextTypeOK == IInv /\ [Next]_vars => TypeOK'
<1> SUFFICES ASSUME TypeOK, PieceInProgress, [Next]_vars PROVE TypeOK'
  BY DEF IInv
<1>0. SeekOK'
  BY NextSeekOK
<1> USE <1>0, SizePositive, ChunkAssumption, MixAssumption
    DEF TypeOK, Cells, indices, totals, loop, Free, Take
<1>1. CASE Decode
  BY <1>1 DEF Decode
<1>2. CASE SoundUpdate
  <2>1. base + audio_total_decoded + (chunk - left) + 1 \in Nat
    BY <1>2 DEF SoundUpdate, PieceInProgress
  <2>2. audio_buffer' \in [Cells -> Nat]
    BY <1>2, <2>1 DEF SoundUpdate
  <2> QED
    BY <1>2, <2>2 DEF SoundUpdate
<1>3. CASE Decoded
  BY <1>3 DEF Decoded
<1>4. CASE MixAudio
  BY <1>4 DEF MixAudio
<1>5. CASE MixSample
  <2>1. (IF audio_rd >= Size THEN 0 ELSE audio_rd) \in Cells
    BY <1>5
  <2>2. audio_buffer' \in [Cells -> Nat] /\ sample' \in Nat
    BY <1>5, <2>1 DEF MixSample
  <2> QED
    BY <1>5, <2>2 DEF MixSample, MixWrap
<1>6. CASE MixDry
  BY <1>6 DEF MixDry, MixWrap
<1>7. CASE MixEnd
  BY <1>7 DEF MixEnd
<1>8. CASE Reset
  BY <1>8 DEF Reset
<1>9. CASE SoundSeek
  <2>1. /\ audio_wd' \in 0 .. Size /\ audio_rd' \in 0 .. Size
        /\ audio_wd_num' \in Nat /\ audio_rd_num' \in Nat
        /\ audio_total_decoded' \in Nat /\ audio_total_done' \in Nat /\ base' \in Nat
    BY <1>9, SeekKeeps
  <2>2. UNCHANGED <<audio_buffer, audio_mutex, chunk, left, sample>>
    BY <1>9, SeekKeeps
  <2> QED
    BY <2>1, <2>2
<1>10. CASE UNCHANGED vars
  BY <1>10 DEF vars
<1> QED
  BY <1>1, <1>2, <1>3, <1>4, <1>5, <1>6, <1>7, <1>8, <1>9, <1>10 DEF Next

(* The piece keeps to its length and the cells to what was decoded, torn or*)
(* not.                                                                    *)
LEMMA NextPiece == IInv /\ [Next]_vars => (PieceInProgress /\ CellsDecoded)'
<1> SUFFICES ASSUME IInv, [Next]_vars PROVE (PieceInProgress /\ CellsDecoded)'
  OBVIOUS
<1> USE SizePositive, ChunkAssumption, MixAssumption
    DEF IInv, TypeOK, PieceInProgress, CellsDecoded, Stored, Cells,
        indices, totals, loop, seek, Free, Take
<1>1. CASE Decode
  BY <1>1 DEF Decode
<1>2. CASE SoundUpdate
  BY <1>2 DEF SoundUpdate
<1>3. CASE Decoded
  BY <1>3 DEF Decoded
<1>4. CASE MixAudio
  BY <1>4 DEF MixAudio
<1>5. CASE MixSample
  BY <1>5 DEF MixSample
<1>6. CASE MixDry
  BY <1>6 DEF MixDry
<1>7. CASE MixEnd
  BY <1>7 DEF MixEnd
<1>8. CASE Reset
  BY <1>8 DEF Reset
<1>9. CASE SoundSeek
  BY <1>9, SeekKeeps
<1>10. CASE UNCHANGED vars
  BY <1>10 DEF vars
<1> QED
  BY <1>1, <1>2, <1>3, <1>4, <1>5, <1>6, <1>7, <1>8, <1>9, <1>10 DEF Next

(* The counters: no step lets the decoder lap the reader or the reader     *)
(* overtake the decoder, and the indices stay as far apart as the totals.  *)
LEMMA NextCounters ==
  TypeOK /\ InStep /\ Locked => (NoOverrun /\ PieceFits /\ IndicesAgree)'
<1> SUFFICES ASSUME TypeOK, InStep, Locked
             PROVE  (NoOverrun /\ PieceFits /\ IndicesAgree)'
  OBVIOUS
<1> USE SizePositive, ChunkAssumption, LowWaterAssumption, SizeAssumption
    DEF TypeOK, InStep, NoOverrun, PieceFits, PieceInProgress, IndicesAgree,
        Unread, Stored, Waiting, indices, totals, loop, Free, Take
<1>1. CASE Decode
  BY <1>1 DEF Decode
<1>2. CASE SoundUpdate
  BY <1>2 DEF SoundUpdate
<1>3. CASE Decoded
  BY <1>3 DEF Decoded
<1>4. CASE MixAudio
  BY <1>4 DEF MixAudio
<1>5. CASE MixSample
  BY <1>5 DEF MixSample, MixWrap
<1>6. CASE MixDry
  BY <1>6 DEF MixDry, MixWrap
<1>7. CASE MixEnd
  BY <1>7 DEF MixEnd
<1>8. CASE Reset
  BY <1>8 DEF Reset
<1>9. CASE UNCHANGED vars
  BY <1>9 DEF vars
<1> QED
  BY <1>1, <1>2, <1>3, <1>4, <1>5, <1>6, <1>7, <1>8, <1>9 DEF Locked

(* The cells.  While the writer is in the reader's lap the unread cells are*)
(* rd .. wd - 1; one lap ahead they are rd .. Size - 1 and 0 .. wd - 1, and*)
(* NoOverrun keeps the two pieces apart.                                   *)
LEMMA NextContents == TypeOK /\ InStep /\ Locked => ContentsAgree'
<1> SUFFICES ASSUME TypeOK, InStep, Locked PROVE ContentsAgree'
  OBVIOUS
<1> USE SizePositive, ChunkAssumption, LowWaterAssumption, SizeAssumption
    DEF TypeOK, InStep, Cells, indices, totals, loop, Free, Take
<1>1. CASE Decode
  BY <1>1 DEF Decode, ContentsAgree, Due
<1>2. CASE SoundUpdate
  <2> DEFINE wrap == audio_wd >= Size
             at   == IF wrap THEN 0 ELSE audio_wd
             new  == base + audio_total_decoded + (chunk - left) + 1
  <2>1. /\ at \in Cells /\ audio_wd' = at + 1
        /\ audio_wd_num' = IF wrap THEN audio_wd_num + 1 ELSE audio_wd_num
        /\ audio_rd' = audio_rd /\ audio_rd_num' = audio_rd_num /\ Due' = Due
        /\ audio_buffer'[at] = new
        /\ \A i \in Cells : i # at => audio_buffer'[i] = audio_buffer[i]
    BY <1>2 DEF SoundUpdate, Due
  <2>2. /\ new = Due + Unread
        /\ Unread \in 0 .. Size - 1
    BY <1>2 DEF SoundUpdate, Due, Unread, Stored, Waiting, PieceFits, PieceInProgress, NoOverrun
  <2>3. CASE audio_wd_num = audio_rd_num /\ ~wrap
    <3>1. /\ at = audio_wd /\ new = Due + (audio_wd - audio_rd)
          /\ audio_wd_num' = audio_rd_num'
      BY <2>1, <2>2, <2>3 DEF IndicesAgree
    <3>2. \A i \in Cells : audio_rd <= i /\ i < audio_wd => audio_buffer[i] = Due + (i - audio_rd)
      BY <2>3 DEF ContentsAgree
    <3>3. \A i \in Cells : audio_rd <= i /\ i < audio_wd' => audio_buffer'[i] = Due + (i - audio_rd)
      <4> SUFFICES ASSUME NEW i \in Cells, audio_rd <= i, i < audio_wd'
                   PROVE  audio_buffer'[i] = Due + (i - audio_rd)
        OBVIOUS
      <4>1. CASE i = at
        BY <2>1, <3>1, <4>1
      <4>2. CASE i # at
        <5>1. i < audio_wd
          BY <2>1, <3>1, <4>2
        <5> QED
          BY <2>1, <3>2, <4>2, <5>1
      <4> QED
        BY <4>1, <4>2
    <3> QED
      BY <2>1, <3>1, <3>3 DEF ContentsAgree
  <2>4. CASE audio_wd_num = audio_rd_num /\ wrap
    <3>1. /\ audio_wd = Size /\ at = 0 /\ audio_wd' = 1 /\ audio_rd >= 1
          /\ new = Due + (Size - audio_rd) /\ audio_wd_num' = audio_rd_num' + 1
      BY <2>1, <2>2, <2>4 DEF IndicesAgree
    <3>2. \A i \in Cells : audio_rd <= i => audio_buffer[i] = Due + (i - audio_rd)
      BY <2>4, <3>1 DEF ContentsAgree
    <3>3. \A i \in Cells : audio_rd <= i => audio_buffer'[i] = Due + (i - audio_rd)
      BY <2>1, <3>1, <3>2
    <3>4. \A i \in Cells : i < audio_wd' => audio_buffer'[i] = Due + (Size - audio_rd) + i
      <4>1. Due \in Nat
        BY DEF Due
      <4> QED
        BY <2>1, <3>1, <4>1
    <3> QED
      BY <2>1, <3>1, <3>3, <3>4 DEF ContentsAgree
  <2>5. CASE audio_wd_num = audio_rd_num + 1
    <3>1. audio_wd < audio_rd /\ ~wrap /\ new = Due + (Size - audio_rd) + audio_wd
      BY <2>2, <2>5 DEF IndicesAgree, Due
    <3>2. audio_wd_num' = audio_rd_num' + 1 /\ at = audio_wd
      BY <2>1, <2>5, <3>1
    <3>3. \A i \in Cells : audio_rd <= i => audio_buffer'[i] = Due + (i - audio_rd)
      BY <2>1, <2>5, <3>1, <3>2 DEF ContentsAgree
    <3>4. \A i \in Cells :
            i < audio_wd' => audio_buffer'[i] = Due + (Size - audio_rd) + i
      BY <2>1, <2>5, <3>1, <3>2 DEF ContentsAgree
    <3> QED
      BY <2>1, <3>2, <3>3, <3>4 DEF ContentsAgree
  <2>6. CASE audio_wd_num + 1 = audio_rd_num
    <3>1. audio_wd = Size /\ audio_rd = 0 /\ Unread = 0
      BY <2>6 DEF IndicesAgree, NoOverrun
    <3> QED
      BY <2>1, <2>2, <2>6, <3>1 DEF ContentsAgree, Due
  <2> QED
    BY <2>3, <2>4, <2>5, <2>6 DEF IndicesAgree
<1>3. CASE Decoded
  BY <1>3 DEF Decoded, ContentsAgree, Due
<1>4. CASE MixAudio
  BY <1>4 DEF MixAudio, ContentsAgree, Due
<1>5. CASE MixSample
  <2> DEFINE at == IF audio_rd >= Size THEN 0 ELSE audio_rd
  <2>1. /\ at \in Cells /\ audio_rd' = at + 1
        /\ audio_rd_num' = IF audio_rd >= Size THEN audio_rd_num + 1 ELSE audio_rd_num
        /\ audio_wd' = audio_wd /\ audio_wd_num' = audio_wd_num /\ Due' = Due + 1
        /\ \A i \in Cells : i # at => audio_buffer'[i] = audio_buffer[i]
    BY <1>5 DEF MixSample, MixWrap, Due
  <2>2. Unread \in 1 .. Size
    BY <1>5 DEF MixSample, Unread, Stored, Waiting, NoOverrun
  <2>3. CASE audio_wd_num = audio_rd_num
    BY <2>1, <2>2, <2>3 DEF ContentsAgree, IndicesAgree, Due
  <2>4. CASE audio_wd_num = audio_rd_num + 1 /\ audio_rd < Size
    BY <2>1, <2>2, <2>4 DEF ContentsAgree, IndicesAgree, Due
  <2>5. CASE audio_wd_num = audio_rd_num + 1 /\ audio_rd >= Size
    <3>1. at = 0 /\ audio_rd = Size /\ audio_rd' = 1 /\ audio_rd_num' = audio_wd_num'
      BY <2>1, <2>5
    <3>2. \A i \in Cells : i < audio_wd => audio_buffer[i] = Due + (Size - audio_rd) + i
      BY <2>5 DEF ContentsAgree
    <3>3. Due \in Nat
      BY DEF Due
    <3>4. \A i \in Cells :
            1 <= i /\ i < audio_wd' => audio_buffer'[i] = Due' + (i - 1)
      BY <2>1, <3>1, <3>2, <3>3
    <3> QED
      BY <2>1, <3>1, <3>4 DEF ContentsAgree
  <2>6. ~(audio_wd_num + 1 = audio_rd_num)
    BY <2>2 DEF IndicesAgree
  <2> QED
    BY <2>3, <2>4, <2>5, <2>6 DEF IndicesAgree
<1>6. CASE MixDry
  <2>1. Unread = 0
    BY <1>6 DEF MixDry, Unread, Stored, Waiting, NoOverrun
  <2> QED
    BY <1>6, <2>1 DEF MixDry, MixWrap, ContentsAgree, IndicesAgree, Due
<1>7. CASE MixEnd
  BY <1>7 DEF MixEnd, ContentsAgree, Due
<1>8. CASE Reset
  BY <1>8 DEF Reset, ContentsAgree
<1>9. CASE UNCHANGED vars
  BY <1>9 DEF vars, ContentsAgree, Due
<1> QED
  BY <1>1, <1>2, <1>3, <1>4, <1>5, <1>6, <1>7, <1>8, <1>9 DEF Locked

(* Steps under the mutex: a ring that is in step stays so, and one that is *)
(* in the middle of an undisturbed seek admits none of them untorn.        *)
LEMMA NextLocked == IInv /\ Locked => RingInv'
<1> SUFFICES ASSUME IInv, Locked, ~torn' PROVE IF pending' = {} THEN InStep' ELSE HalfReset'
  BY DEF RingInv
<1>1. CASE Reset
  <2>1. (NoOverrun /\ PieceFits /\ IndicesAgree /\ ContentsAgree)' /\ pending' = {}
    BY <1>1, SizePositive, LowWaterAssumption
       DEF IInv, TypeOK, Reset, NoOverrun, PieceFits, PieceInProgress, IndicesAgree,
           ContentsAgree, Unread, Stored, Waiting, Cells, Free
  <2> QED
    BY <2>1 DEF InStep
<1>2. CASE ~Reset /\ pending = {}
  <2>1. ~torn /\ pending' = {}
    BY <1>2 DEF IInv, TypeOK, SeekOK, Locked, Decode, SoundUpdate, Decoded, MixAudio, MixSample, MixDry,
                MixEnd, Take, vars, seek
  <2>2. InStep
    BY <1>2, <2>1 DEF IInv, RingInv
  <2>3. InStep'
    BY <2>2, NextCounters, NextContents DEF InStep, IInv
  <2> QED
    BY <2>1, <2>3
<1>3. CASE ~Reset /\ pending # {}
  <2>1. torn \/ UNCHANGED vars \/ audio_mutex # Free
    BY <1>3 DEF Locked, Decode, SoundUpdate, Decoded, MixAudio, MixSample, MixDry,
                MixEnd, Take, Free
  <2>2. ~torn
    BY <1>3 DEF IInv, TypeOK, SeekOK, Locked, Decode, SoundUpdate, Decoded, MixAudio, MixSample,
                MixDry, MixEnd, Take, vars, seek
  <2>3. HalfReset
    BY <1>3, <2>2 DEF IInv, RingInv
  <2>4. UNCHANGED vars
    BY <2>1, <2>2, <2>3 DEF HalfReset
  <2> QED
    BY <1>3, <2>3, <2>4 DEF HalfReset, vars, indices, totals, seek
<1> QED
  BY <1>1, <1>2, <1>3

(* Steps of a seek: one that meets nobody sets everything, in any order.   *)
LEMMA NextSeek == IInv /\ SoundSeek => RingInv'
<1> SUFFICES ASSUME IInv, SoundSeek, ~torn'
             PROVE  IF pending' = {} THEN InStep' ELSE HalfReset'
  BY DEF RingInv
<1> DEFINE begins == pending = {}
           todo   == IF begins THEN Fields ELSE pending
<1>1. audio_mutex = Free /\ audio_mutex' = Free /\ (begins \/ ~torn)
  BY DEF SoundSeek
<1>2. ~begins => HalfReset
  BY <1>1 DEF IInv, RingInv
<1>3. PICK f \in todo :
        /\ pending' = todo \ {f}
        /\ audio_wd' \in ResetOf(f, "wd", audio_wd, "decoder")
        /\ audio_wd_num' \in ResetOf(f, "wd_num", audio_wd_num, "decoder")
        /\ audio_total_decoded' \in ResetOf(f, "decoded", audio_total_decoded, "decoder")
        /\ audio_rd' \in ResetOf(f, "rd", audio_rd, "mixer")
        /\ audio_rd_num' \in ResetOf(f, "rd_num", audio_rd_num, "mixer")
        /\ audio_total_done' \in ResetOf(f, "done", audio_total_done, "mixer")
  BY DEF SoundSeek
<1>4. HalfReset'
  BY <1>1, <1>2, <1>3 DEF HalfReset, ResetOf, Fields, Free
<1>5. CASE pending' = {}
  <2>1. /\ audio_wd' = 0 /\ audio_wd_num' = 0 /\ audio_rd' = 0 /\ audio_rd_num' = 0
        /\ audio_total_decoded' = 0 /\ audio_total_done' = 0
    BY <1>4, <1>5 DEF HalfReset
  <2> QED
    BY <1>1, <1>5, <2>1, SizePositive
       DEF InStep, NoOverrun, PieceFits, PieceInProgress, IndicesAgree, ContentsAgree,
           Unread, Stored, Waiting, Cells, Free
<1> QED
  BY <1>4, <1>5

(* The inductive invariant holds in every reachable state.                 *)
LEMMA Invariance == Spec => []IInv
<1>1. IInv /\ [Next]_vars => RingInv'
  BY NextLocked, NextSeek DEF Next, Locked
<1>2. IInv /\ [Next]_vars => IInv'
  BY <1>1, NextTypeOK, NextPiece DEF IInv
<1> QED
  BY InitIInv, <1>2, PTL DEF Spec

(* For every ring that holds min_buffers and one piece, the indices stay in*)
(* the ring and the totals do not go below zero, wherever a seek falls.    *)
THEOREM RingTypes == Spec => []TypeOK
BY Invariance, PTL DEF IInv

(* Indices, totals and contents of the ring agree, and the decoder never   *)
(* laps the reader, at every moment but from a disturbed seek to the next  *)
(* reset or undisturbed seek.                                              *)
THEOREM RingInvariant == Spec => []RingInv
BY Invariance, PTL DEF IInv

-----------------------------------------------------------------------------
(* Refinement.  Decoded is Feed, MixSample is Hear, Reset is Reset, and the*)
(* stores of a seek are Seek; whatever comes into a seek is Disturb, as is *)
(* everything in a torn ring.                                              *)
LEMMA HearsTheDueSample ==
  ASSUME TypeOK, InStep, MixSample
  PROVE  sample' = Due
<1> USE SizePositive DEF InStep, TypeOK, Cells, Free
<1>1. Unread >= 1
  BY DEF MixSample, Unread, Stored, Waiting
<1>2. CASE audio_wd_num = audio_rd_num
  BY <1>1, <1>2 DEF MixSample, ContentsAgree, IndicesAgree, Due
<1>3. CASE audio_wd_num = audio_rd_num + 1 /\ audio_rd < Size
  BY <1>1, <1>3 DEF MixSample, ContentsAgree, IndicesAgree, Due
<1>4. CASE audio_wd_num = audio_rd_num + 1 /\ audio_rd >= Size
  BY <1>1, <1>4 DEF MixSample, ContentsAgree, IndicesAgree, Due
<1> QED
  BY <1>1, <1>2, <1>3, <1>4 DEF IndicesAgree

(* What is heard, torn or not, was decoded.                                *)
LEMMA HearsWhatWasDecoded ==
  ASSUME IInv, MixSample
  PROVE  sample' \in 0 .. base + audio_total_decoded
BY SizePositive DEF IInv, TypeOK, CellsDecoded, Stored, Cells, MixSample

(* Every sample heard has a number no higher than the last one decoded.    *)
SampleDecoded == sample <= base + audio_total_decoded

LEMMA NextSampleDecoded == IInv /\ SampleDecoded /\ [Next]_vars => SampleDecoded'
<1> SUFFICES ASSUME IInv, SampleDecoded, [Next]_vars PROVE SampleDecoded'
  OBVIOUS
<1> USE DEF IInv, TypeOK, SampleDecoded, indices, totals, loop
<1>1. CASE Decode \/ SoundUpdate \/ MixAudio \/ MixDry \/ MixEnd \/ UNCHANGED vars
  BY <1>1 DEF Decode, SoundUpdate, MixAudio, MixDry, MixEnd, vars
<1>2. CASE Decoded
  BY <1>2, ChunkAssumption DEF Decoded
<1>3. CASE MixSample
  <2>1. base' = base /\ audio_total_decoded' = audio_total_decoded
    BY <1>3 DEF MixSample
  <2> QED
    BY <1>3, <2>1, HearsWhatWasDecoded
<1>4. CASE Reset
  BY <1>4 DEF Reset
<1>5. CASE SoundSeek
  BY <1>5, SeekKeeps
<1> QED
  BY <1>1, <1>2, <1>3, <1>4, <1>5 DEF Next

LEMMA SampleInvariance == Spec => []SampleDecoded
<1>1. Init => SampleDecoded
  BY DEF Init, SampleDecoded
<1> QED
  BY <1>1, Invariance, NextSampleDecoded, PTL DEF Spec

(* Nothing that was decoded is counted off.                                *)
LEMMA DecodedGrows ==
  ASSUME IInv, [Next]_vars
  PROVE  base + audio_total_decoded <= base' + audio_total_decoded'
<1> USE DEF IInv, TypeOK, indices, totals, loop
<1>1. CASE \/ Decode \/ SoundUpdate \/ MixAudio \/ MixSample \/ MixDry \/ MixEnd
           \/ UNCHANGED vars
  BY <1>1 DEF Decode, SoundUpdate, MixAudio, MixDry, MixEnd, MixSample, vars
<1>2. CASE Decoded
  BY <1>2, ChunkAssumption DEF Decoded
<1>3. CASE Reset
  BY <1>3 DEF Reset
<1>4. CASE SoundSeek
  BY <1>4, SeekKeeps
<1> QED
  BY <1>1, <1>2, <1>3, <1>4 DEF Next

LEMMA InRange ==
  ASSUME NEW a \in Nat, NEW b \in Nat, NEW c \in Nat, c <= a + b
  PROVE  c \in 0 .. a + b
OBVIOUS

(* A store of sound_seek is not its first and last at once.                *)
LEMMA SeekIsLong == TypeOK /\ SoundSeek => pending # {} \/ pending' # {}
<1> SUFFICES ASSUME TypeOK, SoundSeek, pending = {} PROVE pending' # {}
  OBVIOUS
<1>1. PICK f \in Fields : pending' = Fields \ {f}
  BY DEF SoundSeek
<1>2. "wd" \in Fields \ {f} \/ "rd" \in Fields \ {f}
  BY DEF Fields
<1> QED
  BY <1>1, <1>2

(* A step that leaves the ring torn is a disturbance: the seek or the tear *)
(* was there before.                                                       *)
LEMMA TornStep ==
  ASSUME IInv, SampleDecoded, SampleDecoded', TypeOK', [Next]_vars, torn'
  PROVE  Stream!Disturb
<1>1. torn \/ pending # {} \/ pending' # {}
  <2>1. CASE SoundSeek
    BY <2>1, SeekIsLong DEF IInv
  <2>2. CASE ~SoundSeek
    BY <2>2 DEF Next, Decode, SoundUpdate, Decoded, MixAudio, MixSample, MixDry, MixEnd,
                Reset, Take, vars, seek
  <2> QED
    BY <2>1, <2>2
<1>2. base + audio_total_decoded <= base' + audio_total_decoded'
  BY DecodedGrows
<1>3. sample' \in 0 .. base' + audio_total_decoded'
  <2>1. sample' \in Nat /\ base' \in Nat /\ audio_total_decoded' \in Nat
    BY DEF TypeOK
  <2>2. sample' <= base' + audio_total_decoded'
    BY DEF SampleDecoded
  <2> QED
    BY <2>1, <2>2, InRange, Zenon
<1> QED
  BY <1>1, <1>2, <1>3 DEF Stream!Disturb

(* What an undisturbed store of sound_seek does to the stream.             *)
LEMMA SeekSums ==
  ASSUME TypeOK, SoundSeek
  PROVE  /\ \/ audio_total_decoded' = audio_total_decoded /\ base' = base
            \/ audio_total_decoded' = 0 /\ base' = base + audio_total_decoded
         /\ audio_total_done' \in {audio_total_done, 0}
         /\ sample' = sample
<1>1. base \in Nat /\ audio_total_decoded \in Nat
  BY DEF TypeOK
<1> QED
  BY <1>1, SeekKeeps

LEMMA SeekEnds ==
  ASSUME IInv, SoundSeek, ~torn', pending' = {}
  PROVE  audio_total_decoded' = 0 /\ audio_total_done' = 0
<1>1. RingInv' /\ HalfReset'
  <2>1. audio_mutex = Free /\ audio_mutex' = Free /\ pending # {} /\ ~torn
    BY SeekIsLong DEF SoundSeek, IInv
  <2>2. HalfReset
    BY <2>1 DEF IInv, RingInv
  <2>3. PICK g \in pending :
        /\ pending' = pending \ {g}
        /\ audio_wd' \in ResetOf(g, "wd", audio_wd, "decoder")
        /\ audio_wd_num' \in ResetOf(g, "wd_num", audio_wd_num, "decoder")
        /\ audio_total_decoded' \in ResetOf(g, "decoded", audio_total_decoded, "decoder")
        /\ audio_rd' \in ResetOf(g, "rd", audio_rd, "mixer")
        /\ audio_rd_num' \in ResetOf(g, "rd_num", audio_rd_num, "mixer")
        /\ audio_total_done' \in ResetOf(g, "done", audio_total_done, "mixer")
    BY <2>1 DEF SoundSeek
  <2> QED
    BY <2>1, <2>2, <2>3, NextSeek DEF HalfReset, ResetOf, Free
<1> QED
  BY <1>1 DEF HalfReset

(* Every step of the ring is a step of the stream, or none.                *)
LEMMA StepSimulation ==
  ASSUME IInv, SampleDecoded, SampleDecoded', TypeOK', [Next]_vars
  PROVE  [Stream!Next]_(Stream!vars)
<1> USE DEF IInv, Stream!vars, indices, totals, loop, seek
<1>1. CASE torn'
  BY <1>1, TornStep DEF Stream!Next
<1>2. CASE ~torn' /\ SoundSeek
  <2>1. pending # {} => ~torn
    BY <1>2 DEF SoundSeek
  <2>2. Stream!Seek
    BY <1>2, <2>1, SeekIsLong, SeekSums, SeekEnds DEF Stream!Seek
  <2> QED
    BY <2>2 DEF Stream!Next
<1>3. CASE ~torn' /\ Reset
  BY <1>3 DEF Reset, Stream!Next, Stream!Reset
<1>4. CASE ~torn' /\ (Decode \/ SoundUpdate \/ MixAudio \/ MixDry \/ MixEnd \/ UNCHANGED vars)
  <2>1. UNCHANGED <<torn, pending>>
    BY <1>4 DEF TypeOK, SeekOK, Decode, SoundUpdate, MixAudio, MixDry, MixEnd, Take, vars
  <2>2. UNCHANGED <<audio_total_decoded, audio_total_done, base, sample>>
    BY <1>4 DEF Decode, SoundUpdate, MixAudio, MixDry, MixEnd, vars
  <2> QED
    BY <2>1, <2>2
<1>5. CASE ~torn' /\ (Decoded \/ MixSample)
  <2>1. ~torn /\ audio_mutex # Free /\ pending' = pending /\ torn' = torn
    BY <1>5 DEF Decoded, MixSample, Free
  <2>2. pending = {} /\ InStep
    BY <2>1 DEF RingInv, HalfReset
  <2>3. CASE Decoded
    <3>1. Stream!Feed
      BY <2>1, <2>2, <2>3, ChunkAssumption
         DEF TypeOK, Decoded, Stream!Feed, Stream!InOrder, InStep, PieceFits, PieceInProgress, Waiting
    <3> QED
      BY <3>1 DEF Stream!Next
  <2>4. CASE MixSample
    <3>1. Stream!Hear
      BY <2>1, <2>2, <2>4, HearsTheDueSample DEF TypeOK, MixSample, Stream!Hear, Stream!InOrder, Due
    <3> QED
      BY <3>1 DEF Stream!Next
  <2> QED
    BY <1>5, <2>3, <2>4
<1> QED
  BY <1>1, <1>2, <1>3, <1>4, <1>5 DEF Next

(* For every ring the SDL callback plays the samples in the order in which *)
(* the decoder stored them, each once, and none from before a reset, except*)
(* where a seek has come upon a piece or a callback; there it plays nothing*)
(* that was not decoded, and the order is back with the next reset.        *)
THEOREM RingImplementsStream == Spec => Fifo
<1>1. Init => Stream!Init
  BY DEF Init, Stream!Init
<1>2. IInv /\ IInv' /\ SampleDecoded /\ SampleDecoded' /\ [Next]_vars
        => [Stream!Next]_(Stream!vars)
  BY StepSimulation DEF IInv
<1> QED
  BY <1>1, <1>2, Invariance, SampleInvariance, PTL DEF Spec, Fifo, Stream!Spec
=============================================================================
