----------------------------- MODULE MooreStream -----------------------------
(***************************************************************************)
(* vitriol_nvme_to_gpu: a file is read in pieces of the bounce buffer and  *)
(* each is written to VRAM through the BAR1 window.  No handler calls it;  *)
(* vitriol_alka.h exports it.  A unit of size, offset and memory is a piece*)
(* that one read may return; the k-th unit of the file is k.               *)
(***************************************************************************)
EXTENDS Naturals

CONSTANTS
  FileLength,   \* units in the file
  Size,         \* units asked for
  FileStart,    \* file_offset
  GpuStart,     \* gpu_offset
  ChunkSize,    \* DMA_BUFFER_SIZE
  Bar1Len,      \* units that BAR1 shows at once
  Bar1Mapped    \* the values bar1_base # NULL may have

VARIABLES
  pc,           \* where the function is, past the checks it starts with
  mapped,       \* bar1_base # NULL
  transferred, pos, ret,
  buffer,       \* dma_buffer: place -> the unit of the file it holds
  bar1_offset,  \* where the window is
  vram,         \* place -> the unit of the file it holds
  meta,         \* metapage_value, in percent
  answer        \* what the function returns

vars == <<pc, mapped, transferred, pos, ret, buffer, bar1_offset, vram, meta, answer>>

Nothing == FileLength     \* no unit of the file
Least(a, b) == IF a < b THEN a ELSE b
ThisChunk == Least(ChunkSize, Size - transferred)
VramOff == GpuStart + transferred
Aligned(a) == a - (a % Bar1Len)

Init ==
  /\ pc = "loop" /\ mapped \in Bar1Mapped /\ transferred = 0 /\ pos = FileStart /\ ret = 0
  /\ buffer = [i \in 0 .. ChunkSize - 1 |-> Nothing]
  /\ bar1_offset \in {0, Bar1Len}
  /\ vram = [i \in 0 .. GpuStart + Size + Bar1Len |-> Nothing]
  /\ meta = 0 /\ answer = "none"

Return(a) == pc' = "end" /\ answer' = a

\* The top of the loop, with vitriol_check_thermal.
Loop ==
  /\ pc = "loop"
  /\ \/ transferred >= Size /\ Return("0")
     \/ transferred < Size /\ Return("thermal")
     \/ transferred < Size /\ pc' = "read" /\ UNCHANGED answer
  /\ UNCHANGED <<mapped, transferred, pos, ret, buffer, bar1_offset, vram, meta>>

\* kernel_read may give less than it is asked for, and moves pos by what it gives.
Read ==
  /\ pc = "read"
  /\ \/ Return("read error") /\ UNCHANGED <<pos, ret, buffer>>
     \/ /\ pos >= FileLength
        /\ Return("EIO") /\ ret' = 0 /\ UNCHANGED <<pos, buffer>>
     \/ \E n \in 1 .. Least(ThisChunk, FileLength - pos) :
          /\ pos < FileLength
          /\ ret' = n /\ pos' = pos + n
          /\ buffer' = [i \in DOMAIN buffer |-> IF i < n THEN pos + i ELSE buffer[i]]
          /\ pc' = "shift" /\ UNCHANGED answer
  /\ UNCHANGED <<mapped, transferred, bar1_offset, vram, meta>>

\* shift_bar1_window: its result goes where the length was.
Shift ==
  /\ pc = "shift"
  /\ \/ mapped /\ bar1_offset' = Aligned(VramOff) /\ ret' = 0 /\ pc' = "copy" /\ UNCHANGED answer
     \/ ~mapped /\ Return("ENODEV") /\ UNCHANGED <<bar1_offset, ret>>
  /\ UNCHANGED <<mapped, transferred, pos, buffer, vram, meta>>

\* memcpy_toio of n units from place b of the buffer to place a of VRAM.
Written(v, a, b, n) == [i \in DOMAIN v |-> IF i \in a .. a + n - 1 THEN buffer[b + (i - a)] ELSE v[i]]

\* A chunk that spans the end of the window is written in two.
Copy ==
  /\ pc = "copy"
  /\ LET first == bar1_offset + Bar1Len - VramOff
     IN  IF VramOff + ret <= bar1_offset + Bar1Len
         THEN vram' = Written(vram, VramOff, 0, ret) /\ UNCHANGED bar1_offset
         ELSE /\ vram' = Written(Written(vram, VramOff, 0, first), VramOff + first, first, ret - first)
              /\ bar1_offset' = Aligned(VramOff + first)
  /\ transferred' = transferred + ret
  /\ meta' = (transferred' * 100) \div Size
  /\ pc' = "loop"
  /\ UNCHANGED <<mapped, pos, ret, buffer, answer>>

Next == Loop \/ Read \/ Shift \/ Copy
Spec == Init /\ [][Next]_vars

\* Whatever was read of the file is in VRAM, in its place, when the next piece
\* is read: "Copy from page cache -> DMA buffer -> GPU VRAM via BAR1".
ReadArrives ==
  pc = "loop" => \A k \in 0 .. pos - FileStart - 1 : vram[GpuStart + k] = FileStart + k
=============================================================================
