------------------------------ MODULE LoadFile ------------------------------
(***************************************************************************)
(* _load_file of src/src/bas/io/file.c: a buffer that grows while blocks of*)
(* a stream are read into it, in size_t arithmetic.  Only numbers of bytes *)
(* are kept.                                                               *)
(***************************************************************************)
EXTENDS Integers

CONSTANTS
    FileSize,     \* lengths of files
    MemOff,       \* values of mem_off: bytes to leave free in front
    Padding,      \* values of padding: bytes to leave free behind
    BlockSize,    \* BLOCK_SIZE
    FirstCapacity,\* the capacity to begin with
    SizeLimit,    \* SIZE_MAX + 1
    NoBuffer      \* NULL

ASSUME LoadAssumption ==
    /\ FileSize \cup MemOff \cup Padding \subseteq Nat
    /\ {BlockSize, FirstCapacity, SizeLimit} \subseteq Nat \ {0}
    /\ FirstCapacity < BlockSize
    /\ 2 * FirstCapacity < SizeLimit
    /\ NoBuffer # "buffer"

VARIABLES
    loadPc,    \* "idle", "loop", "fit", "end", "exit"
    length,    \* of the file
    left,      \* what has not been read of it
    eof,       \* feof(in)
    readErr,   \* err
    data,      \* data: NoBuffer or "buffer"
    capacity, off, cb, memOff, padding,  \* as in the code
    overrun    \* memory outside the buffer has been written

loadVars == <<loadPc, length, left, eof, readErr, data, capacity, off, cb, memOff,
              padding, overrun>>

LoadInit ==
    /\ loadPc = "idle"
    /\ length = 0 /\ left = 0 /\ eof = FALSE /\ readErr = FALSE
    /\ data = NoBuffer
    /\ capacity = 0 /\ off = 0 /\ cb = 0 /\ memOff = 0 /\ padding = 0
    /\ overrun = FALSE

(* malloc is not checked. *)
LoadBegin ==
    /\ loadPc' = "loop"
    /\ length' \in FileSize /\ left' = length'
    /\ eof' = FALSE /\ readErr' = FALSE
    /\ data' \in {"buffer", NoBuffer}
    /\ capacity' = FirstCapacity
    /\ memOff' \in MemOff /\ padding' \in Padding
    /\ off' = memOff' /\ cb' = 0
    /\ overrun' = FALSE

(* fread: a short block, an empty one included, is the last. *)
ReadBlock ==
    /\ loadPc = "loop" /\ ~eof
    /\ cb' = IF left < BlockSize THEN left ELSE BlockSize
    /\ left' = left - cb'
    /\ eof' = (cb' < BlockSize)
    /\ loadPc' = "fit"
    /\ UNCHANGED <<length, readErr, data, capacity, off, memOff, padding, overrun>>

ReadFails ==
    /\ loadPc = "loop" /\ ~eof
    /\ readErr' = TRUE
    /\ data' = NoBuffer
    /\ loadPc' = "end"
    /\ UNCHANGED <<length, left, eof, capacity, off, cb, memOff, padding, overrun>>

(* Faulty variant: the padding is forgotten. *)
RemainingUnpadded == (capacity - off) % SizeLimit

Remaining == (capacity - off - padding) % SizeLimit

(* realloc gives no buffer of more than PTRDIFF_MAX bytes. *)
Grow ==
    /\ loadPc = "fit" /\ Remaining < cb
    /\ data' = "buffer"
    /\ capacity' = (capacity * 2) % SizeLimit
    /\ 2 * capacity' < SizeLimit
    /\ UNCHANGED <<loadPc, length, left, eof, readErr, off, cb, memOff, padding, overrun>>

(* exit(1) *)
GrowFails ==
    /\ loadPc = "fit" /\ Remaining < cb
    /\ data' = NoBuffer
    /\ loadPc' = "exit"
    /\ UNCHANGED <<length, left, eof, readErr, capacity, off, cb, memOff, padding, overrun>>

CopyBlock ==
    /\ loadPc = "fit" /\ Remaining >= cb
    /\ off' = off + cb
    /\ overrun' = (overrun \/ (cb > 0 /\ (data = NoBuffer \/ off' > capacity)))
    /\ loadPc' = "loop"
    /\ UNCHANGED <<length, left, eof, readErr, data, capacity, cb, memOff, padding>>

LoadEnd ==
    /\ loadPc = "loop" /\ eof
    /\ loadPc' = "end"
    /\ UNCHANGED <<length, left, eof, readErr, data, capacity, off, cb, memOff, padding,
                   overrun>>

LoadNext == ReadBlock \/ ReadFails \/ Grow \/ GrowFails \/ CopyBlock \/ LoadEnd

(* *sizep *)
LoadedSize == off - memOff

(* A load that ends without a read error has the whole file behind memOff,  *)
(* inside the buffer, and left the padding free: for files of any length,   *)
(* a multiple of the block size included.  What the caller asks to leave    *)
(* free must fit in the first capacity: size_t wraps round otherwise, and   *)
(* the first malloc must not fail, nobody checks it.                        *)
LoadedWhole ==
    /\ memOff + padding <= FirstCapacity /\ data # NoBuffer =>
          /\ ~overrun
          /\ loadPc = "end" => LoadedSize = length /\ off + padding <= capacity
    /\ loadPc = "end" /\ readErr => data = NoBuffer
=============================================================================
