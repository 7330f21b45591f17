----------------------------- MODULE MessageBuffer -----------------------------
(***************************************************************************)
(* A message is one block of memory: the header, for some types more that  *)
(* says where the message goes, and the data, at an offset that suits      *)
(* their alignment.  A block is a record of its measures, in bytes:        *)
(*   alignment   what the header says of the alignment of the data         *)
(*   meta        the end of header and further information                 *)
(*   data_offset, data_size, bytes (number_of_bytes_in_message)            *)
(*   allocated   the alignment the memory was asked for with               *)
(*   callback    where the callback of a reduction is, or the end          *)
(* Alignments are those of C++ types, powers of two.                       *)
(***************************************************************************)
EXTENDS Integers

HeaderSize == 64         \* sizeof and alignof MessageHeader
MetadataBlock == 64      \* reduction::metadata_block_size
CallbackAlignment == 64
IndexSize == 8           \* sizeof(std::uint64_t)
Alignments == {1, 2, 4, 8, 16, 32, 64, 128}   \* max_alignment is 255

Larger(a, b) == IF a < b THEN b ELSE a

-----------------------------------------------------------------------------
(* Where the data begin                                                    *)

(* Mutant of DataAfter: a remainder is taken for what is missing.          *)
DataAfterRemainder(end, a) == end + (end % a)

(* A whole alignment is added where none would be needed.                  *)
DataAfter(end, a) == end + (a - (end % a))

(* reduction::create_message adds nothing there.                           *)
RoundUp(end, a) == end + ((a - (end % a)) % a)

Blocks ==
  [alignment : Alignments, meta : Nat, data_offset : Nat, data_size : Nat,
   bytes : Nat, allocated : Nat, callback : Nat]

Block(meta, offset, size, a) ==
  [alignment |-> a, meta |-> meta, data_offset |-> offset, data_size |-> size,
   bytes |-> offset + size, allocated |-> Larger(HeaderSize, a), callback |-> offset + size]

-----------------------------------------------------------------------------
(* create_message from arguments: the header, then the tuple itself, made  *)
(* by create_data_in_message, or its serialization.                        *)
CreateMessage(size, a) == Block(HeaderSize, DataAfter(HeaderSize, a), size, a)

(* create_message from data that exist, for one element or as the answer   *)
(* to a reduction.                                                         *)
CreateMessageFrom(size, a) == Block(HeaderSize, DataAfter(HeaderSize, a), size, a)

(* Mutant of IdsEnd: the process and the count are forgotten.              *)
IdsEndWithoutCount(n) == HeaderSize + IndexSize * n

(* create_broadcast_to_message: the process, the number of ids that have   *)
(* been written and room for n of them come between.                       *)
IdsEnd(n) == HeaderSize + IndexSize * (2 + n)
CreateBroadcastTo(n, size, a) == Block(IdsEnd(n), DataAfter(IdsEnd(n), a), size, a)

(* copy                                                                    *)
Copied(b) == [b EXCEPT !.allocated = Larger(HeaderSize, b.alignment)]

(* initiate_receives makes room for what MPI says there is; the header is  *)
(* not known yet.                                                          *)
Received(b) == [b EXCEPT !.allocated = HeaderSize]

(* What add_local_broadcast_tasks takes for the size of the data.          *)
SizeOfData(b) == b.bytes - b.data_offset

-----------------------------------------------------------------------------
(* Reductions: a block of metadata, the data and the callback.             *)

(* The places of id, data offset, callback offset, combine function, data  *)
(* size, contributed metadata, target and the two counts, and their sizes. *)
MetadataFields ==
  <<[at |-> 64, size |-> 8], [at |-> 72, size |-> 4], [at |-> 76, size |-> 4],
    [at |-> 80, size |-> 8], [at |-> 88, size |-> 4], [at |-> 92, size |-> 1],
    [at |-> 96, size |-> 4], [at |-> 100, size |-> 4], [at |-> 104, size |-> 4]>>

WithCallback(meta, offset, size, a, callback) ==
  LET at == RoundUp(offset + size, CallbackAlignment)
  IN  [alignment |-> a, meta |-> meta, data_offset |-> offset, data_size |-> size,
       bytes |-> at + callback, allocated |-> Larger(HeaderSize, a), callback |-> at]

(* reduction::create_message                                               *)
CreateReduction(size, a, callback) ==
  LET meta == HeaderSize + MetadataBlock
  IN  WithCallback(meta, RoundUp(meta, a), size, a, callback)

(* reduction_over, before the message leaves: the data are replaced by     *)
(* their serialization, and the callback moves.                            *)
Reserialize(b, size) ==
  WithCallback(b.meta, b.data_offset, size, b.alignment, b.bytes - b.callback)

(* combine_impl: the data of a serialized message are unpacked, combined   *)
(* and packed again where they were, whatever size they have now.          *)
Combined(b, size) == [b EXCEPT !.data_size = size]

-----------------------------------------------------------------------------
(* What is in a block does not overlap, and the data, and the callback,    *)
(* are aligned if the block is.                                            *)
Holds(b) ==
  /\ HeaderSize <= b.meta /\ b.meta <= b.data_offset
  /\ b.data_offset + b.data_size <= b.callback /\ b.callback <= b.bytes
  /\ b.data_offset % b.alignment = 0

(* The memory is aligned as the data are, and it is given back as it was   *)
(* asked for: free_message looks into the header.                          *)
Aligned(b) == b.allocated = Larger(HeaderSize, b.alignment)
=============================================================================
