--------------------------- MODULE WishboneMemory ---------------------------
(***************************************************************************)
(* What a memory behind simple ports promises its user: requests are taken *)
(* one at a time, each is performed once and then answered, a read with the*)
(* word of its address, a write with nothing.  A reset forgets the request *)
(* under way, which may or may not have been performed.                    *)
(***************************************************************************)
EXTENDS Naturals

CONSTANTS
  Depth,   \* words of the memory, 2 ** local_addr_width
  Lanes,   \* the bytes of a word, each with its own select line
  Bytes,   \* the values of a byte, 0 among them
  None     \* no request, no reply

Addresses == 0 .. Depth - 1
Words == [Lanes -> Bytes]
Zero == [lane \in Lanes |-> 0]

Requests == [op : {"READ", "WRITE"}, adr : Addresses, dat : Words, sel : SUBSET Lanes]

VARIABLES
  memory,     \* the words
  read_only,  \* writes are ignored
  request,    \* the request under way, or None
  performed,  \* it has been done
  reply       \* the word that is shown as the answer, or None

memVars == << memory, read_only, request, performed, reply >>

MemInit ==
  /\ memory \in [Addresses -> Words]
  /\ read_only \in BOOLEAN
  /\ request = None
  /\ performed = FALSE
  /\ reply = None

\* The memory with the selected bytes of one word replaced.
Stored(mem, adr, dat, sel) ==
  [mem EXCEPT ![adr] = [lane \in Lanes |-> IF lane \in sel THEN dat[lane] ELSE @[lane]]]

AfterRequest ==
  IF request.op = "WRITE" /\ ~read_only
    THEN Stored(memory, request.adr, request.dat, request.sel)
    ELSE memory

Accept(r) ==
  /\ request = None
  /\ request' = r
  /\ performed' = FALSE
  /\ reply' = None
  /\ UNCHANGED memory

Perform ==
  /\ request # None
  /\ ~performed
  /\ memory' = AfterRequest
  /\ performed' = TRUE
  /\ UNCHANGED << request, reply >>

Answer ==
  /\ request # None
  /\ performed
  /\ reply' = IF request.op = "READ" THEN memory[request.adr] ELSE Zero
  /\ request' = None
  /\ performed' = FALSE
  /\ UNCHANGED memory

Withdraw ==
  /\ request = None
  /\ reply # None
  /\ reply' = None
  /\ UNCHANGED << memory, request, performed >>

Forget ==
  /\ memory' = memory \/ (request # None /\ memory' = AfterRequest)
  /\ request' = None
  /\ performed' = FALSE
  /\ reply' = None

MemNext ==
  /\ UNCHANGED read_only
  /\ \/ \E r \in Requests : Accept(r)
     \/ Perform
     \/ Answer
     \/ Withdraw
     \/ Forget

MemSpec == MemInit /\ [][MemNext]_memVars

=============================================================================
