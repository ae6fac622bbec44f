------------------------------ MODULE BlockStore ------------------------------
(***************************************************************************)
(* What a block device promises, without saying how: while it serves, a    *)
(* block reads back what the last successful write of it stored.  A write  *)
(* that fails, or that a reset cuts short, leaves the blocks it named      *)
(* unspecified until they are written again, and no other block.  A        *)
(* failure ends the service; what is stored and was promised stays, and    *)
(* is there again when the device is opened anew.                          *)
(***************************************************************************)
EXTENDS BlockCells

VARIABLES
  content,  \* the bytes whose value is promised, with that value
  serving,  \* the device is open and nothing failed since
  writing,  \* the range << first, n >> being written, or << >>
  data,     \* the bytes being written, or last written or read
  reply     \* blocks written or read by the last call, -1 on failure

storeVars == << content, serving, writing, data, reply >>

Init ==
  /\ content \in [Cells -> Bytes]
  /\ serving = FALSE
  /\ writing = << >> /\ data = << >> /\ reply = 0

Without(cells) == [c \in DOMAIN content \ cells |-> content[c]]
With(new) == [c \in DOMAIN content \cup DOMAIN new |->
                IF c \in DOMAIN new THEN new[c] ELSE content[c]]

(* A failure may end the service at any time, and is not always reported.  *)
ServiceMayEnd == serving' => serving

(* From here to its success a write promises nothing about its range.      *)
BeginWrite(first, n, d) ==
  /\ writing = << >>
  /\ writing' = << first, n >>
  /\ data' = d
  /\ content' = Without(CellsOf(first, n))
  /\ reply' = 0
  /\ UNCHANGED serving

(* A failure the writer is not told of.                                    *)
Falter ==
  /\ writing # << >>
  /\ serving' = FALSE
  /\ UNCHANGED << content, writing, data, reply >>

EndWrite ==
  /\ writing # << >>
  /\ writing' = << >>
  /\ reply' = writing[2]
  /\ ServiceMayEnd
  /\ content' = IF serving' THEN With(data) ELSE content
  /\ UNCHANGED data

FailWrite ==
  /\ writing # << >>
  /\ writing' = << >>
  /\ reply' = -1
  /\ serving' = FALSE
  /\ UNCHANGED << content, data >>

(* A successful read returns every promised byte.                          *)
Read(first, n, d) ==
  /\ writing = << >>
  /\ serving => \A c \in DOMAIN d \cap DOMAIN content : d[c] = content[c]
  /\ data' = d
  /\ reply' = n
  /\ UNCHANGED << content, serving, writing >>

FailRead ==
  /\ writing = << >>
  /\ data' = << >>
  /\ reply' = -1
  /\ serving' = FALSE
  /\ UNCHANGED << content, writing >>

(* Opening and closing, well or not, lose nothing; nor does a reset, in    *)
(* the middle of a write too.                                              *)
OpenOrClose ==
  /\ writing = << >>
  /\ serving' \in BOOLEAN
  /\ reply' \in {0, -1}
  /\ UNCHANGED << content, writing, data >>

Reset ==
  /\ serving' = FALSE
  /\ writing' = << >> /\ data' = << >> /\ reply' = 0
  /\ UNCHANGED content

Next ==
  \/ \E r \in Ranges : \E d \in Buffers(r[1], r[2]) :
       BeginWrite(r[1], r[2], d) \/ Read(r[1], r[2], d)
  \/ Falter \/ EndWrite \/ FailWrite \/ FailRead
  \/ OpenOrClose \/ Reset

Spec == Init /\ [][Next]_storeVars

==============================================================================
