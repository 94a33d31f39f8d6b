--------------------------------- MODULE Wire ----------------------------------
(***************************************************************************)
(* resources/keets-sidecar/wire.js: the bytes of one service connection,    *)
(* from a dialer (messages.js: dialService) to an acceptor: the sidecar,    *)
(* which peeks (index.js), or a mailbox.                                    *)
(*                                                                         *)
(* The network cuts the bytes into chunks as it likes.  A byte is a cell:   *)
(* of the magic, of the length of a frame, or of its body.                  *)
(***************************************************************************)
EXTENDS Integers, SequencesExt

CONSTANTS
  MAGIC_LEN,   \* cells of the magic and the service byte: 5
  HEAD,        \* cells of a length: 4
  MAX_FRAME,   \* the longest body
  MaxFrames    \* bound: frames of a connection

ASSUME WireAssumption ==
  MAGIC_LEN \in Nat \ {0} /\ HEAD \in Nat \ {0} /\ MAX_FRAME \in Nat /\ MaxFrames \in Nat

VARIABLES
  acceptor,   \* "sidecar" or "mailbox"
  plan,       \* the lengths of the frames the dialer writes
  junk,       \* those whose body is no JSON
  pipe, fed,  \* cells under way; how many were handed to the acceptor
  acked,      \* the dialer has read the ack
  head, buf,  \* what the acceptor holds: of the magic, of a frame
  parsed,     \* the frames it has read
  wire        \* "magic", "frames" or "dead"

wireVars == <<acceptor, plan, junk, pipe, fed, acked, head, buf, parsed, wire>>

Magic == [i \in 1..MAGIC_LEN |-> "magic"]

\* writeFrame(): the length, and the body; a dialer is any program, and may write another body.
WriteFrame(n, body) == [i \in 1..(HEAD + n) |-> IF i <= HEAD THEN n ELSE body]
BodyOf(j) == IF j \in junk THEN "junk" ELSE "json"
FrameOf(j) == WriteFrame(plan[j], BodyOf(j))

\* Its first i frames.
Written(i) == FlattenSeq([j \in 1..i |-> FrameOf(j)])

WireTypeOK ==
  /\ acceptor \in {"sidecar", "mailbox"} /\ wire \in {"magic", "frames", "dead"}
  /\ acked \in BOOLEAN /\ fed \in Nat
  /\ wire = "frames" => head = <<>> /\ Len(buf) < HEAD + MAX_FRAME

\* The dialer writes the magic at once, and its frames when it has the ack.
WireInit ==
  /\ acceptor \in {"sidecar", "mailbox"}
  /\ plan \in UNION {[1..n -> 0..(MAX_FRAME + 1)] : n \in 0..MaxFrames}
  /\ junk \in SUBSET DOMAIN plan
  /\ pipe = Magic /\ fed = 0 /\ acked = FALSE
  /\ head = <<>> /\ buf = <<>> /\ parsed = <<>> /\ wire = "magic"

\* A frame that ends with what has come is left for the next chunk.
BadWhole(b, n) == Len(b) > HEAD + n

\* Is the frame there in whole?
Whole(b, n) == Len(b) >= HEAD + n

\* A body that ends in JSON will do.
BadParses(b, n) == n = 0 \/ b[HEAD + n] = "json"

\* JSON.parse() of the body: it throws for what is no JSON, the empty body too.
Parses(b, n) == n > 0 /\ \A i \in (HEAD + 1)..(HEAD + n) : b[i] = "json"

\* One pass of the loop of frameReader(), over what it has read, what is left, and whether it
\* threw; the frames that a feed() that throws has read go with it.
Pass(r) ==
  LET n == r.rest[1]
      thrown == [r EXCEPT !.out = <<>>, !.threw = TRUE]
  IN IF r.threw \/ Len(r.rest) < HEAD THEN r
     ELSE IF n > MAX_FRAME THEN thrown
     ELSE IF ~Whole(r.rest, n) THEN r
     ELSE IF ~Parses(r.rest, n) THEN thrown
     ELSE [r EXCEPT !.out = Append(@, n), !.rest = SubSeq(@, HEAD + n + 1, Len(@))]

\* frameReader(), fed with b: a pass takes a cell at least, or leaves all as it is.
Feed(b) ==
  LET after[i \in 0..Len(b)] ==
        IF i = 0 THEN [out |-> <<>>, rest |-> b, threw |-> FALSE] ELSE Pass(after[i - 1])
  IN after[Len(b)]

\* The bytes are read.
Reads(cells) ==
  LET r == Feed(buf \o cells)
  IN /\ buf' = r.rest /\ parsed' = parsed \o r.out
     /\ wire' = IF r.threw THEN "dead" ELSE "frames"

\* The sidecar takes nothing with the magic; a mailbox reads on.
Accepts(all) == acceptor = "mailbox" \/ Len(all) = MAGIC_LEN

\* The magic: peeked at by the sidecar, routed by the mailbox.
Routes(cells) ==
  LET all == head \o cells
  IN IF Len(all) < MAGIC_LEN
       THEN head' = all /\ UNCHANGED <<buf, parsed, wire>>
     ELSE IF Accepts(all)
       THEN head' = <<>> /\ Reads(SubSeq(all, MAGIC_LEN + 1, Len(all)))
     ELSE wire' = "dead" /\ head' = <<>> /\ UNCHANGED <<buf, parsed>>

\* 'data': the next k cells.
Arrives(k) ==
  /\ k \in 1..Len(pipe) /\ wire # "dead"
  /\ LET cells == SubSeq(pipe, 1, k) IN IF wire = "magic" THEN Routes(cells) ELSE Reads(cells) /\ UNCHANGED head
  /\ pipe' = SubSeq(pipe, k + 1, Len(pipe)) /\ fed' = fed + k
  /\ UNCHANGED <<acceptor, plan, junk, acked>>

\* It does not wait.
BadMayWrite == ~acked

\* dialService(): it resolves with the ack.
MayWrite == ~acked /\ wire = "frames"

Acked ==
  /\ MayWrite /\ acked' = TRUE /\ pipe' = pipe \o Written(Len(plan))
  /\ UNCHANGED <<acceptor, plan, junk, fed, head, buf, parsed, wire>>

WireNext == Acked \/ \E k \in 1..Len(pipe) : Arrives(k)

WireSpec == WireInit /\ [][WireNext]_wireVars

-----------------------------------------------------------------------------
\* The cells of the first i frames, with the magic.
CellsOf(i) == MAGIC_LEN + Len(Written(i))

\* What a program that keeps to the format writes: JSON, of a length the format allows.
Fits(i) == plan[i] \in 1..MAX_FRAME /\ i \notin junk
Legal == \A i \in DOMAIN plan : Fits(i)

\* wire.js:40-57: however the bytes are cut, and whatever a dialer writes in its frames, those
\* read are exactly those that have come in whole, in their order - nothing is held back,
\* nothing is split, and none that is too long or no JSON is among them.
FramesExact ==
  wire = "frames" => \E i \in 0..Len(plan) :
    /\ parsed = SubSeq(plan, 1, i) /\ CellsOf(i) <= fed
    /\ \A j \in 1..i : Fits(j)
    /\ i < Len(plan) => fed < CellsOf(i + 1)

\* index.js:263, messages.js:52-110: whichever the acceptor and however the bytes
\* are cut, a dialer whose frames are legal is not thrown out.
NeverCut == Legal => wire # "dead"
================================================================================
