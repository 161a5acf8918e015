----------------------------- MODULE HostProofs -----------------------------
(***************************************************************************)
(* Proofs about the hosts of emulators and DOOM.                           *)
(*                                                                         *)
(* GameHost: what reaches panel and speaker (ConsoleSafe), that the sound  *)
(* implements AudioChannel (QueuesSound), and that saves survive           *)
(* (SavesKept).  The invariant has a part per concern.  A step of the host *)
(* is first cut down to what it does to one of them (a step of the sound,  *)
(* of the picture, of the saves, of the hold, or none), so that the proof  *)
(* of each part has one case per step of that concern alone.               *)
(*                                                                         *)
(* DoomHost on Joypad: what cores and DOOM's engine are told of pads and   *)
(* keyboard (InputSafe), and that no step takes input from whom it belongs *)
(* to (SeatsServed).  At its heart is that an open pad is in step: what is *)
(* held, and what has been read of it, differ by just the events that are  *)
(* in the batch and in the queue, unless some are known to be lost.        *)
(***************************************************************************)
EXTENDS GameHost, DoomHost, FiniteSetTheorems, SequenceTheorems, TLAPS

-----------------------------------------------------------------------------
(* The invariant.                                                          *)

\* A ring that was opened, any value of shared, and the writer thread.
Rings ==
  [queue : [1..QUEUE_FRAMES -> Int], head : 0..(QUEUE_FRAMES - 1), size : 0..QUEUE_FRAMES, dropped : Nat,
   stopping : BOOLEAN, worker_failed : BOOLEAN]
Shareds ==
  [queue : {<<>>} \cup [1..QUEUE_FRAMES -> Int], head : 0..(QUEUE_FRAMES - 1), size : 0..QUEUE_FRAMES, dropped : Nat,
   stopping : BOOLEAN, worker_failed : BOOLEAN]
Writers == [pc : {"None", "Awake", "Asleep", "Writing", "Done"}, output : Seq(Int), started : BOOLEAN]

\* The writer writes while it has samples in hand; with no player there is no
\* writer, and a player has a ring.
RingTyped ==
  /\ shared \in Shareds /\ (shared.queue = <<>> => shared.head = 0 /\ shared.size = 0)
  /\ writer \in Writers /\ (writer.pc = "Writing" <=> writer.output # <<>>)
  /\ player \in {"None", "Open", "Closing"} /\ rate_remainder \in 0..(SourceRate - 1)
  /\ taken \in Nat /\ made \in Nat /\ heard \in Nat /\ gone \in Nat
  /\ player = "None" => writer = NoWriter
  /\ player # "None" => shared.queue # <<>>

\* Every sample is accounted for, at its rate.
RingInv == RingTyped /\ Accounted /\ RateKept

\* No sound was opened yet, or all of it has gone with its process.
AudioUntouched ==
  /\ shared = NoShared /\ player = "None" /\ rate_remainder = 0 /\ writer = NoWriter
  /\ taken = 0 /\ made = 0 /\ heard = 0 /\ gone = 0

\* What the panel shows is part of what the last picture is laid out to.
Picture ==
  /\ target \in {"Fb", "Lazy", "Widget", "Headless"} /\ drawn \in {"Drawn", "Shed", "Nothing"}
  /\ video_failed \in BOOLEAN /\ present_skip \in BOOLEAN
  /\ last_source \in Sizes \cup {NoPicture}
  /\ painted \subseteq compute_scaled_layout(last_source)

\* Where the host is and what the world has told it.
Life ==
  /\ scope \in Scopes
  /\ pc \in {"Off", "Head", "Ask", "Dormant", "Check", "SaveOpen", "SaveWrite", "SaveRename", "Pace", "Close", "Join",
             "Ended"}
  /\ why \in {"none", "refused", "signal", "video", "widget", "hold", "limit"}
  /\ active \in BOOLEAN /\ asked \in BOOLEAN /\ signalled \in BOOLEAN
  /\ behind \in 0..10 /\ frames \in 0..(SAVE_EVERY - 1) /\ crashes \in 0..MaxCrashes

\* The reports of the touchscreen.
Reports == {"In", "Out", "Up"}

\* The hold in hand and the finger; the last report says where the finger is.
Touched ==
  /\ exit_hold \in None..HOLD /\ held \in None..HOLD
  /\ finger \in Reports /\ reports \in Seq(Reports) /\ Len(reports) <= MaxReports
  /\ reports # <<>> => finger = reports[Len(reports)]
  /\ finger = "In" => held # None
  /\ long \in BOOLEAN /\ lost \in BOOLEAN
  /\ ~scope.hint => exit_hold = None

\* A hold in hand is the finger's own, as long as the finger has been inside,
\* unless a report that is not collected yet begins by ending it.
HoldFollows ==
  asked \/ lost \/ exit_hold = None \/
  IF reports = <<>> THEN finger = "In" /\ held >= exit_hold /\ (exit_hold >= HOLD => long)
  ELSE reports[1] # "In"

\* A reason to leave is a reason only of a host on its way out.
LeftOnce ==
  why = "none" \/ pc \in {"Close", "Join", "Ended"} \/ (pc \in {"SaveOpen", "SaveWrite", "SaveRename"} /\ final)

\* Which versions memory, disk and temporary files may hold.
SaveTyped ==
  /\ ram \in [Files -> 0..MaxVersion] /\ writable \in [Files -> BOOLEAN]
  /\ disk \in [Files -> Torn..MaxVersion] /\ temp \in [Files -> Torn..MaxVersion]
  /\ older \in [Files -> SUBSET (Torn..MaxVersion)]
  /\ saving \in {"none", "sram", "rtc"} /\ final \in BOOLEAN /\ complained \in BOOLEAN

\* The host is inside save_persistent_memory.
Saving == pc \in {"SaveOpen", "SaveWrite", "SaveRename"}

\* The strengthening of SaveKept: what may be written over is a save of this
\* game and not newer than its memory; a save passes the files in their order,
\* and only a whole temporary file is renamed.
SaveInv ==
  /\ SaveTyped /\ SaveWhole /\ EndSaved
  /\ \A f \in Files : writable[f] => disk[f] # Foreign /\ disk[f] <= ram[f]
  /\ pc = "Off" => ~final /\ \A f \in Files : ~writable[f]
  /\ Saving => ~complained /\ saving \in Files
  /\ Saving /\ saving = "rtc" /\ writable["sram"] => disk["sram"] = ram["sram"]
  /\ pc \in {"SaveWrite", "SaveRename"} => writable[saving]
  /\ pc = "SaveRename" => temp[saving] = ram[saving]

\* Without a game, or with none that plays sound, no sound was touched.
Quiet ==
  /\ pc = "Off" \/ Perilous => AudioUntouched
  /\ pc = "Join" => player # "Open"
  /\ SilentWhenDormant

-----------------------------------------------------------------------------
\* The constants that the proofs use, one by one.
LEMMA AudioConstants ==
  /\ QUEUE_FRAMES \in Nat \ {0} /\ WRITE_CHUNK_FRAMES \in Nat \ {0}
  /\ SourceRate \in Nat \ {0} /\ OutputRate \in Nat \ {0}
  /\ CUSHION_FRAMES \in 0..QUEUE_FRAMES
BY AudioAssumption

\* A remainder of what is less than twice the modulus is one subtraction.
LEMMA Wrap ==
  ASSUME NEW N \in Nat \ {0}, NEW a \in Int, 0 <= a, a < N + N
  PROVE  a % N = (IF a < N THEN a ELSE a - N) /\ a % N \in 0..(N - 1)
OBVIOUS

\* One step around a ring of N slots.
LEMMA Around ==
  ASSUME NEW N \in Nat \ {0}, NEW a \in 0..(N - 1), NEW b \in 0..N
  PROVE  (a + b) % N = (IF a + b < N THEN a + b ELSE a + b - N) /\ (a + b) % N \in 0..(N - 1)
<1> DEFINE c == a + b
<1>1. c \in Int /\ 0 <= c /\ c < N + N
  OBVIOUS
<1> HIDE DEF c
<1>2. c % N = (IF c < N THEN c ELSE c - N) /\ c % N \in 0..(N - 1)
  BY <1>1, Wrap
<1> QED BY <1>2 DEF c

\* The place of the i-th sample of a ring, and the slot of a place: how far it
\* is from the tail of a ring that holds size samples.
Place(head, i) == (head + (i - 1)) % QUEUE_FRAMES
SlotAt(head, size, p) == ((p - 1 - ((head + size) % QUEUE_FRAMES) + QUEUE_FRAMES) % QUEUE_FRAMES) + 1

\* A place is a slot, at most once around.
LEMMA PlaceIs ==
  ASSUME NEW head \in 0..(QUEUE_FRAMES - 1), NEW i \in 1..QUEUE_FRAMES
  PROVE  /\ Place(head, i) = IF head + (i - 1) < QUEUE_FRAMES THEN head + (i - 1) ELSE head + (i - 1) - QUEUE_FRAMES
         /\ Place(head, i) \in 0..(QUEUE_FRAMES - 1)
<1> DEFINE N == QUEUE_FRAMES
           j == i - 1
<1>1. N \in Nat \ {0} /\ j \in 0..N
  BY AudioConstants
<1> HIDE DEF j
<1>2. (head + j) % N = (IF head + j < N THEN head + j ELSE head + j - N) /\ (head + j) % N \in 0..(N - 1)
  BY <1>1, Around
<1> QED BY <1>2 DEF j, Place

\* A slot counts from the tail of the ring, once around.
LEMMA SlotIs ==
  ASSUME NEW head \in 0..(QUEUE_FRAMES - 1), NEW size \in 0..QUEUE_FRAMES, NEW p \in 1..QUEUE_FRAMES
  PROVE  /\ SlotAt(head, size, p) \in 1..QUEUE_FRAMES
         /\ \E tail \in 0..(QUEUE_FRAMES - 1) :
              /\ tail = IF head + size < QUEUE_FRAMES THEN head + size ELSE head + size - QUEUE_FRAMES
              /\ SlotAt(head, size, p) = IF p > tail THEN p - tail ELSE p - tail + QUEUE_FRAMES
<1> DEFINE N == QUEUE_FRAMES
           tail == (head + size) % N
           a == p - 1 - tail + N
<1>1. N \in Nat \ {0}
  BY AudioConstants
<1>2. tail = (IF head + size < N THEN head + size ELSE head + size - N) /\ tail \in 0..(N - 1)
  BY <1>1, Around
<1>3. SlotAt(head, size, p) = (a % N) + 1
  BY DEF SlotAt
<1> HIDE DEF tail
<1>4. a \in Int /\ 0 <= a /\ a < N + N /\ a = p - 1 - tail + N
  BY <1>1, <1>2
<1> HIDE DEF a
<1>5. a % N = (IF a < N THEN a ELSE a - N) /\ a % N \in 0..(N - 1)
  BY <1>1, <1>4, Wrap
<1>6. /\ SlotAt(head, size, p) \in 1..N
      /\ SlotAt(head, size, p) = IF p > tail THEN p - tail ELSE p - tail + N
  BY <1>1, <1>2, <1>3, <1>4, <1>5
<1> QED BY <1>2, <1>6

\* The i-th place is the slot of a sample that was put in, or beyond it.
LEMMA SlotOf ==
  ASSUME NEW head \in 0..(QUEUE_FRAMES - 1), NEW size \in 0..QUEUE_FRAMES, NEW i \in 1..QUEUE_FRAMES
  PROVE  SlotAt(head, size, Place(head, i) + 1) = IF i > size THEN i - size ELSE i - size + QUEUE_FRAMES
<1> DEFINE N == QUEUE_FRAMES
           m == Place(head, i)
           p == m + 1
<1>1. N \in Nat \ {0}
  BY AudioConstants
<1>2. m = (IF head + (i - 1) < N THEN head + (i - 1) ELSE head + (i - 1) - N) /\ m \in 0..(N - 1)
  BY PlaceIs
<1> HIDE DEF m
<1>3. p \in 1..N /\ p = m + 1
  BY <1>1, <1>2
<1> HIDE DEF p
<1>4. PICK tail \in 0..(N - 1) :
         /\ tail = IF head + size < N THEN head + size ELSE head + size - N
         /\ SlotAt(head, size, p) = IF p > tail THEN p - tail ELSE p - tail + N
  BY <1>3, SlotIs
<1>5. SlotAt(head, size, p) = IF i > size THEN i - size ELSE i - size + N
  BY <1>1, <1>2, <1>3, <1>4
<1> QED BY <1>5 DEF m, p

\* The places of a ring whose head has moved on.
LEMMA MovedOn ==
  ASSUME NEW h \in 0..(QUEUE_FRAMES - 1), NEW k \in 0..QUEUE_FRAMES, NEW i \in Nat \ {0}, i + k <= QUEUE_FRAMES
  PROVE  (h + k) % QUEUE_FRAMES \in 0..(QUEUE_FRAMES - 1) /\ Place((h + k) % QUEUE_FRAMES, i) = Place(h, i + k)
<1> DEFINE N == QUEUE_FRAMES
           head == (h + k) % N
           j == i + k
<1>1. N \in Nat \ {0}
  BY AudioConstants
<1>2. head = (IF h + k < N THEN h + k ELSE h + k - N) /\ head \in 0..(N - 1)
  BY <1>1, Around
<1> HIDE DEF head
<1>3. i \in 1..N /\ j \in 1..N /\ j = i + k
  BY <1>1
<1> HIDE DEF j
<1>4. Place(head, i) = IF head + (i - 1) < N THEN head + (i - 1) ELSE head + (i - 1) - N
  BY <1>2, <1>3, PlaceIs
<1>5. Place(h, j) = IF h + (j - 1) < N THEN h + (j - 1) ELSE h + (j - 1) - N
  BY <1>3, PlaceIs
<1>6. Place(head, i) = Place(h, j)
  BY <1>1, <1>2, <1>3, <1>4, <1>5
<1> QED BY <1>2, <1>6 DEF head, j

\* What a ring holds is what is in its places.
LEMMA ContentsAre ==
  ASSUME NEW sh \in Rings
  PROVE  /\ Contents(sh) \in Seq(Int) /\ Len(Contents(sh)) = sh.size
         /\ \A i \in 1..sh.size : Contents(sh)[i] = sh.queue[Place(sh.head, i) + 1]
<1> DEFINE N == QUEUE_FRAMES
           h == sh.head
           z == sh.size
           q == sh.queue
<1>1. N \in Nat \ {0} /\ h \in 0..(N - 1) /\ z \in 0..N /\ q \in [1..N -> Int]
  BY AudioConstants DEF Rings
<1>2. Contents(sh) = [i \in 1..z |-> q[((h + (i - 1)) % Len(q)) + 1]]
  BY DEF Contents, At
<1> HIDE DEF h, z, q
<1>3. Len(q) = N
  BY <1>1
<1>4. ASSUME NEW i \in 1..z PROVE q[Place(h, i) + 1] \in Int
  <2>1. i \in 1..N
    BY <1>1
  <2>2. Place(h, i) \in 0..(N - 1)
    BY <1>1, <2>1, PlaceIs
  <2>3. Place(h, i) + 1 \in 1..N
    BY <1>1, <2>2
  <2> QED BY <1>1, <2>3
<1> DEFINE c == [i \in 1..z |-> q[Place(h, i) + 1]]
<1>5. c \in Seq(Int) /\ Len(c) = z /\ \A i \in 1..z : c[i] = q[Place(h, i) + 1]
  BY <1>1, <1>4
<1>6. Contents(sh) = c
  BY <1>2, <1>3 DEF Place
<1> QED BY <1>5, <1>6 DEF h, z, q

\* An empty ring holds nothing.
LEMMA NoContents == ASSUME NEW sh, sh.size = 0 PROVE Contents(sh) = <<>>
BY DEF Contents

\* What a ring holds depends on its queue, its head and its size alone.
LEMMA SameContents ==
  ASSUME NEW sh, NEW sk, sh.queue = sk.queue, sh.head = sk.head, sh.size = sk.size
  PROVE  Contents(sh) = Contents(sk)
BY DEF Contents, At

\* The slots of a ring after a source was put in behind size samples.
Poured(q, head, size, source) ==
  [p \in 1..QUEUE_FRAMES |-> IF SlotAt(head, size, p) <= Len(source) THEN source[SlotAt(head, size, p)] ELSE q[p]]

\* Pouring fills the places behind the samples that are there, and no other.
LEMMA PouredIs ==
  ASSUME NEW q \in [1..QUEUE_FRAMES -> Int], NEW head \in 0..(QUEUE_FRAMES - 1), NEW size \in 0..QUEUE_FRAMES,
         NEW source \in Seq(Int), size + Len(source) <= QUEUE_FRAMES
  PROVE  /\ Poured(q, head, size, source) \in [1..QUEUE_FRAMES -> Int]
         /\ \A i \in 1..(size + Len(source)) :
              Poured(q, head, size, source)[Place(head, i) + 1]
                = IF i > size THEN source[i - size] ELSE q[Place(head, i) + 1]
<1> DEFINE N == QUEUE_FRAMES
           Slot(p) == SlotAt(head, size, p)
           n == Len(source)
           new == Poured(q, head, size, source)
<1>1. N \in Nat \ {0} /\ n \in Nat
  BY AudioConstants
<1>2. \A p \in 1..N : Slot(p) \in 1..N
  BY SlotIs
<1>3. ASSUME NEW i \in 1..(size + n)
      PROVE  Place(head, i) + 1 \in 1..N /\ Slot(Place(head, i) + 1) = IF i > size THEN i - size ELSE i - size + N
  <2>1. i \in 1..N
    BY <1>1
  <2>2. Place(head, i) \in 0..(N - 1)
    BY <2>1, PlaceIs
  <2>3. Place(head, i) + 1 \in 1..N
    BY <1>1, <2>2
  <2>4. Slot(Place(head, i) + 1) = IF i > size THEN i - size ELSE i - size + N
    BY <2>1, SlotOf
  <2> QED BY <2>3, <2>4
<1>4. new = [p \in 1..N |-> IF Slot(p) <= n THEN source[Slot(p)] ELSE q[p]]
  BY DEF Poured
<1> HIDE DEF new, Slot
<1>5. new \in [1..N -> Int]
  <2>1. ASSUME NEW p \in 1..N PROVE (IF Slot(p) <= n THEN source[Slot(p)] ELSE q[p]) \in Int
    <3>1. CASE Slot(p) <= n
      <4>1. Slot(p) \in 1..n
        BY <1>1, <1>2, <3>1
      <4> QED BY <3>1, <4>1
    <3>2. CASE ~(Slot(p) <= n)
      BY <3>2
    <3> QED BY <3>1, <3>2
  <2> QED BY <1>4, <2>1
<1>6. ASSUME NEW i \in 1..(size + n)
      PROVE  new[Place(head, i) + 1] = IF i > size THEN source[i - size] ELSE q[Place(head, i) + 1]
  <2> DEFINE k == Place(head, i) + 1
  <2>1. k \in 1..N /\ Slot(k) = IF i > size THEN i - size ELSE i - size + N
    BY <1>3
  <2> HIDE DEF k
  <2>2. new[k] = IF Slot(k) <= n THEN source[Slot(k)] ELSE q[k]
    BY <1>4, <2>1
  <2>3. CASE i > size
    <3>1. Slot(k) = i - size /\ i - size <= n
      BY <1>1, <2>1, <2>3
    <3> QED BY <2>2, <2>3, <3>1 DEF k
  <2>4. CASE ~(i > size)
    <3>1. Slot(k) = i - size + N /\ ~(i - size + N <= n)
      BY <1>1, <2>1, <2>4
    <3> QED BY <2>2, <2>4, <3>1 DEF k
  <2> QED BY <2>3, <2>4
<1> QED BY <1>5, <1>6 DEF new

\* Part of a sequence.
LEMMA Slice ==
  ASSUME NEW s \in Seq(Int), NEW m \in Nat, NEW n \in Nat, m <= n, n <= Len(s)
  PROVE  /\ SubSeq(s, m + 1, n) \in Seq(Int) /\ Len(SubSeq(s, m + 1, n)) = n - m
         /\ \A i \in 1..(n - m) : SubSeq(s, m + 1, n)[i] = s[m + i]
<1> DEFINE k == m + 1
<1>1. k \in Int /\ k = m + 1
  OBVIOUS
<1> HIDE DEF k
<1>2. \A i \in k..n : s[i] \in Int
  BY <1>1
<1>3. /\ SubSeq(s, k, n) \in Seq(Int)
      /\ Len(SubSeq(s, k, n)) = IF k <= n THEN n - k + 1 ELSE 0
      /\ \A i \in 1..(n - k + 1) : SubSeq(s, k, n)[i] = s[k + i - 1]
  BY <1>1, <1>2, SubSeqProperties
<1> DEFINE w == SubSeq(s, k, n)
<1> HIDE DEF w
<1>4. w \in Seq(Int) /\ Len(w) = n - m /\ \A i \in 1..(n - m) : w[i] = s[m + i]
  <2>1. n - k + 1 = n - m /\ (k <= n \/ n - m = 0)
    BY <1>1
  <2>2. ASSUME NEW i \in 1..(n - m) PROVE w[i] = s[m + i]
    <3>1. k + i - 1 = m + i
      BY <1>1
    <3> QED BY <1>3, <2>1, <3>1 DEF w
  <2> QED BY <1>3, <2>1, <2>2 DEF w
<1> QED BY <1>1, <1>4 DEF w

\* What is left of two sequences, one behind the other, without its first k.
LEMMA Joint ==
  ASSUME NEW s \in Seq(Int), NEW t \in Seq(Int), NEW k \in Nat, k <= Len(s) + Len(t)
  PROVE  LET w == SubSeq(s \o t, k + 1, Len(s) + Len(t))
         IN /\ w \in Seq(Int) /\ Len(w) = Len(s) + Len(t) - k
            /\ \A i \in 1..(Len(s) + Len(t) - k) : w[i] = IF i + k <= Len(s) THEN s[i + k] ELSE t[i + k - Len(s)]
<1> DEFINE all == s \o t
           n == Len(s) + Len(t)
           w == SubSeq(s \o t, k + 1, n)
<1>1. /\ all \in Seq(Int) /\ Len(all) = n /\ n \in Nat
      /\ \A i \in 1..n : all[i] = IF i <= Len(s) THEN s[i] ELSE t[i - Len(s)]
  BY ConcatProperties
<1>2. k <= n /\ w = SubSeq(all, k + 1, n)
  OBVIOUS
<1> HIDE DEF all, n, w
<1>3. /\ w \in Seq(Int) /\ Len(w) = n - k
      /\ \A i \in 1..(n - k) : w[i] = all[k + i]
  <2>1. k <= n /\ n <= Len(all)
    BY <1>1, <1>2
  <2>2. /\ SubSeq(all, k + 1, n) \in Seq(Int) /\ Len(SubSeq(all, k + 1, n)) = n - k
        /\ \A i \in 1..(n - k) : SubSeq(all, k + 1, n)[i] = all[k + i]
    BY <1>1, <2>1, Slice
  <2> QED BY <1>2, <2>2
<1>4. ASSUME NEW i \in 1..(n - k) PROVE w[i] = IF i + k <= Len(s) THEN s[i + k] ELSE t[i + k - Len(s)]
  <2> DEFINE j == k + i
  <2>1. j \in 1..n /\ j = i + k
    BY <1>1, <1>2
  <2>2. w[i] = all[j]
    BY <1>3
  <2> HIDE DEF j
  <2>3. w[i] = IF j <= Len(s) THEN s[j] ELSE t[j - Len(s)]
    BY <1>1, <2>1, <2>2
  <2>4. Len(s) \in Nat
    OBVIOUS
  <2>5. CASE j <= Len(s)
    BY <2>1, <2>3, <2>4, <2>5
  <2>6. CASE ~(j <= Len(s))
    <3>1. j - Len(s) = i + k - Len(s)
      BY <2>1, <2>4
    <3> QED BY <2>1, <2>3, <2>6, <3>1
  <2> QED BY <2>5, <2>6
<1> QED BY <1>3, <1>4 DEF n, w

\* Of n samples all but the early ones are put into a ring that holds old;
\* it forgets as many as are short.
Pouring(q, h, z, old, samples, n, early, short) ==
  /\ q \in [1..QUEUE_FRAMES -> Int] /\ h \in 0..(QUEUE_FRAMES - 1) /\ z \in 0..QUEUE_FRAMES
  /\ old \in Seq(Int) /\ Len(old) = z /\ \A i \in 1..z : old[i] = q[Place(h, i) + 1]
  /\ samples \in Seq(Int) /\ n \in Nat /\ Len(samples) = n
  /\ early \in Nat /\ early <= n /\ short \in Nat /\ short <= z
  /\ z - short = 0 \/ early = 0
  /\ z - short + (n - early) <= QUEUE_FRAMES

\* Then those that are kept are in the first places, and those that are put in
\* behind them.
PouredBehind(q, h, z, old, samples, n, early, short) ==
  LET head == (h + short) % QUEUE_FRAMES
      size == z - short
      source == SubSeq(samples, early + 1, n)
      kept == SubSeq(old \o samples, early + short + 1, z + n)
      over == early + short
  IN /\ head \in 0..(QUEUE_FRAMES - 1) /\ Len(source) = n - early
     /\ Poured(q, head, size, source) \in [1..QUEUE_FRAMES -> Int]
     /\ kept \in Seq(Int) /\ Len(kept) = z + n - over
     /\ \A i \in 1..(z + n - over) : kept[i] = Poured(q, head, size, source)[Place(head, i) + 1]

\* The slots of PouredBehind are those of a ring that forgot and was poured into.
LEMMA PourKeeps ==
  ASSUME NEW q, NEW h, NEW z, NEW old, NEW samples, NEW n, NEW early, NEW short,
         Pouring(q, h, z, old, samples, n, early, short)
  PROVE  PouredBehind(q, h, z, old, samples, n, early, short)
<1> DEFINE N == QUEUE_FRAMES
           over == early + short
           last == z + n - over
           head == (h + short) % N
           size == z - short
           source == SubSeq(samples, early + 1, n)
           kept == SubSeq(old \o samples, over + 1, z + n)
<1> USE DEF Pouring
<1>1. N \in Nat \ {0} /\ z \in Nat /\ size \in Nat /\ size \in 0..N /\ over \in Nat /\ last \in Nat /\ over <= z + n
      /\ size = z - short /\ over = early + short /\ last = z + n - over /\ last = size + (n - early)
  BY AudioConstants
<1>2. /\ source \in Seq(Int) /\ Len(source) = n - early
      /\ \A i \in 1..(n - early) : source[i] = samples[early + i]
  <2>1. n <= Len(samples)
    OBVIOUS
  <2> QED BY <2>1, Slice
<1> HIDE DEF source
<1>3. /\ kept \in Seq(Int) /\ Len(kept) = last
      /\ \A i \in 1..last : kept[i] = IF i + over <= z THEN old[i + over] ELSE samples[i + over - z]
  <2> HIDE DEF over
  <2>1. over \in Nat /\ over <= Len(old) + Len(samples)
    BY <1>1
  <2>2. LET w == SubSeq(old \o samples, over + 1, Len(old) + Len(samples))
        IN /\ w \in Seq(Int) /\ Len(w) = Len(old) + Len(samples) - over
           /\ \A i \in 1..(Len(old) + Len(samples) - over) :
                w[i] = IF i + over <= Len(old) THEN old[i + over] ELSE samples[i + over - Len(old)]
    BY <2>1, Joint
  <2> QED BY <2>2
<1> HIDE DEF kept, last, over, size
<1>4. head \in 0..(N - 1)
  <2>1. short \in 0..N
    BY <1>1
  <2> QED BY <1>1, <2>1, Around
<1>8. \A i \in Nat \ {0} : i + short <= N => Place(head, i) = Place(h, i + short)
  <2>1. short \in 0..N
    BY <1>1
  <2> QED BY <2>1, MovedOn
<1> HIDE DEF head
<1> DEFINE new == Poured(q, head, size, source)
<1>5. /\ new \in [1..N -> Int]
      /\ \A i \in 1..(size + Len(source)) :
           new[Place(head, i) + 1] = IF i > size THEN source[i - size] ELSE q[Place(head, i) + 1]
  <2>1. size + Len(source) <= N /\ size \in 0..N /\ source \in Seq(Int)
    BY <1>1, <1>2
  <2> QED BY <1>4, <2>1, PouredIs
<1> HIDE DEF new
<1>6. ASSUME NEW i \in 1..last PROVE kept[i] = new[Place(head, i) + 1]
  <2>1. i \in 1..(size + Len(source))
    BY <1>1, <1>2
  <2>2. new[Place(head, i) + 1] = IF i > size THEN source[i - size] ELSE q[Place(head, i) + 1]
    BY <1>5, <2>1
  <2>3. kept[i] = IF i + over <= z THEN old[i + over] ELSE samples[i + over - z]
    BY <1>3
  <2>4. CASE i > size
    <3> DEFINE j == i - size
    <3>0. Len(source) = n - early /\ i \in Int
      BY <1>2
    <3>1. j \in 1..(n - early) /\ early + j = i + over - z /\ ~(i + over <= z)
      BY <1>1, <2>1, <2>4, <3>0
    <3> HIDE DEF j
    <3>2. source[j] = samples[early + j]
      BY <1>2, <3>1
    <3> QED BY <2>2, <2>3, <2>4, <3>1, <3>2 DEF j
  <2>5. CASE ~(i > size)
    <3> DEFINE j == i + short
    <3>1. i + over <= z /\ over = short /\ j \in 1..z /\ i + over = j /\ i \in Nat \ {0} /\ j <= N /\ short \in 0..N
      BY <1>1, <2>5
    <3>2. Place(head, i) = Place(h, j)
      BY <1>8, <3>1
    <3> HIDE DEF j
    <3>3. old[j] = q[Place(h, j) + 1]
      BY <3>1
    <3> QED BY <2>2, <2>3, <2>5, <3>1, <3>2, <3>3
  <2> QED BY <2>4, <2>5
<1> QED BY <1>2, <1>3, <1>4, <1>5, <1>6 DEF PouredBehind, new, last, kept, over, size, source, head

\* Putting samples into a ring: it forgets its oldest ones, and counts them.
LEMMA PutIs ==
  ASSUME NEW sh \in Rings, NEW samples \in Seq(Int)
  PROVE  LET over == Over(sh.size + Len(samples), QUEUE_FRAMES)
             new == Put(sh, samples)
         IN /\ new \in Rings /\ over \in Nat
            /\ new.size + over = sh.size + Len(samples) /\ new.dropped = sh.dropped + over
            /\ new.stopping = sh.stopping /\ new.worker_failed = sh.worker_failed
            /\ Contents(new) = SubSeq(Contents(sh) \o samples, over + 1, sh.size + Len(samples))
<1> DEFINE N == QUEUE_FRAMES
           q == sh.queue
           h == sh.head
           z == sh.size
           d == sh.dropped
           n == Len(samples)
           early == Over(n, N)
           source == SubSeq(samples, early + 1, n)
           short == Over(Len(source), N - z)
           over == Over(z + n, N)
           head == (h + short) % N
           size == z - short
           poured == Poured(q, head, size, source)
           new == Put(sh, samples)
           old == Contents(sh)
           kept == SubSeq(old \o samples, early + short + 1, z + n)
           c == Contents(new)
<1>1. /\ N \in Nat \ {0} /\ h \in 0..(N - 1) /\ z \in 0..N /\ q \in [1..N -> Int] /\ d \in Nat
      /\ n \in Nat /\ n = Len(samples) /\ Len(q) = N
  BY AudioConstants DEF Rings
<1>2. new = [sh EXCEPT !.queue = poured, !.head = head, !.size = size + Len(source), !.dropped = @ + (early + short)]
  BY <1>1 DEF Put, HeadMoved, Discarded, Poured, SlotAt
<1>3. old \in Seq(Int) /\ Len(old) = z /\ \A i \in 1..z : old[i] = q[Place(h, i) + 1]
  BY ContentsAre
<1> HIDE DEF new, q, h, z, d, n, old, early
<1>4. early \in Nat /\ early <= n /\ early = Over(n, N)
  BY <1>1 DEF Over, early
<1>5. Len(source) = n - early
  <2>1. n <= Len(samples)
    BY <1>1
  <2> QED BY <1>1, <1>4, <2>1, Slice
<1> HIDE DEF source
<1>6. short \in Int /\ short = Over(n - early, N - z) /\ over \in Int /\ over = Over(z + n, N)
  BY <1>1, <1>4, <1>5 DEF Over
<1> HIDE DEF short, over
<1>7. /\ early <= n /\ n - early <= N
      /\ 0 <= short /\ short <= z /\ over = early + short /\ over <= z + n
      /\ z - short + (n - early) = z + n - over /\ z + n - over <= N
      /\ z - short = 0 \/ early = 0
  <2>1. z \in Int /\ n \in Int /\ early \in Int /\ short \in Int /\ over \in Int /\ N \in Int /\ 0 <= z /\ z <= N /\ n >= 0
    BY <1>1, <1>4, <1>6
  <2>2. early = IF n > N THEN n - N ELSE 0
    BY <1>4 DEF Over
  <2>3. short = IF n - early > N - z THEN n - early - (N - z) ELSE 0
    BY <1>6 DEF Over
  <2>4. over = IF z + n > N THEN z + n - N ELSE 0
    BY <1>6, <2>1 DEF Over
  <2> QED BY <2>1, <2>2, <2>3, <2>4
<1>0. z \in Int /\ n \in Int /\ early \in Int /\ short \in Int /\ over \in Int /\ N \in Int /\ d \in Int /\ n >= 0 /\ d >= 0 /\ early >= 0
  BY <1>1, <1>4, <1>6
<1>8. /\ short \in Nat /\ z - short + (n - early) <= N /\ over \in Nat
      /\ size + Len(source) = z + n - over /\ size + Len(source) \in 0..N
  BY <1>0, <1>5, <1>7
<1>9. /\ head \in 0..(N - 1) /\ poured \in [1..N -> Int]
      /\ kept \in Seq(Int) /\ Len(kept) = z + n - (early + short)
      /\ \A i \in 1..(z + n - (early + short)) : kept[i] = poured[Place(head, i) + 1]
  <2>1. Len(samples) = n
    BY <1>1
  <2>2. z - short = 0 \/ early = 0
    BY <1>7
  <2>3. early <= n /\ short <= z
    BY <1>7
  <2>4. /\ h \in 0..(N - 1) /\ z \in 0..N /\ n \in Nat
    BY <1>1
  <2>8. early \in Nat /\ short \in Nat /\ z - short + (n - early) <= N
    BY <1>4, <1>8
  <2>5. q \in [1..N -> Int] /\ samples \in Seq(Int) /\ old \in Seq(Int) /\ Len(old) = z
    BY <1>1, <1>3
  <2>6. \A i \in 1..z : old[i] = q[Place(h, i) + 1]
    BY <1>3
  <2>7. Pouring(q, h, z, old, samples, n, early, short)
    BY <2>1, <2>2, <2>3, <2>4, <2>5, <2>6, <2>8 DEF Pouring
  <2>9. PouredBehind(q, h, z, old, samples, n, early, short)
    BY <2>7, PourKeeps
  <2> QED BY <2>9, Zenon DEF PouredBehind, source
<1> HIDE DEF head, poured, kept, size
<1>10. d + (early + short) = d + over /\ d + over \in Nat /\ early + short = over
  BY <1>0, <1>7, <1>8
<1>11. /\ new \in Rings
       /\ new.queue = poured /\ new.head = head /\ new.size = z + n - over /\ new.dropped = d + over
       /\ new.stopping = sh.stopping /\ new.worker_failed = sh.worker_failed
  BY <1>2, <1>8, <1>9, <1>10 DEF Rings, d
<1>12. c \in Seq(Int) /\ Len(c) = z + n - over /\ \A i \in 1..(z + n - over) : c[i] = poured[Place(head, i) + 1]
  BY <1>11, ContentsAre
<1> HIDE DEF c
<1>13. c = kept
  <2> DEFINE last == z + n - over
  <2>1. last \in Nat
    BY <1>1, <1>7, <1>8
  <2>2. Len(c) = last /\ Len(kept) = last /\ \A i \in 1..last : c[i] = kept[i]
    BY <1>9, <1>10, <1>12
  <2> HIDE DEF last
  <2>3. \A i \in 1..Len(c) : c[i] = kept[i]
    BY <2>2
  <2> QED BY <1>9, <1>12, <2>2, <2>3, SeqEqual
<1>14. new.size + over = z + n
  BY <1>1, <1>8, <1>11
<1>15. kept = SubSeq(old \o samples, over + 1, z + n)
  BY <1>10 DEF kept
<1> QED BY <1>8, <1>11, <1>13, <1>14, <1>15 DEF new, n, z, d, c, old, over

\* Taking the oldest samples out.
LEMMA TakeIs ==
  ASSUME NEW sh \in Rings, NEW count \in Nat, count <= sh.size
  PROVE  LET new == [sh EXCEPT !.head = (@ + count) % Len(sh.queue), !.size = @ - count]
         IN /\ new \in Rings /\ new.size = sh.size - count
            /\ Contents(new) = SubSeq(Contents(sh), count + 1, sh.size)
<1> DEFINE N == QUEUE_FRAMES
           q == sh.queue
           h == sh.head
           z == sh.size
           new == [sh EXCEPT !.head = (@ + count) % Len(sh.queue), !.size = @ - count]
           head == (h + count) % N
           old == Contents(sh)
           kept == SubSeq(old, count + 1, z)
           c == Contents(new)
<1>1. N \in Nat \ {0} /\ h \in 0..(N - 1) /\ z \in 0..N /\ count \in 0..N /\ q \in [1..N -> Int] /\ Len(q) = N /\ count <= z
  BY AudioConstants DEF Rings
<1>2. head \in 0..(N - 1)
  BY <1>1, Around
<1>3. \A i \in 1..(z - count) : Place(head, i) = Place(h, i + count)
  <2>1. ASSUME NEW i \in 1..(z - count) PROVE Place(head, i) = Place(h, i + count)
    <3>1. i \in Nat \ {0} /\ i + count <= N
      BY <1>1
    <3> QED BY <1>1, <3>1, MovedOn
  <2> QED BY <2>1
<1>4. old \in Seq(Int) /\ Len(old) = z /\ \A i \in 1..z : old[i] = q[Place(h, i) + 1]
  BY ContentsAre
<1>5. new = [sh EXCEPT !.head = head, !.size = z - count]
  BY <1>1
<1> HIDE DEF new, q, h, z, old, head
<1>6. z - count \in 0..N
  BY <1>1
<1>7. new \in Rings /\ new.queue = q /\ new.head = head /\ new.size = z - count
  BY <1>2, <1>5, <1>6 DEF Rings, q
<1>8. c \in Seq(Int) /\ Len(c) = z - count /\ \A i \in 1..(z - count) : c[i] = q[Place(head, i) + 1]
  BY <1>7, ContentsAre
<1>9. kept \in Seq(Int) /\ Len(kept) = z - count /\ \A i \in 1..(z - count) : kept[i] = old[count + i]
  <2>1. z \in Nat /\ z <= Len(old)
    BY <1>1, <1>4
  <2> QED BY <1>1, <1>4, <2>1, Slice
<1> HIDE DEF c, kept
<1>10. ASSUME NEW i \in 1..Len(c) PROVE c[i] = kept[i]
  <2> DEFINE j == i + count
  <2>1. i \in 1..(z - count) /\ j \in 1..z /\ count + i = j
    BY <1>1, <1>8
  <2>2. Place(head, i) = Place(h, j)
    BY <1>3, <2>1
  <2> HIDE DEF j
  <2>3. old[j] = q[Place(h, j) + 1]
    BY <1>4, <2>1
  <2> QED BY <1>8, <1>9, <2>1, <2>2, <2>3
<1>11. c = kept
  BY <1>8, <1>9, <1>10, SeqEqual
<1> QED BY <1>7, <1>11 DEF new, z, c, kept, old

-----------------------------------------------------------------------------
\* The steps of the sound.
AudioStep ==
  \/ UNCHANGED audioVars
  \/ \E n \in Nat : write_stereo(n)
  \/ discard_pending
  \/ AudioUntouched /\ open
  \/ BeginClose
  \/ player # "Open" /\ EndClose
  \/ Look \/ Write \/ TriggerFails \/ WriteFails

\* A product with a negative factor is at least one factor down.
LEMMA Multiples ==
  ASSUME NEW s \in Nat \ {0}, NEW d \in Int
  PROVE  d <= -1 => s * d <= -s
<1>1. CASE d <= -1
  BY <1>1
<1>2. CASE ~(d <= -1)
  BY <1>2
<1> QED BY <1>1, <1>2

\* Quotient and remainder.
LEMMA Division ==
  ASSUME NEW a \in Nat, NEW s \in Nat \ {0}
  PROVE  a \div s \in Nat /\ a % s \in 0..(s-1) /\ a = s * (a \div s) + (a % s)
<1> DEFINE q == a \div s
           m == a % s
<1>1. q \in Int
  OBVIOUS
<1>2. m \in 0..(s-1)
  OBVIOUS
<1>3. a = s * q + m
  OBVIOUS
<1> HIDE DEF q, m
<1>4. q >= 0
  BY <1>1, <1>2, <1>3, Multiples
<1> QED BY <1>1, <1>2, <1>3, <1>4 DEF q, m

\* A block of frames makes whole samples and carries the rest.
LEMMA ResampledIs ==
  ASSUME NEW n \in Nat, rate_remainder \in 0..(SourceRate - 1)
  PROVE  \E a \in Nat, b \in 0..(SourceRate - 1) :
           /\ Resampled(n) = <<a, b>>
           /\ SourceRate # OutputRate => a * SourceRate + b = n * OutputRate + rate_remainder
<1>1. SourceRate \in Nat \ {0} /\ OutputRate \in Nat \ {0}
  BY AudioConstants
<1>2. CASE SourceRate = OutputRate
  <2>1. Resampled(n) = <<n, rate_remainder>>
    BY <1>2 DEF Resampled
  <2> QED BY <1>2, <2>1
<1>3. CASE SourceRate # OutputRate
  <2> DEFINE scaled == n * OutputRate + rate_remainder
             a == scaled \div SourceRate
             b == scaled % SourceRate
  <2>1. scaled \in Nat
    BY <1>1
  <2>2. Resampled(n) = <<a, b>>
    BY <1>3 DEF Resampled
  <2> HIDE DEF scaled
  <2>3. a \in Nat /\ b \in 0..(SourceRate - 1) /\ scaled = SourceRate * a + b
    BY <1>1, <2>1, Division
  <2> HIDE DEF a, b
  <2>4. a * SourceRate + b = n * OutputRate + rate_remainder
    BY <1>1, <2>3 DEF scaled
  <2> QED BY <2>2, <2>3, <2>4
<1> QED BY <1>2, <1>3

\* The rates agree over the blocks.
LEMMA Carried ==
  ASSUME NEW s \in Int, NEW o \in Int, NEW m \in Int, NEW t \in Int, NEW a \in Int, NEW b \in Int, NEW n \in Int,
         NEW r \in Int, m * s + r = t * o, a * s + b = n * o + r
  PROVE  (m + a) * s + b = (t + n) * o
<1>1. (m + a) * s = m * s + a * s /\ (t + n) * o = t * o + n * o
  OBVIOUS
<1>2. m * s \in Int /\ a * s \in Int /\ t * o \in Int /\ n * o \in Int
  OBVIOUS
<1> QED BY <1>1, <1>2

\* What is counted are integers.
LEMMA Counts ==
  ASSUME RingTyped
  PROVE  /\ shared.size \in Int /\ shared.dropped \in Int /\ Len(writer.output) \in Int
         /\ made \in Int /\ heard \in Int /\ gone \in Int /\ CUSHION_FRAMES \in Int
<1>1. shared.size \in Int /\ shared.dropped \in Int /\ made \in Int /\ heard \in Int /\ gone \in Int
  BY DEF RingTyped, Shareds
<1>2. Len(writer.output) \in Int
  BY DEF RingTyped, Writers
<1> QED BY <1>1, <1>2, AudioConstants

\* A shared record that was opened is a ring.
LEMMA SharedRings == ASSUME RingTyped, shared.queue # <<>> PROVE shared \in Rings
BY DEF RingTyped, Shareds, Rings

\* write_stereo: samples are made, put in, and counted once.
LEMMA WriteStereoKeeps == ASSUME RingInv, NEW n \in Nat, write_stereo(n) PROVE RingInv'
<1> USE DEF RingInv
<1>1. CASE player # "Open" \/ n = 0
  BY <1>1 DEF write_stereo, audioVars, RingTyped, Accounted, RateKept
<1>2. CASE ~(player # "Open" \/ n = 0)
  <2>1. PICK a \in Nat, b \in 0..(SourceRate - 1) :
          /\ Resampled(n) = <<a, b>>
          /\ SourceRate # OutputRate => a * SourceRate + b = n * OutputRate + rate_remainder
    BY ResampledIs DEF RingTyped
  <2> DEFINE samples == [i \in 1..a |-> made + i]
  <2>2. /\ taken' = taken + n /\ made' = made + a /\ rate_remainder' = b /\ UNCHANGED <<player, heard>>
        /\ IF a = 0 THEN UNCHANGED <<shared, writer, gone>> ELSE enqueue(samples)
    BY <1>2, <2>1 DEF write_stereo
  <2>3. samples \in Seq(Int) /\ Len(samples) = a
    BY DEF RingTyped
  <2> HIDE DEF samples
  <2>4. taken' \in Nat /\ made' \in Nat
    BY <2>2 DEF RingTyped
  <2>5. RateKept'
    <3>1. SourceRate \in Nat /\ OutputRate \in Nat /\ taken \in Nat /\ made \in Nat
      BY AudioConstants DEF RingTyped
    <3>2. SourceRate \in Int /\ OutputRate \in Int /\ taken \in Int /\ made \in Int /\ rate_remainder \in Int
      BY <3>1 DEF RingTyped
    <3>3. CASE SourceRate # OutputRate
      <4>1. made * SourceRate + rate_remainder = taken * OutputRate
        BY <3>3 DEF RateKept
      <4>2. (made + a) * SourceRate + b = (taken + n) * OutputRate
        BY <2>1, <3>2, <3>3, <4>1, Carried
      <4> QED BY <2>2, <4>2 DEF RateKept
    <3> QED BY <3>3 DEF RateKept
  <2>6. shared.queue # <<>> /\ shared \in Rings
    BY <1>2, SharedRings DEF RingTyped
  <2>7. CASE a = 0 \/ shared.stopping \/ shared.worker_failed
    <3>1. UNCHANGED <<shared, writer>> /\ gone' = gone + a
      BY <2>2, <2>3, <2>7 DEF enqueue, RingTyped
    <3>2. RingTyped'
      BY <2>2, <2>4, <3>1 DEF RingTyped
    <3>3. Accounted'
      <4>1. made + CUSHION_FRAMES = heard + Len(writer.output) + shared.size + shared.dropped + gone
        BY <2>6 DEF Accounted
      <4>2. made' = made + a /\ heard' = heard /\ gone' = gone + a /\ Len(writer'.output) = Len(writer.output)
            /\ shared'.size = shared.size /\ shared'.dropped = shared.dropped
        BY <2>2, <3>1
      <4>3. made' + CUSHION_FRAMES = heard' + Len(writer'.output) + shared'.size + shared'.dropped + gone'
        <5> DEFINE l == Len(writer.output)
                   z == shared.size
                   d == shared.dropped
        <5>1. l \in Int /\ z \in Int /\ d \in Int /\ made \in Int /\ heard \in Int /\ gone \in Int /\ CUSHION_FRAMES \in Int
          BY Counts
        <5>2. made + CUSHION_FRAMES = heard + l + z + d + gone
          BY <4>1
        <5> HIDE DEF l, z, d
        <5>3. made + a + CUSHION_FRAMES = heard + l + z + d + (gone + a)
          BY <5>1, <5>2
        <5> QED BY <4>2, <5>3 DEF l, z, d
      <4> QED BY <4>3 DEF Accounted
    <3> QED BY <2>5, <3>2, <3>3
  <2>8. CASE ~(a = 0 \/ shared.stopping \/ shared.worker_failed)
    <3>1. shared' = Put(shared, samples) /\ writer' = [writer EXCEPT !.pc = IF @ = "Asleep" THEN "Awake" ELSE @]
          /\ gone' = gone
      BY <2>2, <2>6, <2>8 DEF enqueue
    <3>2. shared' \in Rings /\ \E over \in Nat : shared'.size + over = shared.size + a /\ shared'.dropped = shared.dropped + over
      BY <2>3, <2>6, <3>1, PutIs
    <3> DEFINE p == IF writer.pc = "Asleep" THEN "Awake" ELSE writer.pc
    <3>3. /\ writer' \in Writers /\ writer'.output = writer.output
          /\ (writer'.pc = "Writing" <=> writer.pc = "Writing")
      <4>1. p \in {"None", "Awake", "Asleep", "Writing", "Done"} /\ writer \in Writers
        BY DEF RingTyped, Writers
      <4>2. writer' = [writer EXCEPT !.pc = p]
        BY <3>1
      <4>3. p = "Writing" <=> writer.pc = "Writing"
        OBVIOUS
      <4> HIDE DEF p
      <4> QED BY <4>1, <4>2, <4>3 DEF Writers
    <3>4. RingTyped'
      <4>1. shared' \in Shareds /\ shared'.queue # <<>>
        BY <3>2, AudioConstants DEF Rings, Shareds
      <4> QED BY <1>2, <2>2, <2>4, <3>1, <3>3, <4>1 DEF RingTyped
    <3>5. Accounted'
      <4>1. made + CUSHION_FRAMES = heard + Len(writer.output) + shared.size + shared.dropped + gone
        BY <2>6 DEF Accounted
      <4>2. made' = made + a /\ heard' = heard /\ gone' = gone /\ Len(writer'.output) = Len(writer.output)
        BY <2>2, <3>1, <3>3
      <4>3. shared'.size \in Int /\ shared'.dropped \in Int
        BY <3>2 DEF Rings
      <4>4. PICK over \in Nat : shared'.size + over = shared.size + a /\ shared'.dropped = shared.dropped + over
        BY <3>2
      <4>5. made' + CUSHION_FRAMES = heard' + Len(writer'.output) + shared'.size + shared'.dropped + gone'
        <5> DEFINE l == Len(writer.output)
                   z == shared.size
                   d == shared.dropped
                   y == shared'.size
        <5>1. l \in Int /\ z \in Int /\ d \in Int /\ made \in Int /\ heard \in Int /\ gone \in Int /\ CUSHION_FRAMES \in Int
          BY Counts
        <5>2. made + CUSHION_FRAMES = heard + l + z + d + gone
          BY <4>1
        <5>3. y \in Int /\ y + over = z + a
          BY <4>3, <4>4
        <5> HIDE DEF l, z, d, y
        <5>4. made + a + CUSHION_FRAMES = heard + l + y + (d + over) + gone
          BY <5>1, <5>2, <5>3
        <5> QED BY <4>2, <4>4, <5>4 DEF l, z, d, y
      <4> QED BY <4>5 DEF Accounted
    <3> QED BY <2>5, <3>4, <3>5
  <2> QED BY <2>7, <2>8
<1> QED BY <1>1, <1>2

\* discard_pending: what is dropped from the ring is counted as gone.
LEMMA DiscardKeeps == ASSUME RingInv, discard_pending PROVE RingInv'
<1> USE DEF RingInv
<1>1. /\ gone' = gone + shared.size /\ shared' = [shared EXCEPT !.head = 0, !.size = 0]
      /\ UNCHANGED <<player, rate_remainder, writer, taken, made, heard>>
  BY DEF discard_pending
<1>2. /\ shared' \in Shareds /\ shared'.queue = shared.queue /\ shared'.head = 0 /\ shared'.size = 0
      /\ shared'.dropped = shared.dropped
  <2>1. 0 \in 0..(QUEUE_FRAMES - 1) /\ 0 \in 0..QUEUE_FRAMES /\ shared \in Shareds
    BY AudioConstants DEF RingTyped
  <2> QED BY <1>1, <2>1 DEF Shareds
<1>3. shared.size \in Nat /\ gone' \in Nat
  BY <1>1 DEF RingTyped, Shareds
<1>4. RingTyped'
  BY <1>1, <1>2, <1>3 DEF RingTyped
<1>5. Accounted'
  <2> DEFINE l == Len(writer.output)
             z == shared.size
             d == shared.dropped
  <2>1. l \in Int /\ z \in Int /\ d \in Int /\ made \in Int /\ heard \in Int /\ gone \in Int /\ CUSHION_FRAMES \in Int
    BY Counts
  <2>2. shared.queue # <<>> => made + CUSHION_FRAMES = heard + l + z + d + gone
    BY DEF Accounted
  <2> HIDE DEF l, z, d
  <2>3. shared.queue # <<>> => made + CUSHION_FRAMES = heard + l + 0 + d + (gone + z)
    BY <2>1, <2>2
  <2> QED BY <1>1, <1>2, <2>3 DEF l, z, d, Accounted
<1>6. RateKept'
  BY <1>1 DEF RateKept
<1> QED BY <1>4, <1>5, <1>6

\* open: the ring begins with its cushion and no other sample.
LEMMA OpenKeeps == ASSUME RingInv, AudioUntouched, open PROVE RingInv'
<1> USE DEF RingInv
<1>1. CASE UNCHANGED audioVars
  BY <1>1 DEF audioVars, RingTyped, Accounted, RateKept
<1>2. ASSUME NEW spawned \in BOOLEAN, NEW undone \in BOOLEAN,
             /\ shared' = [NoShared EXCEPT !.queue = [i \in 1..QUEUE_FRAMES |-> 0], !.size = CUSHION_FRAMES]
             /\ player' = IF spawned THEN "Open" ELSE "None"
             /\ writer' = IF spawned THEN [NoWriter EXCEPT !.pc = "Awake", !.started = ~undone] ELSE NoWriter
             /\ rate_remainder' = 0
             /\ UNCHANGED <<taken, made, heard, gone>>
      PROVE  RingInv'
  <2>1. /\ shared' \in Rings /\ shared'.size = CUSHION_FRAMES /\ shared'.dropped = 0 /\ shared'.queue # <<>>
    <3> DEFINE q == [i \in 1..QUEUE_FRAMES |-> 0]
    <3>1. q \in [1..QUEUE_FRAMES -> Int] /\ q # <<>> /\ 0 \in 0..(QUEUE_FRAMES - 1) /\ CUSHION_FRAMES \in 0..QUEUE_FRAMES
      <4>1. 1 \in 1..QUEUE_FRAMES /\ QUEUE_FRAMES \in Nat
        BY AudioConstants
      <4>2. Len(q) = QUEUE_FRAMES
        BY <4>1
      <4> QED BY <4>1, <4>2, AudioConstants
    <3>2. shared' = [queue |-> q, head |-> 0, size |-> CUSHION_FRAMES, dropped |-> 0, stopping |-> FALSE,
                     worker_failed |-> FALSE]
      BY <1>2 DEF NoShared
    <3> HIDE DEF q
    <3> QED BY <3>1, <3>2 DEF Rings
  <2>2. writer' \in Writers /\ writer'.output = <<>> /\ writer'.pc # "Writing"
    <3>1. CASE spawned
      <4> DEFINE b == ~undone
      <4>1. b \in BOOLEAN /\ <<>> \in Seq(Int)
        OBVIOUS
      <4>2. writer' = [pc |-> "Awake", output |-> <<>>, started |-> b]
        BY <1>2, <3>1 DEF NoWriter
      <4> HIDE DEF b
      <4> QED BY <4>1, <4>2 DEF Writers
    <3>2. CASE ~spawned
      BY <1>2, <3>2 DEF NoWriter, Writers
    <3> QED BY <3>1, <3>2
  <2>3. 0 \in 0..(SourceRate - 1) /\ SourceRate \in Nat /\ OutputRate \in Nat /\ CUSHION_FRAMES \in Int
    BY AudioConstants
  <2>4. RingTyped'
    BY <1>2, <2>1, <2>2, <2>3 DEF RingTyped, AudioUntouched, Rings, Shareds
  <2>5. Accounted'
    BY <1>2, <2>1, <2>2, <2>3 DEF Accounted, AudioUntouched
  <2>6. RateKept'
    BY <1>2, <2>3 DEF RateKept, AudioUntouched
  <2> QED BY <2>4, <2>5, <2>6
<1> QED BY <1>1, <1>2 DEF open

\* Closing: the ring is told to stop and keeps what it holds.
LEMMA BeginCloseKeeps == ASSUME RingInv, BeginClose PROVE RingInv'
<1> USE DEF RingInv
<1> DEFINE p == IF writer.pc = "Asleep" THEN "Awake" ELSE writer.pc
<1>1. /\ writer' \in Writers /\ writer'.output = writer.output
      /\ (writer'.pc = "Writing" <=> writer.pc = "Writing") /\ (writer = NoWriter => writer' = NoWriter)
  <2>1. p \in {"None", "Awake", "Asleep", "Writing", "Done"} /\ writer \in Writers
    BY DEF RingTyped, Writers
  <2>2. writer' = [writer EXCEPT !.pc = p]
    BY DEF BeginClose
  <2>3. (p = "Writing" <=> writer.pc = "Writing") /\ (writer = NoWriter => p = writer.pc)
    BY DEF NoWriter
  <2> HIDE DEF p
  <2> QED BY <2>1, <2>2, <2>3 DEF Writers
<1>2. /\ shared' \in Shareds /\ shared'.queue = shared.queue /\ shared'.head = shared.head /\ shared'.size = shared.size
      /\ shared'.dropped = shared.dropped
  BY DEF BeginClose, RingTyped, Shareds
<1>3. RingTyped'
  BY <1>1, <1>2 DEF RingTyped, BeginClose
<1>4. Accounted'
  BY <1>1, <1>2 DEF Accounted, BeginClose
<1>5. RateKept'
  BY DEF RateKept, BeginClose
<1> QED BY <1>3, <1>4, <1>5

\* The end of closing: writer and player go, and with them what they held.
LEMMA EndCloseKeeps == ASSUME RingInv, player # "Open", EndClose PROVE RingInv'
<1> USE DEF RingInv
<1>1. NoWriter \in Writers /\ NoWriter.output = <<>> /\ NoWriter.pc # "Writing"
  BY DEF NoWriter, Writers
<1>2. CASE player = "Closing"
  <2>1. /\ shared' \in Shareds /\ shared'.queue = <<>> /\ shared'.head = 0 /\ shared'.size = 0
    <3>1. 0 \in 0..(QUEUE_FRAMES - 1) /\ 0 \in 0..QUEUE_FRAMES /\ shared \in Shareds
      BY AudioConstants DEF RingTyped
    <3>2. shared' = [shared EXCEPT !.queue = <<>>, !.head = 0, !.size = 0]
      BY <1>2 DEF EndClose
    <3> QED BY <3>1, <3>2 DEF Shareds
  <2>2. gone' \in Nat
    BY <1>2 DEF EndClose, RingTyped, Shareds
  <2> QED BY <1>1, <2>1, <2>2 DEF RingTyped, Accounted, RateKept, EndClose
<1>3. CASE player # "Closing"
  <2>1. player = "None"
    BY <1>3 DEF RingTyped
  <2> QED BY <1>1, <1>3, <2>1 DEF RingTyped, Accounted, RateKept, EndClose
<1> QED BY <1>2, <1>3

\* What the writer takes in one turn: some of the oldest samples.
LEMMA LookTakes ==
  ASSUME RingInv, Look, ~shared.stopping, shared.size # 0
  PROVE  \E count \in 1..shared.size :
           /\ writer' \in Writers /\ writer'.pc = "Writing" /\ Len(writer'.output) = count
           /\ writer'.output = SubSeq(Contents(shared), 1, count)
           /\ shared' \in Rings /\ shared'.size = shared.size - count /\ shared'.dropped = shared.dropped
           /\ Contents(shared') = SubSeq(Contents(shared), count + 1, shared.size)
<1> DEFINE count == Least(shared.size, WRITE_CHUNK_FRAMES)
           new == [shared EXCEPT !.head = (@ + count) % Len(shared.queue), !.size = @ - count]
           output == SubSeq(Contents(shared), 1, count)
<1>1. shared' = new /\ writer' = [writer EXCEPT !.pc = "Writing", !.output = output]
  BY DEF Look
<1>2. shared \in Rings
  BY SharedRings DEF RingInv, RingTyped
<1>3. count \in 1..shared.size /\ count \in Nat /\ count <= shared.size
  <2>1. shared.size \in Nat
    BY <1>2 DEF Rings
  <2> QED BY <2>1, AudioConstants DEF Least
<1> HIDE DEF count
<1>4. new \in Rings /\ new.size = shared.size - count /\ Contents(new) = SubSeq(Contents(shared), count + 1, shared.size)
  BY <1>2, <1>3, TakeIs
<1>5. new.dropped = shared.dropped
  BY <1>2 DEF Rings
<1>6. output \in Seq(Int) /\ Len(output) = count
  <2> DEFINE old == Contents(shared)
  <2>1. old \in Seq(Int) /\ Len(old) = shared.size
    BY <1>2, ContentsAre
  <2> HIDE DEF old
  <2>2. SubSeq(old, 0 + 1, count) \in Seq(Int) /\ Len(SubSeq(old, 0 + 1, count)) = count - 0
    <3>1. 0 \in Nat /\ 0 <= count /\ count <= Len(old)
      BY <1>3, <2>1
    <3> QED BY <1>3, <2>1, <3>1, Slice
  <2> QED BY <1>3, <2>2 DEF old
<1> HIDE DEF output, new
<1>7. writer' \in Writers /\ writer'.pc = "Writing" /\ writer'.output = output
  BY <1>1, <1>6 DEF RingInv, RingTyped, Writers
<1> QED BY <1>1, <1>3, <1>4, <1>5, <1>6, <1>7 DEF output

\* The writer looks at the ring: it takes a chunk, sleeps or ends.
LEMMA LookKeeps == ASSUME RingInv, Look PROVE RingInv'
<1> USE DEF RingInv
<1>1. UNCHANGED <<player, rate_remainder, taken, made, heard, gone>> /\ writer.pc = "Awake"
  BY DEF Look
<1>2. writer # NoWriter /\ player # "None" /\ writer \in Writers /\ writer.output = <<>> /\ shared.queue # <<>>
  BY <1>1 DEF RingTyped, NoWriter
<1>3. CASE shared.stopping \/ shared.size = 0
  <2>1. PICK p \in {"Done", "Asleep"} : writer' = [writer EXCEPT !.pc = p] /\ UNCHANGED shared
    BY <1>3 DEF Look
  <2>2. writer' \in Writers /\ writer'.output = writer.output /\ writer'.pc # "Writing"
    BY <1>2, <2>1 DEF Writers
  <2> QED BY <1>1, <1>2, <2>1, <2>2 DEF RingTyped, Accounted, RateKept
<1>4. CASE ~(shared.stopping \/ shared.size = 0)
  <2>1. PICK count \in 1..shared.size :
          /\ writer' \in Writers /\ writer'.pc = "Writing" /\ Len(writer'.output) = count
          /\ shared' \in Rings /\ shared'.size = shared.size - count /\ shared'.dropped = shared.dropped
    BY <1>4, LookTakes
  <2>2. writer'.output # <<>> /\ shared' \in Shareds /\ shared'.queue # <<>>
    BY <2>1, AudioConstants DEF Rings, Shareds
  <2>3. RingTyped'
    BY <1>1, <1>2, <2>1, <2>2 DEF RingTyped
  <2>4. Accounted'
    <3> DEFINE z == shared.size
               d == shared.dropped
               y == shared'.size
    <3>1. z \in Int /\ d \in Int /\ made \in Int /\ heard \in Int /\ gone \in Int /\ CUSHION_FRAMES \in Int /\ count \in Int
      BY Counts
    <3>2. made + CUSHION_FRAMES = heard + 0 + z + d + gone
      BY <1>2 DEF Accounted
    <3>3. y = z - count
      BY <2>1
    <3> HIDE DEF z, d, y
    <3>4. made + CUSHION_FRAMES = heard + count + y + d + gone
      BY <3>1, <3>2, <3>3
    <3> QED BY <1>1, <2>1, <3>4 DEF Accounted, z, d, y
  <2> QED BY <1>1, <2>3, <2>4 DEF RateKept
<1> QED BY <1>3, <1>4

\* The device has heard n of the samples in hand, and the rest are given up
\* with what of the queue is left out.
LEMMA WrittenKeeps ==
  ASSUME RingInv, writer.pc = "Writing", NEW n \in 0..Len(writer.output), NEW p \in {"Awake", "Done"},
         heard' = heard + n, UNCHANGED <<player, rate_remainder, taken, made>>,
         writer' \in Writers, writer'.pc = p, writer'.output = <<>>,
         shared' \in Shareds, shared'.queue = shared.queue, shared'.head = shared.head, shared'.dropped = shared.dropped,
         \/ shared'.size = shared.size /\ gone' = gone + Len(writer.output) - n
         \/ shared'.size = 0 /\ gone' = gone + Len(writer.output) - n + shared.size
  PROVE  RingInv'
<1> USE DEF RingInv
<1>1. shared.queue # <<>> /\ writer # NoWriter /\ player # "None"
  BY DEF RingTyped, NoWriter
<1> DEFINE l == Len(writer.output)
           z == shared.size
           d == shared.dropped
           y == shared'.size
<1>2. /\ l \in Int /\ z \in Int /\ d \in Int /\ made \in Int /\ heard \in Int /\ gone \in Int /\ CUSHION_FRAMES \in Int
      /\ 0 <= z /\ 0 <= gone /\ 0 <= heard /\ n \in Int /\ 0 <= n /\ n <= l
  <2>1. l \in Int /\ z \in Int /\ d \in Int /\ made \in Int /\ heard \in Int /\ gone \in Int /\ CUSHION_FRAMES \in Int
    BY Counts
  <2>2. 0 <= z
    BY DEF RingTyped, Shareds
  <2>3. 0 <= gone /\ 0 <= heard
    BY DEF RingTyped
  <2> HIDE DEF l, z, d
  <2>4. n \in Int /\ 0 <= n /\ n <= l
    BY <2>1 DEF l
  <2> QED BY <2>1, <2>2, <2>3, <2>4
<1>3. made + CUSHION_FRAMES = heard + l + z + d + gone
  BY <1>1 DEF Accounted
<1>4. (y = z /\ gone' = gone + l - n) \/ (y = 0 /\ gone' = gone + l - n + z)
  OBVIOUS
<1> HIDE DEF l, z, d, y
<1>5. heard' \in Nat /\ gone' \in Nat
  BY <1>2, <1>4
<1>6. made + CUSHION_FRAMES = heard' + 0 + y + d + gone'
  BY <1>2, <1>3, <1>4
<1>7. RingTyped'
  <2>1. shared'.queue = <<>> => shared'.head = 0 /\ shared'.size = 0
    BY <1>1
  <2> QED BY <1>1, <1>5, <2>1 DEF RingTyped
<1>8. Accounted'
  BY <1>6 DEF Accounted, y, d
<1>9. RateKept'
  BY DEF RateKept
<1> QED BY <1>7, <1>8, <1>9

\* The record of a ring on which the device failed.
LEMMA FailedRings ==
  ASSUME RingTyped
  PROVE  /\ [shared EXCEPT !.worker_failed = TRUE] \in Shareds
         /\ [shared EXCEPT !.worker_failed = TRUE, !.size = 0] \in Shareds
<1>1. shared \in Shareds /\ 0 \in 0..QUEUE_FRAMES
  BY AudioConstants DEF RingTyped
<1> QED BY <1>1 DEF Shareds

\* The device takes some of the chunk.
LEMMA WriteKeeps == ASSUME RingInv, Write PROVE RingInv'
<1> DEFINE l == Len(writer.output)
<1>1. l \in Nat /\ l \in 0..l /\ gone \in Int /\ gone' = gone + l - l
  BY DEF Write, RingInv, RingTyped, Writers
<1>2. writer.pc = "Writing" /\ heard' = heard + l /\ UNCHANGED <<player, rate_remainder, taken, made, shared>>
  BY DEF Write
<1>3. writer' \in Writers /\ writer'.pc = "Awake" /\ writer'.output = <<>>
  <2>1. <<>> \in Seq(Int)
    OBVIOUS
  <2> QED BY <2>1 DEF Write, Writers
<1>4. shared' \in Shareds
  BY <1>2 DEF RingInv, RingTyped
<1> QED BY <1>1, <1>2, <1>3, <1>4, WrittenKeeps

\* The device fails to start: the chunk and the ring are given up.
LEMMA TriggerFailsKeeps == ASSUME RingInv, TriggerFails PROVE RingInv'
<1> DEFINE l == Len(writer.output)
<1>1. l \in Nat /\ 0 \in 0..l /\ gone \in Int /\ heard \in Int
  BY DEF RingInv, RingTyped, Writers
<1>2. writer.pc = "Writing" /\ UNCHANGED <<heard, player, rate_remainder, taken, made>> /\ gone' = gone + l
  BY DEF TriggerFails
<1>3. writer' \in Writers /\ writer'.pc = "Done" /\ writer'.output = <<>>
  <2>1. <<>> \in Seq(Int)
    OBVIOUS
  <2> QED BY <2>1 DEF TriggerFails, Writers, RingInv, RingTyped
<1>4. /\ shared' \in Shareds /\ shared'.queue = shared.queue /\ shared'.head = shared.head
      /\ shared'.dropped = shared.dropped /\ shared'.size = shared.size
  BY FailedRings DEF TriggerFails, Shareds, RingInv, RingTyped
<1> HIDE DEF l
<1>5. heard' = heard + 0 /\ gone' = gone + l - 0
  BY <1>1, <1>2
<1> QED BY <1>1, <1>2, <1>3, <1>4, <1>5, WrittenKeeps DEF l

\* The device fails in a chunk: what it has heard counts as heard.
LEMMA WriteFailsKeeps == ASSUME RingInv, WriteFails PROVE RingInv'
<1>1. PICK n \in 0..Len(writer.output) : heard' = heard + n /\ gone' = gone + Len(writer.output) - n + shared.size
  BY DEF WriteFails
<1>2. writer.pc = "Writing" /\ UNCHANGED <<player, rate_remainder, taken, made>>
  BY DEF WriteFails
<1>3. writer' \in Writers /\ writer'.pc = "Done" /\ writer'.output = <<>>
  <2>1. <<>> \in Seq(Int)
    OBVIOUS
  <2> QED BY <2>1 DEF WriteFails, Writers
<1>4. /\ shared' \in Shareds /\ shared'.queue = shared.queue /\ shared'.head = shared.head
      /\ shared'.dropped = shared.dropped /\ shared'.size = 0
  BY FailedRings DEF WriteFails, Shareds, RingInv, RingTyped
<1> QED BY <1>1, <1>2, <1>3, <1>4, WrittenKeeps

\* Every step of the sound keeps its invariant.
LEMMA AudioKeeps == ASSUME RingInv, AudioStep PROVE RingInv'
<1>1. CASE UNCHANGED audioVars
  BY <1>1 DEF audioVars, RingInv, RingTyped, Accounted, RateKept
<1> QED
  BY <1>1, WriteStereoKeeps, DiscardKeeps, OpenKeeps, BeginCloseKeeps, EndCloseKeeps, LookKeeps, WriteKeeps,
     TriggerFailsKeeps, WriteFailsKeeps DEF AudioStep

-----------------------------------------------------------------------------
\* The ring, its lock and its writer implement the channel, step by step.

\* Samples that are made are offered: the ring takes them, or nothing changes.
LEMMA WriteOffers == ASSUME RingInv, NEW n \in Nat, write_stereo(n) PROVE Channel!Next \/ UNCHANGED Channel!vars
<1> USE DEF RingInv
<1>1. CASE player # "Open" \/ n = 0
  BY <1>1 DEF write_stereo, audioVars, Channel!vars
<1>2. CASE ~(player # "Open" \/ n = 0)
  <2>1. PICK a \in Nat, b \in 0..(SourceRate - 1) : Resampled(n) = <<a, b>>
    BY ResampledIs DEF RingTyped
  <2> DEFINE samples == [i \in 1..a |-> made + i]
  <2>2. /\ made' = made + a /\ UNCHANGED heard
        /\ IF a = 0 THEN UNCHANGED <<shared, writer, gone>> ELSE enqueue(samples)
    BY <1>2, <2>1 DEF write_stereo
  <2>3. samples \in Seq(Int) /\ Len(samples) = a
    BY DEF RingTyped
  <2>4. made' \in Nat /\ made' >= made /\ made' - made = a
    BY <2>2 DEF RingTyped
  <2>5. shared \in Rings
    BY <1>2, SharedRings DEF RingTyped
  <2>6. CASE a = 0 \/ shared.stopping \/ shared.worker_failed
    <3>1. UNCHANGED <<shared, writer, heard>>
      BY <2>2, <2>6 DEF enqueue
    <3>2. UNCHANGED <<Contents(shared), shared.dropped, writer.output, heard>>
      BY <3>1
    <3>3. Channel!Offer
      BY <2>4, <3>2 DEF Channel!Offer
    <3> QED BY <3>3 DEF Channel!Next
  <2>7. CASE ~(a = 0 \/ shared.stopping \/ shared.worker_failed)
    <3> DEFINE over == Over(shared.size + a, QUEUE_FRAMES)
               old == Contents(shared)
               all == old \o samples
    <3>1. /\ shared' = Put(shared, samples) /\ heard' = heard
          /\ writer' = [writer EXCEPT !.pc = IF @ = "Asleep" THEN "Awake" ELSE @]
      BY <1>2, <2>2, <2>7 DEF enqueue, RingTyped
    <3>2. /\ Contents(shared') = SubSeq(old \o samples, over + 1, shared.size + a)
          /\ shared'.dropped = shared.dropped + over
      BY <2>3, <2>5, <3>1, PutIs
    <3>3. writer'.output = writer.output
      BY <3>1 DEF RingTyped, Writers
    <3>4. old \in Seq(Int) /\ Len(old) = shared.size
      BY <2>5, ContentsAre
    <3> HIDE DEF old, samples
    <3>5. Len(all) = shared.size + a
      <4>1. old \in Seq(Int) /\ samples \in Seq(Int)
        BY <2>3, <3>4
      <4>2. Len(old \o samples) = Len(old) + Len(samples)
        BY <4>1, ConcatProperties, Zenon
      <4> QED BY <2>3, <3>4, <4>2
    <3>6. over = IF Len(all) > QUEUE_FRAMES THEN Len(all) - QUEUE_FRAMES ELSE 0
      BY <3>5 DEF Over
    <3>7. all = old \o [i \in 1..(made' - made) |-> made + i]
      BY <2>4 DEF samples
    <3> HIDE DEF over, all
    <3>8. Contents(shared') = SubSeq(all, over + 1, Len(all))
      BY <3>2, <3>5 DEF all
    <3>9. Channel!Offer
      BY <2>4, <3>1, <3>2, <3>3, <3>6, <3>7, <3>8, Zenon DEF Channel!Offer, old
    <3> QED BY <3>9 DEF Channel!Next
  <2> QED BY <2>6, <2>7
<1> QED BY <1>1, <1>2

\* A game begins with the cushion.
LEMMA OpenBegins == ASSUME AudioUntouched, open PROVE Channel!Next \/ UNCHANGED Channel!vars
<1>1. CASE UNCHANGED audioVars
  BY <1>1 DEF audioVars, Channel!vars
<1>2. ASSUME NEW spawned \in BOOLEAN, NEW undone \in BOOLEAN,
             /\ shared' = [NoShared EXCEPT !.queue = [i \in 1..QUEUE_FRAMES |-> 0], !.size = CUSHION_FRAMES]
             /\ writer' = IF spawned THEN [NoWriter EXCEPT !.pc = "Awake", !.started = ~undone] ELSE NoWriter
             /\ UNCHANGED <<made, heard>>
      PROVE  Channel!Begin
  <2> DEFINE q == [i \in 1..QUEUE_FRAMES |-> 0]
             N == QUEUE_FRAMES
             C == CUSHION_FRAMES
  <2>1. shared' = [queue |-> q, head |-> 0, size |-> C, dropped |-> 0, stopping |-> FALSE, worker_failed |-> FALSE]
    BY <1>2 DEF NoShared
  <2>2. writer.output = <<>> /\ writer'.output = <<>>
    <3>1. CASE spawned
      BY <1>2, <3>1 DEF NoWriter, AudioUntouched
    <3>2. CASE ~spawned
      BY <1>2, <3>2 DEF NoWriter, AudioUntouched
    <3> QED BY <3>1, <3>2
  <2>3. Contents(shared) = <<>>
    BY NoContents DEF AudioUntouched, NoShared
  <2>4. N \in Nat \ {0} /\ C \in 0..N /\ q \in [1..N -> Int] /\ \A i \in 1..N : q[i] = 0
    BY AudioConstants
  <2> HIDE DEF q
  <2>5. shared' \in Rings /\ shared'.size = C /\ shared'.queue = q /\ shared'.head = 0 /\ shared'.dropped = 0
    <3>1. 0 \in 0..(N - 1)
      BY <2>4
    <3> QED BY <2>1, <2>4, <3>1 DEF Rings
  <2> DEFINE c == Contents(shared')
             z == [i \in 1..C |-> 0]
  <2>6. c \in Seq(Int) /\ Len(c) = C /\ \A i \in 1..C : c[i] = q[Place(0, i) + 1]
    BY <2>5, ContentsAre
  <2>7. z \in Seq(Int) /\ Len(z) = C /\ \A i \in 1..C : z[i] = 0
    BY <2>4
  <2> HIDE DEF c, z
  <2>8. ASSUME NEW i \in 1..C PROVE c[i] = z[i]
    <3>1. 0 \in 0..(N - 1) /\ i \in 1..N
      BY <2>4
    <3>2. Place(0, i) \in 0..(N - 1)
      BY <3>1, PlaceIs
    <3>3. Place(0, i) + 1 \in 1..N
      BY <2>4, <3>2
    <3> QED BY <2>4, <2>6, <2>7, <3>3
  <2>9. c = z
    BY <2>6, <2>7, <2>8, SeqEqual
  <2> QED BY <1>2, <2>2, <2>3, <2>5, <2>9, Zenon DEF Channel!Begin, c, z
<1> QED BY <1>1, <1>2 DEF open, Channel!Next

\* What ends the sound, or some of it, abandons what waits or is in hand.
LEMMA EndAbandons ==
  ASSUME RingInv,
         UNCHANGED <<made, shared.dropped>>,
         writer'.output = writer.output \/ writer'.output = <<>>,
         Contents(shared') = Contents(shared) \/ Contents(shared') = <<>>,
         NEW n \in 0..(Len(writer.output) - Len(writer'.output)), heard' = heard + n
  PROVE  Channel!Next
<1> DEFINE l == Len(writer.output)
           k == Len(writer'.output)
<1>1. l \in Int /\ heard \in Int
  BY Counts DEF RingInv
<1>2. k \in Int /\ n \in 0..(l - k)
  BY <1>1
<1> HIDE DEF l, k
<1>3. heard' \in heard..(heard + l - k)
  BY <1>1, <1>2
<1>4. Channel!Abandon
  BY <1>3 DEF Channel!Abandon, l, k
<1> QED BY <1>4 DEF Channel!Next

\* Each step of the sound is one of the channel, or none it can see.
LEMMA ChannelSteps == ASSUME RingInv, AudioStep PROVE Channel!Next \/ UNCHANGED Channel!vars
<1> USE DEF RingInv
<1>0. Len(writer.output) \in Nat /\ heard \in Int /\ <<>> \in Seq(Int) /\ Len(<<>>) = 0 /\ shared \in Shareds
  BY DEF RingTyped, Writers
<1>1. CASE UNCHANGED audioVars
  BY <1>1 DEF audioVars, Channel!vars
<1>2. ASSUME NEW n \in Nat, write_stereo(n) PROVE Channel!Next \/ UNCHANGED Channel!vars
  BY <1>2, WriteOffers
<1>3. CASE discard_pending
  <2>1. /\ shared'.size = 0 /\ shared'.dropped = shared.dropped /\ UNCHANGED <<made, heard, writer>>
    BY <1>0, <1>3 DEF discard_pending, Shareds
  <2>2. Contents(shared') = <<>>
    BY <2>1, NoContents
  <2>3. 0 \in 0..(Len(writer.output) - Len(writer'.output)) /\ heard' = heard + 0
    BY <1>0, <2>1
  <2> QED BY <2>1, <2>2, <2>3, EndAbandons
<1>4. CASE AudioUntouched /\ open
  BY <1>4, OpenBegins
<1>5. CASE BeginClose
  <2>1. /\ shared'.queue = shared.queue /\ shared'.head = shared.head /\ shared'.size = shared.size
        /\ shared'.dropped = shared.dropped /\ UNCHANGED <<made, heard>>
    BY <1>0, <1>5 DEF BeginClose, Shareds
  <2>2. writer'.output = writer.output
    BY <1>5 DEF BeginClose, RingTyped, Writers
  <2>3. Contents(shared') = Contents(shared)
    BY <2>1, SameContents
  <2> QED BY <2>1, <2>2, <2>3 DEF Channel!vars
<1>6. CASE player # "Open" /\ EndClose
  <2>1. writer'.output = <<>> /\ UNCHANGED <<made, heard>> /\ shared'.dropped = shared.dropped
    BY <1>0, <1>6 DEF EndClose, NoWriter, Shareds
  <2>2. UNCHANGED shared \/ shared'.size = 0
    BY <1>0, <1>6 DEF EndClose, Shareds
  <2>3. Contents(shared') = Contents(shared) \/ Contents(shared') = <<>>
    BY <2>2, NoContents
  <2>4. 0 \in 0..(Len(writer.output) - Len(writer'.output)) /\ heard' = heard + 0
    BY <1>0, <2>1
  <2> QED BY <2>1, <2>3, <2>4, EndAbandons
<1>7. CASE Look
  <2>1. UNCHANGED <<made, heard>> /\ writer.output = <<>>
    BY <1>7 DEF Look, RingTyped
  <2>2. CASE shared.stopping \/ shared.size = 0
    <3>1. UNCHANGED shared /\ writer'.output = writer.output
      BY <1>7, <2>2 DEF Look, RingTyped, Writers
    <3> QED BY <2>1, <3>1 DEF Channel!vars
  <2>3. CASE ~(shared.stopping \/ shared.size = 0)
    <3>1. PICK count \in 1..shared.size :
            /\ writer'.output = SubSeq(Contents(shared), 1, count) /\ shared'.dropped = shared.dropped
            /\ Contents(shared') = SubSeq(Contents(shared), count + 1, shared.size)
      BY <1>7, <2>3, LookTakes
    <3>2. shared \in Rings
      BY <2>3, SharedRings DEF RingTyped
    <3>3. Len(Contents(shared)) = shared.size
      BY <3>2, ContentsAre
    <3>4. Channel!Take
      BY <2>1, <3>1, <3>3, Zenon DEF Channel!Take
    <3> QED BY <3>4 DEF Channel!Next
  <2> QED BY <2>2, <2>3
<1>8. CASE Write
  <2>1. writer'.output = <<>> /\ heard' = heard + Len(writer.output) /\ UNCHANGED <<made, shared>>
    BY <1>8 DEF Write
  <2>2. Channel!Hear
    BY <2>1 DEF Channel!Hear
  <2> QED BY <2>2 DEF Channel!Next
<1>9. CASE TriggerFails
  <2>1. /\ shared'.queue = shared.queue /\ shared'.head = shared.head /\ shared'.size = shared.size
        /\ shared'.dropped = shared.dropped /\ UNCHANGED <<made, heard>>
    BY <1>0, <1>9 DEF TriggerFails, Shareds
  <2>2. writer'.output = <<>>
    BY <1>9 DEF TriggerFails, RingTyped, Writers
  <2>3. Contents(shared') = Contents(shared)
    BY <2>1, SameContents
  <2>4. 0 \in 0..(Len(writer.output) - Len(writer'.output)) /\ heard' = heard + 0
    BY <1>0, <2>1, <2>2
  <2> QED BY <2>1, <2>2, <2>3, <2>4, EndAbandons
<1>10. CASE WriteFails
  <2>1. PICK n \in 0..Len(writer.output) : heard' = heard + n
    BY <1>10 DEF WriteFails
  <2>2. shared'.size = 0 /\ shared'.dropped = shared.dropped /\ UNCHANGED made /\ writer'.output = <<>>
    BY <1>0, <1>10 DEF WriteFails, Shareds
  <2>3. Contents(shared') = <<>>
    BY <2>2, NoContents
  <2>4. n \in 0..(Len(writer.output) - Len(writer'.output))
    BY <1>0, <2>1, <2>2
  <2> QED BY <2>1, <2>2, <2>3, <2>4, EndAbandons
<1> QED BY <1>1, <1>2, <1>3, <1>4, <1>5, <1>6, <1>7, <1>8, <1>9, <1>10 DEF AudioStep

\* Sound begins as the channel does.
LEMMA ChannelStarts == AudioInit => Channel!Init
<1> SUFFICES ASSUME AudioInit PROVE Channel!Init
  OBVIOUS
<1>1. Contents(shared) = <<>>
  BY NoContents DEF AudioInit, NoShared
<1> QED BY <1>1 DEF AudioInit, NoShared, NoWriter, Channel!Init

-----------------------------------------------------------------------------
\* The sound of the host.

\* While no sound was opened there is none to change.
LEMMA UntouchedStays ==
  ASSUME AudioUntouched, UNCHANGED audioVars \/ write_stereo(0) \/ discard_pending \/ BeginClose \/ EndClose
  PROVE  AudioUntouched'
<1>1. CASE UNCHANGED audioVars
  BY <1>1 DEF AudioUntouched, audioVars
<1>2. CASE write_stereo(0)
  BY <1>2 DEF AudioUntouched, audioVars, write_stereo
<1>3. CASE discard_pending
  <2>1. [NoShared EXCEPT !.head = 0, !.size = 0] = NoShared /\ NoShared.size = 0
    <3> DEFINE r == NoShared
    <3>1. r \in Shareds /\ r.head = 0 /\ r.size = 0
      BY AudioConstants DEF NoShared, Shareds
    <3> HIDE DEF r
    <3>2. [r EXCEPT !.head = 0, !.size = 0] = r
      BY <3>1 DEF Shareds
    <3> QED BY <3>1, <3>2 DEF r
  <2>2. /\ shared' = [shared EXCEPT !.head = 0, !.size = 0] /\ gone' = gone + shared.size
        /\ UNCHANGED <<player, rate_remainder, writer, taken, made, heard>>
    BY <1>3 DEF discard_pending
  <2>3. shared = NoShared /\ gone = 0
    BY DEF AudioUntouched
  <2> QED BY <2>1, <2>2, <2>3 DEF AudioUntouched
<1>4. CASE BeginClose
  BY <1>4 DEF AudioUntouched, BeginClose, NoWriter
<1>5. CASE EndClose
  BY <1>5 DEF AudioUntouched, EndClose, NoWriter
<1> QED BY <1>1, <1>2, <1>3, <1>4, <1>5

\* The writer and the device leave no more in the ring than there was.
LEMMA DeviceStays ==
  ASSUME RingInv, Look \/ Write \/ TriggerFails \/ WriteFails
  PROVE  UNCHANGED player /\ writer # NoWriter /\ (shared.size = 0 => shared'.size = 0)
<1>1. shared \in Shareds /\ UNCHANGED player /\ writer # NoWriter
  BY DEF RingInv, RingTyped, Look, Write, TriggerFails, WriteFails, NoWriter
<1>2. CASE Look
  BY <1>1, <1>2 DEF Look
<1>3. CASE Write
  BY <1>1, <1>3 DEF Write
<1>4. CASE TriggerFails
  BY <1>1, <1>4 DEF TriggerFails, Shareds
<1>5. CASE WriteFails
  BY <1>1, <1>5 DEF WriteFails, Shareds
<1> QED BY <1>1, <1>2, <1>3, <1>4, <1>5

\* Every step of the host and around it is one of the steps of the sound.
LEMMA HostSounds == ASSUME RingInv, Quiet, Next PROVE AudioStep /\ Quiet'
<1> USE DEF Quiet, SilentWhenDormant, Perilous, About
<1>1. CASE Start
  <2>1. UNCHANGED scope /\ pc = "Off" /\ pc' \in {"Head", "Ended"} /\ AudioUntouched
    BY <1>1 DEF Start
  <2>2. CASE UNCHANGED audioVars
    BY <2>1, <2>2, UntouchedStays DEF AudioStep
  <2>3. CASE ~(UNCHANGED audioVars)
    <3>1. open /\ (About("sound") \/ scope.device = "stalls")
      BY <1>1, <2>3 DEF Start
    <3> QED BY <2>1, <3>1 DEF AudioStep
  <2> QED BY <2>2, <2>3
<1>2. CASE Run
  <2>1. UNCHANGED scope /\ pc' = "Ask"
    BY <1>2 DEF Run
  <2>2. PICK n \in IF About("sound") THEN 0..Least(2, MaxTaken - taken) ELSE {0} : write_stereo(n)
    BY <1>2 DEF Run
  <2>3. n \in Nat
    BY <2>2
  <2>4. Perilous => AudioUntouched'
    BY <2>2, UntouchedStays
  <2> QED BY <2>1, <2>2, <2>3, <2>4 DEF AudioStep
<1>3. CASE Ask
  <2>1. UNCHANGED scope /\ pc' \notin {"Off", "Join"}
    BY <1>3 DEF Ask, Counted, BeginSave, Leave
  <2>2. (UNCHANGED audioVars /\ pc' # "Dormant") \/ discard_pending
    BY <1>3 DEF Ask, Counted, BeginSave, Leave
  <2>3. discard_pending => shared'.size = 0
    BY DEF discard_pending, RingInv, RingTyped, Shareds
  <2> QED BY <2>1, <2>2, <2>3, UntouchedStays DEF AudioStep
<1>4. CASE Close
  <2>1. UNCHANGED scope /\ pc' = "Join" /\ BeginClose /\ player' # "Open"
    BY <1>4 DEF Close, BeginClose
  <2> QED BY <2>1, UntouchedStays DEF AudioStep
<1>5. CASE Join
  <2>1. UNCHANGED scope /\ pc' = "Ended" /\ EndClose /\ player # "Open"
    BY <1>5 DEF Join
  <2> QED BY <2>1, UntouchedStays DEF AudioStep
<1>6. CASE Killed \/ PowerLost
  <2>1. UNCHANGED <<scope, audioVars>> /\ pc' = "Off" /\ AudioUntouched
    BY <1>6 DEF Killed, PowerLost, Relaunched
  <2> QED BY <2>1, UntouchedStays DEF AudioStep
<1>7. CASE Writer \/ Device
  <2>1. UNCHANGED <<scope, pc>> /\ (Look \/ Write \/ TriggerFails \/ WriteFails)
    BY <1>7 DEF Writer, Device
  <2>2. UNCHANGED player /\ writer # NoWriter /\ (shared.size = 0 => shared'.size = 0)
    BY <2>1, DeviceStays
  <2> QED BY <2>1, <2>2 DEF AudioStep, AudioUntouched
<1>8. CASE \/ Stopped \/ Wake \/ Check \/ SaveOpen \/ SaveWrite \/ SaveRename \/ Pace
           \/ Signal \/ Compositor \/ Touch
  <2>1. UNCHANGED <<scope, audioVars>> /\ (pc' \notin {"Off", "Join", "Dormant"} \/ pc' = pc)
    <3>1. CASE Stopped \/ Wake \/ Pace
      BY <3>1 DEF Stopped, Wake, Pace, Leave, BeginSave
    <3>2. CASE Check
      BY <3>2 DEF Check, Counted, Leave, BeginSave
    <3>3. CASE SaveOpen
      BY <3>3 DEF SaveOpen, SaveError, Saved
    <3>4. CASE SaveWrite
      BY <3>4 DEF SaveWrite, SaveError, Saved
    <3>5. CASE SaveRename
      BY <3>5 DEF SaveRename, SaveError, Saved
    <3>6. CASE Signal \/ Compositor \/ Touch
      BY <3>6 DEF Signal, Compositor, Touch
    <3> QED BY <1>8, <3>1, <3>2, <3>3, <3>4, <3>5, <3>6
  <2>2. UNCHANGED <<player, shared>>
    BY <2>1 DEF audioVars
  <2> QED BY <2>1, <2>2, UntouchedStays DEF AudioStep
<1> QED BY <1>1, <1>2, <1>3, <1>4, <1>5, <1>6, <1>7, <1>8 DEF Next, Host

\* A host begins without sound.
LEMMA SoundStarts == Init => RingInv /\ Quiet
<1> SUFFICES ASSUME Init PROVE RingInv /\ Quiet
  OBVIOUS
<1>1. AudioUntouched /\ pc = "Off"
  BY DEF Init, AudioInit, AudioUntouched
<1>2. RingTyped
  <2>1. NoShared \in Shareds /\ NoShared.queue = <<>> /\ NoShared.head = 0 /\ NoShared.size = 0
    BY AudioConstants DEF NoShared, Shareds
  <2>2. NoWriter \in Writers /\ NoWriter.pc = "None" /\ NoWriter.output = <<>>
    <3>1. <<>> \in Seq(Int)
      OBVIOUS
    <3> QED BY <3>1 DEF NoWriter, Writers
  <2>3. 0 \in 0..(SourceRate - 1)
    BY AudioConstants
  <2> QED BY <1>1, <2>1, <2>2, <2>3 DEF AudioUntouched, RingTyped
<1>3. RateKept
  BY <1>1, AudioConstants DEF AudioUntouched, RateKept
<1>4. Accounted
  BY <1>1 DEF AudioUntouched, NoShared, Accounted
<1> QED BY <1>1, <1>2, <1>3, <1>4 DEF RingInv, Quiet, SilentWhenDormant

\* No step of the host harms the sound, and each is one of the channel.
LEMMA SoundSteps ==
  RingInv /\ Quiet /\ [Next]_vars => (RingInv /\ Quiet)' /\ [Channel!Next]_(Channel!vars)
<1> SUFFICES ASSUME RingInv, Quiet, [Next]_vars PROVE (RingInv /\ Quiet)' /\ [Channel!Next]_(Channel!vars)
  OBVIOUS
<1>1. AudioStep /\ Quiet'
  <2>1. CASE Next
    BY <2>1, HostSounds
  <2>2. CASE UNCHANGED vars
    <3>1. UNCHANGED <<audioVars, pc, scope, shared, player>>
      BY <2>2 DEF vars, audioVars
    <3> QED BY <3>1, UntouchedStays DEF AudioStep, Quiet, SilentWhenDormant, Perilous, About
  <2> QED BY <2>1, <2>2
<1> QED BY <1>1, AudioKeeps, ChannelSteps

(* Refinement: whatever the ring, its lock, its writer and the host around *)
(* them do, the device hears the samples in the order they were made, and  *)
(* what it does not hear is the oldest, counted or given up with the       *)
(* widget, the device or the game (enqueue, writer_thread, discard, close).*)
THEOREM SoundQueued == Spec => QueuesSound
<1>1. Init => RingInv /\ Quiet
  BY SoundStarts
<1>2. Init => Channel!Init
  BY ChannelStarts DEF Init
<1>3. RingInv /\ Quiet /\ [Next]_vars => (RingInv /\ Quiet)'
  BY SoundSteps
<1>4. RingInv /\ Quiet /\ [Next]_vars => [Channel!Next]_(Channel!vars)
  BY SoundSteps
<1> QED BY <1>1, <1>2, <1>3, <1>4, PTL DEF Spec, QueuesSound, Channel!Spec

-----------------------------------------------------------------------------
\* The picture.

\* A picture that is smaller than the panel's safe area is laid out inside it.
LEMMA Fits ==
  ASSUME NEW L \in Nat, NEW inset \in Nat, NEW w \in Nat \ {0}, NEW scale \in Nat, w * scale <= L - 2 * inset
  PROVE  /\ (L - w * scale) \div 2 >= inset
         /\ (L - w * scale) \div 2 + w * scale <= L - inset
<1> DEFINE p == w * scale
<1>1. p \in Nat
  OBVIOUS
<1> HIDE DEF p
<1>2. p <= L - 2 * inset
  BY DEF p
<1> DEFINE x == (L - p) \div 2
<1>3. x \in Int /\ (L - p = 2 * x \/ L - p = 2 * x + 1)
  BY <1>1
<1> HIDE DEF x
<1>4. x >= inset /\ x + p <= L - inset
  BY <1>1, <1>2, <1>3
<1> QED BY <1>4 DEF x, p

\* Scaling up by less than the quotient stays inside.
LEMMA Scaled ==
  ASSUME NEW a \in Nat, NEW w \in Nat \ {0}, NEW k \in Nat, k <= a \div w PROVE w * k <= a
<1> DEFINE q == a \div w
           m == a % w
<1>1. q \in Nat /\ m \in 0..(w - 1) /\ a = w * q + m
  BY Division
<1> HIDE DEF q, m
<1>2. k <= q /\ q - k \in Nat
  BY <1>1 DEF q
<1>3. w * (q - k) >= 0 /\ w * (q - k) = w * q - w * k
  BY <1>1, <1>2
<1>4. w * q \in Int /\ w * k \in Int
  BY <1>1
<1> QED BY <1>1, <1>3, <1>4

(* compute_scaled_layout puts every picture that fits between the margins, *)
(* and it has one place for it.                                            *)
LEMMA LaidOut ==
  ASSUME NEW size \in Sizes \cup {NoPicture}
  PROVE  \/ compute_scaled_layout(size) = {}
         \/ \E r : /\ compute_scaled_layout(size) = {r}
                   /\ r.x >= SAFE_INSET /\ r.x + r.width <= LOGICAL_WIDTH - SAFE_INSET
                   /\ r.y >= SAFE_INSET /\ r.y + r.height <= LOGICAL_HEIGHT - SAFE_INSET
<1> DEFINE uw == LOGICAL_WIDTH - 2 * SAFE_INSET
           uh == LOGICAL_HEIGHT - 2 * SAFE_INSET
           w == size.width
           h == size.height
           scale == Least(uw \div w, uh \div h)
           x == (LOGICAL_WIDTH - w * scale) \div 2
           y == (LOGICAL_HEIGHT - h * scale) \div 2
           r == [x |-> x, y |-> y, width |-> w * scale, height |-> h * scale]
<1>1. w \in Nat /\ h \in Nat /\ LOGICAL_WIDTH \in Nat /\ LOGICAL_HEIGHT \in Nat /\ SAFE_INSET \in Nat
  BY HostAssumption DEF NoPicture
<1>2. compute_scaled_layout(size) = IF w = 0 \/ h = 0 \/ w > uw \/ h > uh THEN {} ELSE {r}
  BY DEF compute_scaled_layout
<1>3. CASE w = 0 \/ h = 0 \/ w > uw \/ h > uh
  BY <1>2, <1>3
<1>4. CASE ~(w = 0 \/ h = 0 \/ w > uw \/ h > uh)
  <2> HIDE DEF w, h
  <2>1. w \in Nat \ {0} /\ h \in Nat \ {0} /\ uw \in Nat /\ uh \in Nat
    BY <1>1, <1>4
  <2>2. scale \in Nat /\ scale <= uw \div w /\ scale <= uh \div h
    <3> DEFINE a == uw \div w
               b == uh \div h
    <3>1. a \in Nat /\ b \in Nat
      BY <2>1, Division
    <3> HIDE DEF a, b, uw, uh
    <3>2. Least(a, b) \in Nat /\ Least(a, b) <= a /\ Least(a, b) <= b
      BY <3>1 DEF Least
    <3> QED BY <3>2 DEF a, b
  <2> HIDE DEF scale
  <2>3. w * scale <= uw /\ h * scale <= uh
    BY <2>1, <2>2, Scaled
  <2>4. x >= SAFE_INSET /\ x + w * scale <= LOGICAL_WIDTH - SAFE_INSET
    BY <1>1, <2>1, <2>2, <2>3, Fits
  <2>5. y >= SAFE_INSET /\ y + h * scale <= LOGICAL_HEIGHT - SAFE_INSET
    BY <1>1, <2>1, <2>2, <2>3, Fits
  <2>6. r.x = x /\ r.y = y /\ r.width = w * scale /\ r.height = h * scale
    OBVIOUS
  <2>7. compute_scaled_layout(size) = {r}
    BY <1>2, <1>4
  <2> HIDE DEF r
  <2> QED BY <2>4, <2>5, <2>6, <2>7
<1> QED BY <1>3, <1>4

\* What the constants of the host are.
LEMMA HostConstants ==
  /\ SAVE_EVERY \in Nat \ {0} /\ HOLD \in Nat \ {0} /\ MaxReports \in Nat \ {0}
  /\ MaxVersion \in Nat /\ MaxCrashes \in Nat /\ FrameTimes \subseteq Nat
  /\ \A s \in Scopes : s.target \in {"Fb", "Lazy", "Headless"} /\ s.hint \in BOOLEAN
BY HostAssumption

\* A presented picture is the only one on the panel.
LEMMA PresentKeeps ==
  ASSUME Picture, NEW size \in Sizes, NEW outcome \in present(size)
  PROVE  /\ outcome.target \in {"Fb", "Lazy", "Widget", "Headless"} /\ outcome.failed \in BOOLEAN
         /\ outcome.source \in Sizes \cup {NoPicture}
         /\ outcome.painted \subseteq compute_scaled_layout(outcome.source)
<1> DEFINE layout == compute_scaled_layout(size)
<1> HIDE DEF layout
<1>1. painted \subseteq compute_scaled_layout(last_source)
  BY DEF Picture
<1>2. begin_frame(size) \cup layout \subseteq compute_scaled_layout(size)
  BY <1>1 DEF begin_frame, layout
<1>3. PICK to \in {"Fb", "Lazy", "Widget", "Headless"}, failed \in BOOLEAN, source \in {last_source, size},
           rectangles \in {painted, begin_frame(size) \cup layout} :
        /\ outcome = [target |-> to, failed |-> failed, source |-> source, painted |-> rectangles]
        /\ \/ rectangles = painted /\ source = last_source
           \/ rectangles = begin_frame(size) \cup layout /\ source = size
  <2>1. CASE target = "Fb"
    BY <2>1, Zenon DEF present, layout
  <2>2. CASE target \in {"Lazy", "Widget"}
    BY <2>2, Zenon DEF present
  <2>3. CASE target \notin {"Fb", "Lazy", "Widget"}
    BY <2>3, Zenon DEF present, Picture
  <2> QED BY <2>1, <2>2, <2>3
<1>4. rectangles \subseteq compute_scaled_layout(source)
  BY <1>1, <1>2, <1>3
<1>5. /\ outcome.target = to /\ outcome.failed = failed /\ outcome.source = source /\ outcome.painted = rectangles
  BY <1>3
<1>6. source \in Sizes \cup {NoPicture}
  BY <1>3 DEF Picture
<1> HIDE DEF compute_scaled_layout
<1> QED BY <1>3, <1>4, <1>5, <1>6

\* A step keeps the panel to the picture it was cleared for.
LEMMA PictureKeeps == ASSUME Picture, scope \in Scopes, Next PROVE Picture'
<1>1. CASE Run
  <2>1. PICK skip \in BOOLEAN, size \in Sizes \cup {NoPicture} : video_callback(size, skip)
    BY <1>1 DEF Run
  <2>2. CASE size = NoPicture \/ video_failed \/ skip
    <3>1. UNCHANGED <<target, video_failed, last_source, painted>> /\ present_skip' \in BOOLEAN
          /\ drawn' \in {"Drawn", "Shed", "Nothing"}
      BY <2>1, <2>2 DEF video_callback, TakesMark
    <3> QED BY <3>1 DEF Picture, compute_scaled_layout
  <2>3. CASE ~(size = NoPicture \/ video_failed \/ skip)
    <3>1. PICK outcome \in present(size) :
            /\ target' = outcome.target /\ video_failed' = outcome.failed
            /\ last_source' = outcome.source /\ painted' = outcome.painted
            /\ present_skip' = FALSE /\ drawn' = "Drawn"
      BY <2>1, <2>3 DEF video_callback
    <3>2. size \in Sizes
      BY <2>3
    <3>3. painted' \subseteq compute_scaled_layout(outcome.source)
      BY <3>1, <3>2, PresentKeeps
    <3>4. painted' \subseteq compute_scaled_layout(last_source')
      BY <3>1, <3>3
    <3> QED BY <3>1, <3>2, <3>4, PresentKeeps DEF Picture, compute_scaled_layout
  <2> QED BY <2>2, <2>3
<1>2. CASE Killed \/ PowerLost
  <2>1. /\ target' = scope.target /\ video_failed' = FALSE /\ last_source' = NoPicture /\ painted' = {}
        /\ present_skip' = FALSE /\ drawn' = "Nothing"
    BY <1>2 DEF Killed, PowerLost, Relaunched
  <2> QED BY <2>1, HostConstants DEF Picture
<1>3. CASE ~(Run \/ Killed \/ PowerLost)
  <2>1. UNCHANGED pictureVars
    BY <1>3 DEF Next, Host, Start, Stopped, Ask, Wake, Check, SaveOpen, SaveWrite, SaveRename, Pace, Close, Join, Writer,
       Device, Signal, Compositor, Touch
  <2> QED BY <2>1 DEF Picture, pictureVars, compute_scaled_layout
<1> QED BY <1>1, <1>2, <1>3

\* So there is one picture at a time, inside the margin.
LEMMA OneRectangle == ASSUME Picture PROVE OnePicture
<1>1. compute_scaled_layout(last_source) = {} => painted = {}
  BY DEF Picture
<1>2. CASE painted = {}
  BY <1>2, FS_EmptySet DEF OnePicture
<1>3. CASE painted # {}
  <2>1. PICK r : /\ compute_scaled_layout(last_source) = {r}
                 /\ r.x >= SAFE_INSET /\ r.x + r.width <= LOGICAL_WIDTH - SAFE_INSET
                 /\ r.y >= SAFE_INSET /\ r.y + r.height <= LOGICAL_HEIGHT - SAFE_INSET
    BY <1>1, <1>3, LaidOut DEF Picture
  <2>2. painted = {r}
    BY <1>3, <2>1 DEF Picture
  <2>3. Cardinality({r}) = 1
    BY FS_Singleton
  <2> QED BY <2>1, <2>2, <2>3 DEF OnePicture
<1> QED BY <1>2, <1>3

-----------------------------------------------------------------------------
\* Where the host is.

\* The clock is never far behind.
LEMMA ClockKept == ASSUME behind \in 0..10, NEW time \in Nat PROVE wait_for_next_frame(time) \in 0..10
BY DEF wait_for_next_frame

\* Every step keeps the host where it can be.
LEMMA LifeKeeps == ASSUME Life, Next PROVE Life'
<1> USE DEF Life
<1>1. CASE Start
  <2>1. pc' \in {"Head", "Ended"} /\ why' \in {why, "refused"} /\ UNCHANGED <<scope, behind, outsideVars, frames, crashes>>
    BY <1>1, Zenon DEF Start
  <2> QED BY <2>1 DEF outsideVars
<1>2. CASE Stopped \/ Wake
  BY <1>2 DEF Stopped, Wake, Leave, BeginSave, outsideVars
<1>3. CASE Run
  BY <1>3 DEF Run, outsideVars
<1>4. ASSUME Counted
      PROVE  /\ frames' \in 0..(SAVE_EVERY - 1) /\ pc' \in {"Pace", "SaveOpen"}
             /\ why' \in {"none", "refused", "signal", "video", "widget", "hold", "limit"}
  <2>1. (frames + 1) % SAVE_EVERY \in 0..(SAVE_EVERY - 1)
    BY HostConstants
  <2> QED BY <1>4, <2>1 DEF Counted, BeginSave, Leave
<1>5. CASE Ask
  BY <1>4, <1>5 DEF Ask, Leave, BeginSave, outsideVars
<1>6. CASE Check
  BY <1>4, <1>6 DEF Check, Leave, BeginSave, outsideVars
<1>7. CASE SaveOpen
  BY <1>7 DEF SaveOpen, SaveError, Saved, outsideVars
<1>8. CASE SaveWrite
  BY <1>8 DEF SaveWrite, SaveError, Saved, outsideVars
<1>9. CASE SaveRename
  BY <1>9 DEF SaveRename, SaveError, Saved, outsideVars
<1>10. CASE Pace
  <2>1. PICK time \in IF About("picture") THEN FrameTimes ELSE {2} : behind' = wait_for_next_frame(time)
    BY <1>10 DEF Pace
  <2>2. behind' \in 0..10
    BY <2>1, ClockKept, HostConstants
  <2> QED BY <1>10, <2>2 DEF Pace, outsideVars
<1>11. CASE Close \/ Join
  BY <1>11 DEF Close, Join, outsideVars
<1>12. CASE Writer \/ Device
  BY <1>12 DEF Writer, Device, outsideVars
<1>13. CASE Signal \/ Compositor \/ Touch
  BY <1>13 DEF Signal, Compositor, Touch, outsideVars
<1>14. CASE Killed \/ PowerLost
  <2>1. crashes' = crashes + 1 /\ crashes < MaxCrashes /\ Relaunched
    BY <1>14 DEF Killed, PowerLost
  <2>2. crashes' \in 0..MaxCrashes /\ 0 \in 0..(SAVE_EVERY - 1)
    BY <2>1, HostConstants
  <2>3. /\ pc' = "Off" /\ why' = "none" /\ behind' = 0 /\ frames' = 0 /\ UNCHANGED scope
        /\ active' = TRUE /\ asked' = FALSE /\ signalled' = FALSE
    BY <2>1 DEF Relaunched
  <2>4. frames' \in 0..(SAVE_EVERY - 1) /\ behind' \in 0..10 /\ scope' \in Scopes
    BY <2>2, <2>3
  <2>5. active' \in BOOLEAN /\ asked' \in BOOLEAN /\ signalled' \in BOOLEAN
    BY <2>3
  <2> QED BY <2>2, <2>3, <2>4, <2>5
<1> QED BY <1>1, <1>2, <1>3, <1>5, <1>6, <1>7, <1>8, <1>9, <1>10, <1>11, <1>12, <1>13, <1>14 DEF Next, Host

-----------------------------------------------------------------------------
\* The saves.

\* What a file may hold: a version of the memory, or one of four others.
LEMMA Held ==
  /\ 0..MaxVersion \subseteq Torn..MaxVersion /\ 0 \in 0..MaxVersion
  /\ {Absent, Foreign, Encoded, Torn} \subseteq Torn..MaxVersion
  /\ Absent < 0 /\ Foreign < 0 /\ Encoded < 0 /\ Torn < 0
  /\ Foreign \notin {Absent, Encoded, Torn} /\ Torn \notin {Absent, Encoded}
  /\ Torn..MaxVersion \subseteq Int
BY HostConstants DEF Absent, Foreign, Encoded, Torn

\* Steps that have nothing to do with saves.
LEMMA Unsaved ==
  ASSUME SaveInv, UNCHANGED saveVars,
         \/ pc' = pc
         \/ pc' \in {"Head", "Ask", "Dormant", "Check", "Pace"}
         \/ pc \in {"Close", "Join"} /\ pc' \in {"Join", "Ended"}
  PROVE  SaveInv' /\ SaveKept
<1>1. UNCHANGED <<ram, writable, disk, older, temp, saving, final, complained>>
  BY DEF saveVars
<1>2. SaveInv'
  BY <1>1 DEF SaveInv, SaveTyped, SaveWhole, EndSaved, Saving
<1>3. SaveKept
  <2>1. \A f \in Files : disk[f] \in Int
    BY Held DEF SaveInv, SaveTyped
  <2> QED BY <1>1, <2>1 DEF SaveKept
<1> QED BY <1>2, <1>3

\* A save begins.
LEMMA SaveBegins == ASSUME SaveInv, NEW last \in BOOLEAN, BeginSave(last) PROVE SaveInv' /\ SaveKept
<1>1. /\ saving' = "sram" /\ final' = last /\ complained' = FALSE /\ pc' = "SaveOpen"
      /\ UNCHANGED <<ram, writable, disk, older, temp>>
  BY DEF BeginSave
<1>2. SaveInv'
  BY <1>1 DEF SaveInv, SaveTyped, SaveWhole, EndSaved, Saving, Files
<1>3. SaveKept
  <2>1. \A f \in Files : disk[f] \in Int
    BY Held DEF SaveInv, SaveTyped
  <2> QED BY <1>1, <2>1 DEF SaveKept
<1> QED BY <1>2, <1>3

\* A save fails.
LEMMA SaveFails == ASSUME SaveInv, SaveError(saving) PROVE SaveInv' /\ SaveKept
<1>1. /\ temp' = [temp EXCEPT ![saving] = Absent] /\ complained' = TRUE /\ saving' = "none"
      /\ pc' \in {"Close", "Pace"} /\ UNCHANGED <<ram, writable, disk, older, final>>
  BY DEF SaveError, Saved
<1>2. temp' \in [Files -> Torn..MaxVersion]
  BY <1>1, Held DEF SaveInv, SaveTyped
<1>3. SaveInv'
  BY <1>1, <1>2 DEF SaveInv, SaveTyped, SaveWhole, EndSaved, Saving
<1>4. SaveKept
  <2>1. \A f \in Files : disk[f] \in Int
    BY Held DEF SaveInv, SaveTyped
  <2> QED BY <1>1, <2>1 DEF SaveKept
<1> QED BY <1>3, <1>4

\* Saving goes on to the next file, or ends: the file in hand is done.
LEMMA SaveGoesOn ==
  ASSUME SaveInv, Saving, SaveTyped', SaveWhole', UNCHANGED <<ram, writable, final, complained>>,
         saving' = NextFile(saving), pc' = IF NextFile(saving) = "none" THEN Saved ELSE "SaveOpen",
         \A f \in Files \ {saving} : disk'[f] = disk[f],
         writable[saving] => disk'[saving] = ram[saving],
         ~writable[saving] => disk'[saving] = disk[saving]
  PROVE  SaveInv' /\ SaveKept
<1>1. \A f \in Files : disk[f] \in Int /\ ram[f] \in Int /\ ram[f] # Foreign /\ disk'[f] \in Int
  BY Held DEF SaveInv, SaveTyped
<1>2. saving \in Files /\ ~complained
  BY DEF SaveInv
<1>3. CASE saving = "sram"
  <2>1. saving' = "rtc" /\ pc' = "SaveOpen"
    BY <1>3 DEF NextFile
  <2> QED BY <1>1, <1>2, <1>3, <2>1 DEF SaveInv, EndSaved, Saving, SaveKept, Files
<1>4. CASE saving = "rtc"
  <2>1. saving' = "none" /\ pc' \in {"Close", "Pace"}
    BY <1>4 DEF NextFile, Saved
  <2>2. \A f \in Files : writable[f] => disk'[f] = ram[f]
    BY <1>4 DEF SaveInv, Saving, Files
  <2> QED BY <1>1, <1>2, <1>4, <2>1, <2>2 DEF SaveInv, EndSaved, Saving, SaveKept, Files
<1> QED BY <1>2, <1>3, <1>4 DEF Files

\* SaveOpen: a file that may not be written is passed over.
LEMMA SaveOpenKeeps == ASSUME SaveInv, SaveOpen PROVE SaveInv' /\ SaveKept
<1>1. Saving /\ saving \in Files
  BY DEF SaveOpen, SaveInv, Saving
<1>2. CASE /\ ~writable[saving]
           /\ saving' = NextFile(saving)
           /\ pc' = IF NextFile(saving) = "none" THEN Saved ELSE "SaveOpen"
           /\ UNCHANGED <<ram, writable, disk, older, temp, final, complained>>
  <2>1. SaveWhole'
    BY <1>2 DEF SaveInv, SaveWhole
  <2>2. SaveTyped'
    BY <1>1, <1>2 DEF SaveInv, SaveTyped, NextFile, Files
  <2> QED BY <1>1, <1>2, <2>1, <2>2, SaveGoesOn
<1>3. CASE /\ writable[saving] /\ temp' = [temp EXCEPT ![saving] = Torn]
           /\ pc' = "SaveWrite"
           /\ UNCHANGED <<ram, writable, disk, older, saving, final, complained>>
  <2>1. temp' \in [Files -> Torn..MaxVersion]
    BY <1>3, Held DEF SaveInv, SaveTyped
  <2>2. \A f \in Files : disk[f] \in Int
    BY Held DEF SaveInv, SaveTyped
  <2> QED BY <1>1, <1>3, <2>1, <2>2 DEF SaveInv, SaveTyped, SaveWhole, EndSaved, Saving, SaveKept
<1>4. CASE SaveError(saving)
  BY <1>4, SaveFails
<1> QED BY <1>2, <1>3, <1>4 DEF SaveOpen

\* SaveWrite: the temporary file is whole, or the save has failed.
LEMMA SaveWriteKeeps == ASSUME SaveInv, SaveWrite PROVE SaveInv' /\ SaveKept
<1>1. Saving /\ saving \in Files /\ writable[saving] /\ ram[saving] \in Torn..MaxVersion
  <2>1. Saving /\ saving \in Files /\ writable[saving]
    BY DEF SaveWrite, SaveInv, Saving
  <2> QED BY <2>1, Held DEF SaveInv, SaveTyped
<1>2. CASE /\ temp' = [temp EXCEPT ![saving] = ram[saving]]
           /\ pc' = "SaveRename"
           /\ UNCHANGED <<ram, writable, disk, older, saving, final, complained>>
  <2>1. temp' \in [Files -> Torn..MaxVersion] /\ temp'[saving] = ram[saving]
    BY <1>1, <1>2 DEF SaveInv, SaveTyped
  <2>2. \A f \in Files : disk[f] \in Int
    BY Held DEF SaveInv, SaveTyped
  <2> QED BY <1>1, <1>2, <2>1, <2>2 DEF SaveInv, SaveTyped, SaveWhole, EndSaved, Saving, SaveKept
<1>3. CASE SaveError(saving)
  BY <1>3, SaveFails
<1> QED BY <1>2, <1>3 DEF SaveWrite

\* SaveRename: a whole save takes the place of an older one.
LEMMA SaveRenameKeeps == ASSUME SaveInv, SaveRename PROVE SaveInv' /\ SaveKept
<1>1. /\ Saving /\ saving \in Files /\ writable[saving] /\ temp[saving] = ram[saving]
      /\ ram[saving] \in 0..MaxVersion /\ disk[saving] \in Torn..MaxVersion /\ disk[saving] # Torn
  <2>1. Saving /\ saving \in Files /\ writable[saving] /\ temp[saving] = ram[saving]
    BY DEF SaveRename, SaveInv, Saving
  <2> QED BY <2>1 DEF SaveInv, SaveTyped, SaveWhole
<1>2. CASE /\ disk' = [disk EXCEPT ![saving] = temp[saving]]
           /\ older' = [older EXCEPT ![saving] = @ \cup {disk[saving]}]
           /\ temp' = [temp EXCEPT ![saving] = Absent]
           /\ saving' = NextFile(saving)
           /\ pc' = IF NextFile(saving) = "none" THEN Saved ELSE "SaveOpen"
           /\ UNCHANGED <<ram, writable, final, complained>>
  <2>1. /\ disk' \in [Files -> Torn..MaxVersion] /\ disk'[saving] = ram[saving]
        /\ \A f \in Files \ {saving} : disk'[f] = disk[f]
    BY <1>1, <1>2, Held DEF SaveInv, SaveTyped
  <2>2. older' \in [Files -> SUBSET (Torn..MaxVersion)] /\ \A f \in Files : Torn \notin older'[f]
    <3>1. \A f \in Files : older[f] \in SUBSET (Torn..MaxVersion) /\ Torn \notin older[f]
      BY DEF SaveInv, SaveTyped, SaveWhole
    <3> DEFINE more == older[saving] \cup {disk[saving]}
    <3>2. more \in SUBSET (Torn..MaxVersion) /\ Torn \notin more
      BY <1>1, <3>1
    <3>3. older' = [older EXCEPT ![saving] = more]
      BY <1>2
    <3> HIDE DEF more
    <3> QED BY <1>1, <3>1, <3>2, <3>3 DEF SaveInv, SaveTyped
  <2>3. temp' \in [Files -> Torn..MaxVersion]
    BY <1>2, Held DEF SaveInv, SaveTyped
  <2>4. SaveTyped'
    BY <1>1, <1>2, <2>1, <2>2, <2>3 DEF SaveInv, SaveTyped, NextFile, Files
  <2>5. SaveWhole'
    <3>1. \A f \in Files : disk'[f] # Torn
      BY <1>1, <2>1, Held DEF SaveInv, SaveWhole
    <3> QED BY <2>2, <3>1 DEF SaveWhole
  <2> QED BY <1>1, <1>2, <2>1, <2>4, <2>5, SaveGoesOn
<1>3. CASE SaveError(saving)
  BY <1>3, SaveFails
<1> QED BY <1>2, <1>3 DEF SaveRename

\* What is loaded is not newer than the file, and what is not is not written.
LEMMA Loaded ==
  ASSUME NEW content \in Torn..MaxVersion, content # Torn, NEW loaded \in load_memory_file(content)
  PROVE  /\ loaded.memory \in 0..MaxVersion /\ loaded.writable \in BOOLEAN
         /\ loaded.writable => content # Foreign /\ content <= loaded.memory
<1>1. content \in Int /\ content <= MaxVersion /\ 0 \in 0..MaxVersion /\ MaxVersion \in Nat
  BY Held, HostConstants
<1> DEFINE m == IF content >= 0 THEN content ELSE 0
           w == content \in {Absent, Encoded} \/ content >= 0
<1>2. m \in 0..MaxVersion /\ w \in BOOLEAN /\ (w => content # Foreign /\ content <= m)
  BY <1>1, Held
<1>3. \/ loaded = [memory |-> m, writable |-> w]
      \/ loaded = [memory |-> 0, writable |-> FALSE]
  BY Zenon DEF load_memory_file
<1> HIDE DEF m, w
<1>4. CASE loaded = [memory |-> m, writable |-> w]
  <2>1. loaded.memory = m /\ loaded.writable = w
    BY <1>4
  <2> QED BY <1>2, <2>1
<1>5. CASE loaded = [memory |-> 0, writable |-> FALSE]
  BY <1>1, <1>5
<1> QED BY <1>3, <1>4, <1>5

\* Start: a game begins with what its files hold.
LEMMA StartSaves == ASSUME SaveInv, Start PROVE SaveInv' /\ SaveKept
<1>1. /\ pc = "Off" /\ UNCHANGED <<disk, older, temp, saving, final, complained>> /\ ~final
      /\ \A f \in Files : ~writable[f] /\ disk[f] \in Torn..MaxVersion /\ disk[f] \in Int
  BY Held DEF Start, SaveInv, SaveTyped
<1>2. SaveKept
  BY <1>1 DEF SaveKept
<1>3. CASE pc' = "Ended" /\ UNCHANGED <<ram, writable>>
  BY <1>1, <1>2, <1>3 DEF SaveInv, SaveTyped, SaveWhole, EndSaved, Saving
<1>4. CASE ~(pc' = "Ended" /\ UNCHANGED <<ram, writable>>)
  <2>1. PICK sram \in load_memory_file(disk["sram"]), rtc \in load_memory_file(disk["rtc"]) :
          LET loaded == [f \in Files |-> IF f = "sram" THEN sram ELSE rtc]
          IN /\ pc' = "Head"
             /\ ram' = [f \in Files |-> loaded[f].memory]
             /\ writable' = [f \in Files |-> About("saves") /\ loaded[f].writable]
    BY <1>4 DEF Start
  <2> DEFINE loaded == [f \in Files |-> IF f = "sram" THEN sram ELSE rtc]
  <2>2. ASSUME NEW f \in Files
        PROVE  /\ loaded[f].memory \in 0..MaxVersion /\ loaded[f].writable \in BOOLEAN
               /\ loaded[f].writable => disk[f] # Foreign /\ disk[f] <= loaded[f].memory
    <3>1. disk[f] \in Torn..MaxVersion /\ disk[f] # Torn
      BY <1>1 DEF SaveInv, SaveWhole
    <3>2. loaded[f] \in load_memory_file(disk[f])
      BY <2>1 DEF Files
    <3> HIDE DEF loaded
    <3> QED BY <3>1, <3>2, Loaded
  <2>3. ram' = [f \in Files |-> loaded[f].memory] /\ writable' = [f \in Files |-> About("saves") /\ loaded[f].writable]
    BY <2>1
  <2> HIDE DEF loaded
  <2>4. ram' \in [Files -> 0..MaxVersion] /\ writable' \in [Files -> BOOLEAN]
    BY <2>2, <2>3
  <2>5. \A f \in Files : writable'[f] => disk'[f] # Foreign /\ disk'[f] <= ram'[f]
    BY <1>1, <2>2, <2>3
  <2>6. pc' = "Head"
    BY <2>1
  <2> QED BY <1>1, <1>2, <2>4, <2>5, <2>6 DEF SaveInv, SaveTyped, SaveWhole, EndSaved, Saving
<1> QED BY <1>3, <1>4

\* Run: the memory moves on by at most one version.
LEMMA RunSaves == ASSUME SaveInv, Run PROVE SaveInv' /\ SaveKept
<1>1. /\ UNCHANGED <<writable, disk, older, temp, saving, final, complained>> /\ pc' = "Ask"
      /\ ram' \in [Files -> 0..MaxVersion] /\ \A f \in Files : ram'[f] \in {ram[f], ram[f] + 1}
  BY DEF Run, SaveInv, SaveTyped
<1>2. \A f \in Files : disk[f] \in Int /\ ram[f] \in Int
  BY Held DEF SaveInv, SaveTyped
<1>3. \A f \in Files : disk[f] <= ram[f] => disk[f] <= ram'[f]
  BY <1>1, <1>2
<1> QED BY <1>1, <1>2, <1>3 DEF SaveInv, SaveTyped, SaveWhole, EndSaved, Saving, SaveKept

\* Another process begins with no memory.
LEMMA RelaunchedSaves ==
  ASSUME Relaunched, SaveWhole', disk' \in [Files -> Torn..MaxVersion], temp' \in [Files -> Torn..MaxVersion],
         older' \in [Files -> SUBSET (Torn..MaxVersion)]
  PROVE  SaveInv'
<1>1. /\ pc' = "Off" /\ ram' = [f \in Files |-> 0] /\ writable' = [f \in Files |-> FALSE]
      /\ saving' = "none" /\ final' = FALSE /\ complained' = FALSE
  BY DEF Relaunched
<1>2. ram' \in [Files -> 0..MaxVersion] /\ writable' \in [Files -> BOOLEAN] /\ \A f \in Files : ~writable'[f]
  BY <1>1, Held
<1> QED BY <1>1, <1>2 DEF SaveInv, SaveTyped, EndSaved, Saving

\* Every step keeps saves whole and puts none back.
LEMMA SavesKeep == ASSUME SaveInv, Life, Next PROVE SaveInv' /\ SaveKept
<1>1. CASE Start
  BY <1>1, StartSaves
<1>2. CASE Stopped \/ Wake
  <2>1. BeginSave(TRUE) \/ (UNCHANGED saveVars /\ pc' = "Check")
    BY <1>2 DEF Stopped, Wake, Leave, saveVars
  <2> QED BY <2>1, SaveBegins, Unsaved
<1>3. CASE Run
  BY <1>3, RunSaves
<1>4. CASE Ask \/ Check
  <2>1. BeginSave(TRUE) \/ BeginSave(FALSE) \/ (UNCHANGED saveVars /\ pc' \in {"Pace", "Check", "Dormant"})
    BY <1>4 DEF Ask, Check, Counted, Leave
  <2> QED BY <2>1, SaveBegins, Unsaved
<1>5. CASE SaveOpen \/ SaveWrite \/ SaveRename
  BY <1>5, SaveOpenKeeps, SaveWriteKeeps, SaveRenameKeeps
<1>6. CASE Pace \/ Close \/ Join
  <2>1. UNCHANGED saveVars /\ (pc' = "Head" \/ (pc \in {"Close", "Join"} /\ pc' \in {"Join", "Ended"}))
    BY <1>6 DEF Pace, Close, Join
  <2> QED BY <2>1, Unsaved
<1>7. CASE Writer \/ Device \/ Signal \/ Compositor \/ Touch
  <2>1. UNCHANGED saveVars /\ pc' = pc
    BY <1>7 DEF Writer, Device, Signal, Compositor, Touch
  <2> QED BY <2>1, Unsaved
<1>8. CASE Killed \/ PowerLost
  <2>1. crashes' # crashes
    <3>1. crashes' = crashes + 1 /\ crashes \in Int
      BY <1>8 DEF Killed, PowerLost, Life
    <3> QED BY <3>1
  <2>2. SaveKept
    BY <2>1 DEF SaveKept
  <2>3. temp' \in [Files -> Torn..MaxVersion]
    <3>1. temp' \in {temp, [f \in Files |-> Absent], [f \in Files |-> IF temp[f] = Absent THEN Absent ELSE Torn]}
      BY <1>8 DEF Killed, PowerLost
    <3> QED BY <3>1, Held DEF SaveInv, SaveTyped
  <2>4. disk' \in [Files -> Torn..MaxVersion] /\ older' \in [Files -> SUBSET (Torn..MaxVersion)] /\ SaveWhole'
    <3>1. CASE Killed
      BY <3>1 DEF Killed, SaveInv, SaveTyped, SaveWhole
    <3>2. CASE PowerLost
      <4>1. /\ disk' \in [Files -> Torn..MaxVersion] /\ \A f \in Files : disk'[f] \in {disk[f]} \cup older[f]
            /\ older' = [f \in Files |-> {}]
        BY <3>2 DEF PowerLost
      <4> QED BY <4>1 DEF SaveInv, SaveWhole
    <3> QED BY <1>8, <3>1, <3>2
  <2>5. Relaunched
    BY <1>8 DEF Killed, PowerLost
  <2> QED BY <2>2, <2>3, <2>4, <2>5, RelaunchedSaves
<1> QED BY <1>1, <1>2, <1>3, <1>4, <1>5, <1>6, <1>7, <1>8 DEF Next, Host

-----------------------------------------------------------------------------
\* The exit hold: what the reports of one turn make of it.

\* The loop over the reports of a turn, as FoldTheorems takes it.
Update(none, hold, report) == update_exit_hold(hold, report)
F == INSTANCE FoldTheorems WITH op <- Update

\* A hold in hand: its age, and whether it was completed.
HoldStates == [age : None..HOLD, complete : BOOLEAN]

\* A fold of the library is the fold that FoldTheorems is about.
LEMMA HoldFold == ASSUME NEW base, NEW s PROVE FoldLeft(update_exit_hold, base, s) = F!Fold({}, base, s)
BY DEF Update, F!Fold, FoldLeft, F!FoldLeft, MapThenFoldSet, F!MapThenFoldSet, Max, F!Max

\* One report.
LEMMA OneReport ==
  ASSUME NEW hold \in HoldStates, NEW report \in Reports
  PROVE  /\ update_exit_hold(hold, report) \in HoldStates
         /\ hold.age \in {None, 0} \/ report # "In" =>
              update_exit_hold(hold, report).complete = hold.complete
         /\ hold.age \in {None, 0} \/ report # "In" =>
              update_exit_hold(hold, report).age = IF report = "In" THEN 0 ELSE None
<1> DEFINE new == update_exit_hold(hold, report)
           a == IF report = "In" THEN (IF hold.age = None THEN 0 ELSE hold.age) ELSE None
           c == hold.complete \/ (report = "In" /\ hold.age >= HOLD)
<1>1. hold.age \in None..HOLD /\ hold.complete \in BOOLEAN /\ None = -1 /\ HOLD \in Nat \ {0}
  BY HostConstants DEF HoldStates, None
<1>2. new = [age |-> a, complete |-> c]
  BY DEF update_exit_hold, Holds
<1>3. a \in None..HOLD /\ c \in BOOLEAN
  BY <1>1
<1>4. ASSUME hold.age \in {None, 0} \/ report # "In"
      PROVE  c = hold.complete /\ a = IF report = "In" THEN 0 ELSE None
  BY <1>1, <1>4
<1> HIDE DEF new, a, c
<1>5. new.age = a /\ new.complete = c /\ new \in HoldStates
  BY <1>2, <1>3 DEF HoldStates
<1> QED BY <1>4, <1>5 DEF new

\* All of them: they make a hold of a hold.
LEMMA AllReports ==
  ASSUME NEW base \in HoldStates, NEW s \in Seq(Reports)
  PROVE  F!Fold({}, base, s) \in HoldStates
<1>1. \A x \in HoldStates, e \in Reports : update_exit_hold(x, e) \in HoldStates
  BY OneReport
<1> HIDE DEF update_exit_hold, HoldStates, Reports
<1> QED BY <1>1, F!FoldKeeps DEF Update

\* Reports that do not go on with a hold from an earlier turn complete none:
\* a contact that begins among them is as old as they are, and it is still there
\* only if the last of them says so.
LEMMA FreshReports ==
  ASSUME NEW base \in HoldStates, ~base.complete
  PROVE  \A s \in Seq(Reports) :
           s # <<>> /\ (base.age = None \/ s[1] # "In") =>
             /\ ~F!Fold({}, base, s).complete /\ F!Fold({}, base, s).age \in {None, 0}
             /\ F!Fold({}, base, s).age = 0 => s[Len(s)] = "In"
<1> DEFINE Fresh(s) == s # <<>> /\ (base.age = None \/ s[1] # "In")
           Good(s) == /\ ~F!Fold({}, base, s).complete /\ F!Fold({}, base, s).age \in {None, 0}
                      /\ F!Fold({}, base, s).age = 0 => s[Len(s)] = "In"
           Bad == {n \in Nat : \E s \in Seq(Reports) : Len(s) = n /\ Fresh(s) /\ ~Good(s)}
<1>1. SUFFICES ASSUME Bad # {} PROVE FALSE
  OBVIOUS
<1>2. Bad \in SUBSET Nat
  OBVIOUS
<1>3. PICK n \in Bad : \A m \in Bad : n <= m
  BY <1>1, <1>2, F!LeastNat
<1>4. PICK s \in Seq(Reports) : Len(s) = n /\ Fresh(s) /\ ~Good(s)
  BY <1>3
<1>5. PICK f \in Seq(Reports), e \in Reports : s = Append(f, e) /\ Len(s) = Len(f) + 1
  BY <1>4, F!LastOff
<1>6. F!Fold({}, base, s) = update_exit_hold(F!Fold({}, base, f), e)
  BY <1>5, F!FoldAppend DEF Update
<1>7. s[Len(s)] = e
  BY <1>5
<1> DEFINE before == F!Fold({}, base, f)
<1>8. before \in HoldStates
  BY AllReports
<1>9. (before.age \in {None, 0} \/ e # "In") /\ ~before.complete
  <2>1. CASE f = <<>>
    <3>1. before = base /\ s[1] = e
      BY <1>5, <2>1, F!FoldEmpty
    <3> QED BY <1>4, <3>1
  <2>2. CASE f # <<>>
    <3>1. f[1] = s[1] /\ Len(f) \in Nat /\ ~(n <= Len(f))
      BY <1>4, <1>5, <2>2
    <3>2. Len(f) \notin Bad
      BY <1>3, <3>1
    <3>3. Fresh(f)
      BY <1>4, <2>2, <3>1
    <3>4. Good(f)
      BY <3>1, <3>2, <3>3
    <3> QED BY <3>4
  <2> QED BY <2>1, <2>2
<1> HIDE DEF before
<1>10. /\ update_exit_hold(before, e).complete = before.complete
       /\ update_exit_hold(before, e).age = IF e = "In" THEN 0 ELSE None
  BY <1>8, <1>9, OneReport
<1>11. None # 0
  BY DEF None
<1>12. Good(s)
  BY <1>6, <1>7, <1>9, <1>10, <1>11 DEF before
<1> QED BY <1>4, <1>12

\* The loop is left once.
LEMMA LeftKeeps == ASSUME LeftOnce, Next PROVE LeftOnce'
<1>1. CASE Start
  <2>1. why = "none" /\ (UNCHANGED why \/ pc' = "Ended")
    BY <1>1 DEF Start
  <2> QED BY <2>1 DEF LeftOnce
<1>2. CASE Stopped \/ Run \/ Ask \/ Wake \/ Check \/ Pace
  <2>1. why = "none"
    BY <1>2 DEF LeftOnce, Stopped, Run, Ask, Wake, Check, Pace
  <2>2. UNCHANGED why \/ (pc' = "SaveOpen" /\ final' = TRUE)
    BY <1>2 DEF Stopped, Run, Ask, Wake, Check, Pace, Counted, Leave, BeginSave
  <2> QED BY <2>1, <2>2 DEF LeftOnce
<1>3. CASE SaveOpen \/ SaveWrite \/ SaveRename
  <2>1. UNCHANGED <<why, final>> /\ pc' \in {"SaveOpen", "SaveWrite", "SaveRename", Saved}
    <3>1. CASE SaveOpen
      BY <3>1 DEF SaveOpen, SaveError
    <3>2. CASE SaveWrite
      BY <3>2 DEF SaveWrite, SaveError
    <3>3. CASE SaveRename
      BY <3>3 DEF SaveRename, SaveError
    <3> QED BY <1>3, <3>1, <3>2, <3>3
  <2>2. pc \in {"SaveOpen", "SaveWrite", "SaveRename"}
    BY <1>3 DEF SaveOpen, SaveWrite, SaveRename
  <2> QED BY <2>1, <2>2 DEF LeftOnce, Saved
<1>4. CASE Close \/ Join
  BY <1>4 DEF Close, Join, LeftOnce, saveVars
<1>5. CASE Killed \/ PowerLost
  BY <1>5 DEF Killed, PowerLost, Relaunched, LeftOnce
<1>6. CASE Writer \/ Device \/ Signal \/ Compositor \/ Touch
  <2>1. UNCHANGED <<pc, why, final>>
    BY <1>6 DEF Writer, Device, Signal, Compositor, Touch, saveVars
  <2> QED BY <2>1 DEF LeftOnce
<1> QED BY <1>1, <1>2, <1>3, <1>4, <1>5, <1>6 DEF Next, Host

\* A hold that is asked for was meant.
HoldInv == Touched /\ HoldFollows /\ HoldMeant

\* The reports that Check collects make a hold only of one that was there and
\* lasted; and what they make of it goes on with the finger as it is.
LEMMA Collected ==
  ASSUME Touched, HoldFollows, ~asked, NEW hold, hold = FoldLeft(update_exit_hold, [age |-> exit_hold, complete |-> FALSE], reports)
  PROVE  /\ hold.age \in None..HOLD
         /\ hold.complete \/ hold.age >= HOLD => long \/ lost
         /\ lost \/ hold.age = None \/ (finger = "In" /\ held >= hold.age)
<1> DEFINE base == [age |-> exit_hold, complete |-> FALSE]
<1>1. exit_hold \in None..HOLD /\ held \in None..HOLD /\ reports \in Seq(Reports)
  BY DEF Touched
<1>2. base \in HoldStates /\ base.age = exit_hold /\ base.complete = FALSE
  BY <1>1 DEF HoldStates
<1> HIDE DEF base
<1>3. hold = F!Fold({}, base, reports)
  BY HoldFold DEF base
<1>4. hold \in HoldStates
  BY <1>1, <1>2, <1>3, AllReports
<1>5. None = -1 /\ HOLD \in Nat \ {0} /\ hold.age \in None..HOLD
  BY <1>4, HostConstants DEF None, HoldStates
<1>6. CASE lost
  BY <1>5, <1>6
<1>7. CASE ~lost /\ reports = <<>>
  <2>1. hold = base
    BY <1>3, <1>7, F!FoldEmpty
  <2>2. hold.age = exit_hold /\ ~hold.complete
    BY <1>2, <2>1
  <2> QED BY <1>1, <1>5, <1>7, <2>2 DEF HoldFollows
<1>8. CASE ~lost /\ reports # <<>>
  <2>1. base.age = None \/ reports[1] # "In"
    BY <1>2, <1>8 DEF HoldFollows
  <2>2. ~hold.complete /\ hold.age \in {None, 0} /\ (hold.age = 0 => reports[Len(reports)] = "In")
    BY <1>1, <1>2, <1>3, <1>8, <2>1, FreshReports
  <2>3. hold.age = 0 => finger = "In" /\ held >= 0
    <3>1. hold.age = 0 => finger = "In" /\ held # None
      BY <1>8, <2>2 DEF Touched
    <3> QED BY <1>1, <1>5, <3>1
  <2> QED BY <1>5, <2>2, <2>3
<1> QED BY <1>6, <1>7, <1>8

\* Check: reports are collected, and a completed hold leaves the game.
LEMMA CheckHolds == ASSUME HoldInv, LeftOnce, Life, Check PROVE HoldInv'
<1> DEFINE hold == FoldLeft(update_exit_hold, [age |-> exit_hold, complete |-> FALSE], reports)
<1>1. /\ pc = "Check" /\ why = "none" /\ UNCHANGED <<scope, finger, held, asked>>
      /\ None = -1 /\ HOLD \in Nat \ {0} /\ <<>> \in Seq(Reports) /\ Len(<<>>) = 0 /\ MaxReports \in Nat
  BY HostConstants DEF Check, LeftOnce, outsideVars, None, touchVars
<1>2. CASE asked \/ signalled
  <2>1. UNCHANGED <<exit_hold, finger, reports, held, long, lost, asked, scope>> /\ why' # "hold"
    BY <1>1, <1>2 DEF Check, Leave, touchVars
  <2> QED BY <2>1 DEF HoldInv, Touched, HoldFollows, HoldMeant
<1>3. CASE ~(asked \/ signalled) /\ ~scope.hint
  <2>1. reports' = <<>> /\ Counted /\ UNCHANGED <<exit_hold, finger, held, long, lost>>
    BY <1>3 DEF Check
  <2>2. exit_hold = None /\ why' # "hold"
    BY <1>1, <1>3, <2>1 DEF Counted, BeginSave, Leave, HoldInv, Touched
  <2> QED BY <1>1, <2>1, <2>2 DEF HoldInv, Touched, HoldFollows, HoldMeant
<1>4. CASE ~(asked \/ signalled) /\ scope.hint
  <2>1. /\ hold.age \in None..HOLD
        /\ hold.complete \/ hold.age >= HOLD => long \/ lost
        /\ lost \/ hold.age = None \/ (finger = "In" /\ held >= hold.age)
    BY <1>4, Collected DEF HoldInv
  <2>2. /\ exit_hold' = hold.age /\ reports' = <<>>
        /\ IF hold.complete \/ hold.age >= HOLD THEN Leave("hold") /\ UNCHANGED <<long, lost>>
           ELSE long' = FALSE /\ lost' = (lost /\ hold.age # None) /\ Counted
    BY <1>4, Zenon DEF Check
  <2> HIDE DEF hold
  <2>3. CASE hold.complete \/ hold.age >= HOLD
    <3>1. Leave("hold") /\ UNCHANGED <<long, lost>> /\ (long \/ lost)
      BY <2>1, <2>2, <2>3
    <3>2. why' = "hold"
      BY <3>1 DEF Leave
    <3>3. Touched'
      BY <1>1, <1>4, <2>1, <2>2, <3>1 DEF HoldInv, Touched
    <3>4. HoldFollows'
      BY <1>1, <2>1, <2>2, <3>1 DEF HoldFollows
    <3> QED BY <3>1, <3>2, <3>3, <3>4 DEF HoldInv, HoldMeant
  <2>4. CASE ~(hold.complete \/ hold.age >= HOLD)
    <3>1. long' = FALSE /\ lost' = (lost /\ hold.age # None) /\ Counted
      BY <2>2, <2>4
    <3>2. why' # "hold"
      BY <1>1, <3>1 DEF Counted, BeginSave, Leave
    <3>3. Touched'
      <4>1. long' \in BOOLEAN /\ lost' \in BOOLEAN
        BY <3>1
      <4> QED BY <1>1, <1>4, <2>1, <2>2, <4>1 DEF HoldInv, Touched
    <3>4. HoldFollows'
      <4>1. lost /\ hold.age # None => lost'
        BY <3>1
      <4>2. ~lost /\ hold.age # None => finger = "In" /\ held >= hold.age /\ ~(hold.age >= HOLD)
        BY <2>1, <2>4
      <4>3. lost' \/ hold.age = None \/ (finger = "In" /\ held >= hold.age /\ ~(hold.age >= HOLD))
        BY <4>1, <4>2
      <4> QED BY <1>1, <2>2, <4>3 DEF HoldFollows
    <3> QED BY <3>2, <3>3, <3>4 DEF HoldInv, HoldMeant
  <2> QED BY <2>3, <2>4
<1> QED BY <1>2, <1>3, <1>4

\* Pace: time passes for the hold and for the finger alike.
LEMMA PaceHolds == ASSUME HoldInv, LeftOnce, Pace PROVE HoldInv'
<1>1. /\ why = "none" /\ UNCHANGED <<scope, why, finger, reports, lost, asked>>
      /\ None = -1 /\ HOLD \in Nat \ {0} /\ exit_hold \in None..HOLD /\ held \in None..HOLD
  BY HostConstants DEF Pace, LeftOnce, outsideVars, None, HoldInv, Touched
<1>2. PICK ticks \in 0..1 :
        /\ exit_hold' = IF exit_hold = None THEN None ELSE Least(HOLD, exit_hold + ticks)
        /\ held' = IF held = None THEN None ELSE Least(HOLD, held + ticks)
        /\ long' = (long \/ held' = HOLD)
  BY DEF Pace
<1>3. /\ exit_hold' \in None..HOLD /\ held' \in None..HOLD /\ (held # None => held' # None)
      /\ (exit_hold = None <=> exit_hold' = None)
      /\ (exit_hold # None /\ held >= exit_hold => held' >= exit_hold' /\ (exit_hold' >= HOLD => held' = HOLD))
  BY <1>1, <1>2 DEF Least
<1>4. long' \in BOOLEAN /\ (long => long') /\ (held' = HOLD => long')
  BY <1>2
<1>5. Touched'
  BY <1>1, <1>3, <1>4 DEF HoldInv, Touched
<1>6. HoldFollows'
  BY <1>1, <1>3, <1>4 DEF HoldInv, HoldFollows
<1> QED BY <1>1, <1>5, <1>6 DEF HoldInv, HoldMeant

\* Touch: another report.
LEMMA TouchHolds == ASSUME HoldInv, Touch PROVE HoldInv'
<1>1. /\ UNCHANGED <<scope, why, exit_hold, long, lost, asked>> /\ Len(reports) < MaxReports
      /\ finger' \in Reports \ {finger} /\ reports' = Append(reports, finger')
      /\ held' = IF finger' = "In" THEN 0 ELSE None
  BY DEF Touch, outsideVars, Reports
<1>2. /\ None = -1 /\ HOLD \in Nat \ {0} /\ MaxReports \in Nat /\ reports \in Seq(Reports)
  BY HostConstants DEF None, HoldInv, Touched
<1>3. /\ reports' \in Seq(Reports) /\ reports' # <<>> /\ reports'[Len(reports')] = finger' /\ Len(reports') <= MaxReports
      /\ reports'[1] = IF reports = <<>> THEN finger' ELSE reports[1]
  BY <1>1, <1>2
<1>4. held' \in None..HOLD /\ (finger' = "In" => held' # None)
  BY <1>1, <1>2
<1>5. Touched'
  BY <1>1, <1>3, <1>4 DEF HoldInv, Touched
<1>6. HoldFollows'
  BY <1>1, <1>3 DEF HoldInv, HoldFollows
<1> QED BY <1>1, <1>5, <1>6 DEF HoldInv, HoldMeant

\* Compositor: a hold is lost with the widget's surface.
LEMMA CompositorHolds == ASSUME HoldInv, Life, Compositor PROVE HoldInv'
<1>1. /\ UNCHANGED <<scope, why, exit_hold, long>> /\ finger' = "Up" /\ reports' = <<>> /\ held' = None
      /\ lost' = (lost \/ (asked' = asked /\ exit_hold # None))
      /\ (asked' = asked \/ asked' = TRUE)
  BY DEF Compositor
<1>2. /\ None = -1 /\ HOLD \in Nat \ {0} /\ MaxReports \in Nat /\ <<>> \in Seq(Reports) /\ Len(<<>>) = 0
      /\ "Up" \in Reports
  BY HostConstants DEF None, Reports
<1>3. lost' \in BOOLEAN /\ (lost => lost') /\ (asked' \/ exit_hold = None \/ lost')
  BY <1>1
<1>4. held' \in None..HOLD
  BY <1>1, <1>2
<1>5. Touched'
  BY <1>1, <1>2, <1>3, <1>4 DEF HoldInv, Touched
<1>6. HoldFollows'
  BY <1>1, <1>3 DEF HoldInv, HoldFollows
<1> QED BY <1>1, <1>3, <1>5, <1>6 DEF HoldInv, HoldMeant

\* Every step keeps holds meant.
LEMMA HoldKeeps == ASSUME HoldInv, LeftOnce, Life, Next PROVE HoldInv'
<1>0. /\ None = -1 /\ HOLD \in Nat \ {0} /\ MaxReports \in Nat /\ <<>> \in Seq(Reports) /\ Len(<<>>) = 0
      /\ "Up" \in Reports
  BY HostConstants DEF None, Reports
<1>1. CASE Check
  BY <1>1, CheckHolds
<1>2. CASE Pace
  BY <1>2, PaceHolds
<1>3. CASE Touch
  BY <1>3, TouchHolds
<1>4. CASE Compositor
  BY <1>4, CompositorHolds
<1>5. CASE Ask
  <2>1. why = "none" /\ UNCHANGED <<scope, asked, finger, reports, held, long, lost>> /\ exit_hold' \in {exit_hold, None}
    BY <1>5 DEF Ask, LeftOnce, outsideVars, touchVars
  <2>2. why' # "hold"
    BY <1>5, <2>1 DEF Ask, Counted, Leave, BeginSave
  <2>3. None \in None..HOLD
    BY <1>0
  <2> QED BY <2>1, <2>2, <2>3 DEF HoldInv, Touched, HoldFollows, HoldMeant
<1>6. CASE Killed \/ PowerLost
  <2>1. /\ why' = "none" /\ UNCHANGED scope
        /\ exit_hold' = None /\ finger' = "Up" /\ reports' = <<>> /\ held' = None /\ long' = FALSE /\ lost' = FALSE
    BY <1>6 DEF Killed, PowerLost, Relaunched
  <2>2. exit_hold' \in None..HOLD /\ held' \in None..HOLD
    BY <1>0, <2>1
  <2>3. Touched'
    <3>1. long' \in BOOLEAN /\ lost' \in BOOLEAN
      BY <2>1
    <3> QED BY <1>0, <2>1, <2>2, <3>1 DEF Touched
  <2> QED BY <2>1, <2>3 DEF HoldInv, HoldFollows, HoldMeant
<1>7. CASE \/ Start \/ Stopped \/ Run \/ Wake \/ SaveOpen \/ SaveWrite \/ SaveRename \/ Close \/ Join
           \/ Writer \/ Device \/ Signal
  <2>1. UNCHANGED <<scope, asked, exit_hold, finger, reports, held, long, lost>>
    <3>1. CASE Start \/ Stopped \/ Run \/ Wake
      BY <3>1, Zenon DEF Start, Stopped, Run, Wake, outsideVars, touchVars
    <3>2. CASE SaveOpen \/ SaveWrite \/ SaveRename \/ Close \/ Join
      BY <3>2 DEF SaveOpen, SaveWrite, SaveRename, Close, Join, outsideVars, touchVars
    <3>3. CASE Writer \/ Device \/ Signal
      BY <3>3 DEF Writer, Device, Signal, outsideVars, touchVars
    <3> QED BY <1>7, <3>1, <3>2, <3>3
  <2>2. why' = why \/ why' # "hold"
    <3>1. CASE Start
      BY <3>1, Zenon DEF Start
    <3>2. CASE Stopped \/ Wake
      BY <3>2 DEF Stopped, Wake, Leave
    <3>3. CASE Run \/ SaveOpen \/ SaveWrite \/ SaveRename \/ Close \/ Join \/ Writer \/ Device \/ Signal
      BY <3>3, Zenon DEF Run, SaveOpen, SaveWrite, SaveRename, Close, Join, Writer, Device, Signal
    <3> QED BY <1>7, <3>1, <3>2, <3>3
  <2> QED BY <2>1, <2>2 DEF HoldInv, Touched, HoldFollows, HoldMeant
<1> QED BY <1>1, <1>2, <1>3, <1>4, <1>5, <1>6, <1>7 DEF Next, Host

-----------------------------------------------------------------------------
\* All of it.

HostInv == Life /\ RingInv /\ Quiet /\ Picture /\ LeftOnce /\ HoldInv /\ SaveInv

\* The initial states satisfy the invariant.
LEMMA HostStarts == Init => HostInv
<1> SUFFICES ASSUME Init PROVE HostInv
  OBVIOUS
<1>0. /\ None = -1 /\ HOLD \in Nat \ {0} /\ MaxReports \in Nat /\ MaxCrashes \in Nat /\ 0 \in 0..(SAVE_EVERY - 1)
      /\ <<>> \in Seq(Reports) /\ Len(<<>>) = 0 /\ "Up" \in Reports
  BY HostConstants DEF None, Reports
<1>1. Life
  <2>1. /\ scope \in Scopes /\ pc = "Off" /\ why = "none" /\ behind = 0 /\ frames = 0 /\ crashes = 0
        /\ active = TRUE /\ asked = FALSE /\ signalled = FALSE
    BY DEF Init
  <2>2. active \in BOOLEAN /\ asked \in BOOLEAN /\ signalled \in BOOLEAN /\ frames \in 0..(SAVE_EVERY - 1)
    BY <1>0, <2>1
  <2>3. behind \in 0..10 /\ crashes \in 0..MaxCrashes
    BY <1>0, <2>1
  <2> QED BY <2>1, <2>2, <2>3 DEF Life
<1>2. RingInv /\ Quiet
  BY SoundStarts
<1>3. Picture
  BY HostConstants DEF Init, Picture
<1>4. LeftOnce
  BY DEF Init, LeftOnce
<1>5. HoldInv
  <2>1. /\ why = "none" /\ exit_hold = None /\ held = None /\ finger = "Up" /\ reports = <<>>
        /\ long = FALSE /\ lost = FALSE
    BY DEF Init
  <2>2. long \in BOOLEAN /\ lost \in BOOLEAN /\ exit_hold \in None..HOLD /\ held \in None..HOLD
    <3>1. None \in None..HOLD
      BY <1>0
    <3> QED BY <2>1, <3>1
  <2>3. Touched
    BY <1>0, <2>1, <2>2 DEF Touched
  <2> QED BY <2>1, <2>3 DEF HoldInv, HoldFollows, HoldMeant
<1>6. SaveInv
  <2>1. disk \in [Files -> Torn..MaxVersion] /\ \A f \in Files : disk[f] # Torn
    <3>1. disk \in [Files -> {Absent, Foreign, Encoded, 0}]
      BY DEF Init
    <3> QED BY <3>1, Held
  <2>2. /\ temp \in [Files -> Torn..MaxVersion] /\ older = [f \in Files |-> {}]
        /\ ram \in [Files -> 0..MaxVersion] /\ writable = [f \in Files |-> FALSE]
        /\ pc = "Off" /\ saving = "none" /\ final = FALSE /\ complained = FALSE
    BY Held DEF Init
  <2> QED BY <2>1, <2>2 DEF SaveInv, SaveTyped, SaveWhole, EndSaved, Saving
<1> QED BY <1>1, <1>2, <1>3, <1>4, <1>5, <1>6 DEF HostInv

\* Every step keeps the invariant, and no step harms a save.
LEMMA HostSteps == HostInv /\ [Next]_vars => HostInv' /\ [SaveWhole' /\ EndSaved' /\ SaveKept]_vars
<1> SUFFICES ASSUME HostInv, [Next]_vars PROVE HostInv' /\ [SaveWhole' /\ EndSaved' /\ SaveKept]_vars
  OBVIOUS
<1>1. (RingInv /\ Quiet)'
  BY SoundSteps DEF HostInv
<1>2. CASE Next
  <2>1. Life' /\ Picture' /\ LeftOnce' /\ HoldInv'
    <3>1. scope \in Scopes
      BY DEF HostInv, Life
    <3> QED BY <1>2, <3>1, LifeKeeps, PictureKeeps, LeftKeeps, HoldKeeps DEF HostInv
  <2>2. SaveInv' /\ SaveKept
    BY <1>2, SavesKeep DEF HostInv
  <2>3. SaveWhole' /\ EndSaved'
    BY <2>2 DEF SaveInv
  <2> QED BY <1>1, <2>1, <2>2, <2>3 DEF HostInv
<1>3. CASE UNCHANGED vars
  <2>1. UNCHANGED <<scope, pc, why, pictureVars, behind, outsideVars, touchVars, frames, saveVars, crashes>>
    BY <1>3 DEF vars
  <2>2. Life'
    BY <2>1 DEF HostInv, Life, outsideVars
  <2>3. Picture'
    BY <2>1 DEF HostInv, Picture, pictureVars, compute_scaled_layout
  <2>4. LeftOnce'
    BY <2>1 DEF HostInv, LeftOnce, saveVars
  <2>5. HoldInv'
    BY <2>1 DEF HostInv, HoldInv, Touched, HoldFollows, HoldMeant, touchVars, outsideVars
  <2>6. SaveInv'
    BY <2>1, Unsaved DEF HostInv
  <2> QED BY <1>1, <1>3, <2>2, <2>3, <2>4, <2>5, <2>6 DEF HostInv
<1> QED BY <1>2, <1>3

\* The inductive invariant of the host (run_host): sound, picture, saves and
\* hold as they should be in every reachable state.
THEOREM HostHolds == Spec => []HostInv
<1>1. HostInv /\ [Next]_vars => HostInv'
  BY HostSteps
<1> QED BY HostStarts, <1>1, PTL DEF Spec

\* The invariant types every variable.
LEMMA HostTyped == ASSUME HostInv PROVE TypeOK
<1> USE DEF HostInv
<1>1. AudioTyped
  <2>1. /\ shared \in Shareds /\ writer \in Writers
    BY DEF RingInv, RingTyped
  <2>2. Len(shared.queue) \in {0, QUEUE_FRAMES}
    <3>1. shared.queue = <<>> \/ shared.queue \in [1..QUEUE_FRAMES -> Int]
      BY <2>1 DEF Shareds
    <3>2. QUEUE_FRAMES \in Nat
      BY AudioConstants
    <3> QED BY <3>1, <3>2
  <2> QED BY <2>1, <2>2 DEF AudioTyped, RingInv, RingTyped, Shareds, Writers
<1>2. {video_failed, present_skip, active, asked, signalled, long, lost, final, complained} \subseteq BOOLEAN
  <2>1. video_failed \in BOOLEAN /\ present_skip \in BOOLEAN
    BY DEF Picture
  <2>2. active \in BOOLEAN /\ asked \in BOOLEAN /\ signalled \in BOOLEAN
    BY DEF Life
  <2>3. long \in BOOLEAN /\ lost \in BOOLEAN
    BY DEF HoldInv, Touched
  <2>4. final \in BOOLEAN /\ complained \in BOOLEAN
    BY DEF SaveInv, SaveTyped
  <2> QED BY <2>1, <2>2, <2>3, <2>4, Zenon
<1>3. target \in {"Fb", "Lazy", "Widget", "Headless"} /\ last_source \in Sizes \cup {NoPicture}
      /\ drawn \in {"Drawn", "Shed", "Nothing"}
  BY DEF Picture
<1>4. /\ exit_hold \in None..HOLD /\ held \in None..HOLD
      /\ finger \in {"In", "Out", "Up"} /\ Len(reports) <= MaxReports
  BY DEF HoldInv, Touched, Reports
<1>5. ram \in [Files -> 0..MaxVersion] /\ writable \in [Files -> BOOLEAN] /\ saving \in {"none", "sram", "rtc"}
  BY DEF SaveInv, SaveTyped
<1>6. \A f \in Files : {disk[f], temp[f]} \cup older[f] \subseteq Torn..MaxVersion
  BY DEF SaveInv, SaveTyped
<1>7. /\ scope \in Scopes
      /\ pc \in {"Off", "Head", "Ask", "Dormant", "Check", "SaveOpen", "SaveWrite", "SaveRename", "Pace", "Close",
                 "Join", "Ended"}
      /\ why \in {"none", "refused", "signal", "video", "widget", "hold", "limit"}
      /\ behind \in 0..10 /\ frames \in 0..(SAVE_EVERY - 1) /\ crashes \in 0..MaxCrashes
  BY DEF Life
<1> HIDE DEF HostInv
<1> QED BY <1>1, <1>2, <1>3, <1>4, <1>5, <1>6, <1>7 DEF TypeOK

(* What the console makes reaches panel and speaker unaltered: one picture *)
(* at a time and inside the margin, every sample accounted for at its      *)
(* rate, silence off screen; and only a hold that lasted leaves the game   *)
(* (begin_frame, compute_scaled_layout, write_stereo, writer_thread,       *)
(* update_exit_hold, exit_requested).                                      *)
THEOREM ConsoleHolds == Spec => []ConsoleSafe
<1>1. HostInv => ConsoleSafe
  <2> SUFFICES ASSUME HostInv PROVE ConsoleSafe
    OBVIOUS
  <2>1. TypeOK
    BY HostTyped
  <2>2. OnePicture
    BY OneRectangle DEF HostInv
  <2>3. SilentWhenDormant /\ Accounted /\ RateKept /\ HoldMeant
    BY DEF HostInv, Quiet, RingInv, HoldInv
  <2> QED BY <2>1, <2>2, <2>3 DEF ConsoleSafe
<1> QED BY <1>1, HostHolds, PTL

(* Saves survive every step of a game, of a kill and of a power loss: each *)
(* leaves them whole, those of a game that has ended complete, and none    *)
(* puts one back to an older state (save_memory_file, load_memory_file).   *)
THEOREM SavesSurvive == Spec => SavesKept
<1>1. HostInv /\ [Next]_vars => HostInv' /\ [SaveWhole' /\ EndSaved' /\ SaveKept]_vars
  BY HostSteps
<1> QED BY <1>1, HostStarts, PTL DEF Spec, SavesKept


-----------------------------------------------------------------------------
(* What a reader of a pad makes of its events.                             *)

(* The events of a pad. *)
Events == {Dropped, Report} \cup {Key(b, v) : b \in Buttons, v \in {"Up", "Down"}}

(* The buttons that are held after the key events of s, from those in x. *)
Keyed(p, x, e) == IF IsKey(e) THEN Level(x, e) ELSE x
K == INSTANCE FoldTheorems WITH op <- Keyed
LevelAfter(x, s) == K!Fold(0, x, s)

(* A run of events that tells of no loss. *)
Clean(s) == \A i \in 1..Len(s) : s[i] # Dropped

(* Only key events carry a button. *)
LEMMA EventKinds ==
  /\ Dropped \in Events /\ Report \in Events /\ Dropped # Report
  /\ ~IsKey(Dropped) /\ ~IsKey(Report)
  /\ \A e \in Events : IsKey(e) => e.code \in Buttons /\ e.value \in {"Up", "Down"}
  /\ \A e \in Events : ~IsKey(e) => e = Dropped \/ e = Report
  /\ \A b \in Buttons, v \in {"Up", "Down"} :
       Key(b, v) \in Events /\ IsKey(Key(b, v)) /\ Key(b, v).code = b /\ Key(b, v).value = v
<1>1. Dropped.type = "SYN_DROPPED" /\ Report.type = "SYN_REPORT"
  BY DEF Dropped, Report
<1>2. ~IsKey(Dropped) /\ ~IsKey(Report) /\ Dropped # Report
  BY <1>1 DEF IsKey
<1>3. \A b, v : IsKey(Key(b, v)) /\ Key(b, v).code = b /\ Key(b, v).value = v
  BY DEF IsKey, Key
<1>4. ASSUME NEW e \in Events
      PROVE  e = Dropped \/ e = Report \/ \E b \in Buttons, v \in {"Up", "Down"} : e = Key(b, v)
  BY DEF Events
<1>5. ASSUME NEW e \in Events
      PROVE  /\ IsKey(e) => e.code \in Buttons /\ e.value \in {"Up", "Down"}
             /\ ~IsKey(e) => e = Dropped \/ e = Report
  BY <1>2, <1>3, <1>4
<1> QED BY <1>2, <1>3, <1>5 DEF Events

(* A key event moves one button. *)
LEMMA KeyedMoves ==
  ASSUME NEW p, NEW x \in SUBSET Buttons, NEW e \in Events
  PROVE  Keyed(p, x, e) \in SUBSET Buttons
BY EventKinds DEF Keyed, Level

(* The last item counts as the others do. *)
LEMMA OneMore ==
  ASSUME NEW s \in Seq(Events), NEW e \in Events
  PROVE  /\ Append(s, e) \in Seq(Events)
         /\ Clean(Append(s, e)) <=> (Clean(s) /\ e # Dropped)
         /\ HasKeys(Append(s, e)) <=> (HasKeys(s) \/ IsKey(e))
<1> DEFINE t == Append(s, e)
           n == Len(s)
<1>1. n \in Nat /\ Len(t) = n + 1 /\ t[n + 1] = e /\ (\A i \in 1..n : t[i] = s[i]) /\ t \in Seq(Events)
  OBVIOUS
<1> HIDE DEF t, n
<1>2. 1..(n + 1) = (1..n) \cup {n + 1}
  BY <1>1
<1>3. Clean(t) <=> (\A i \in 1..n : s[i] # Dropped) /\ e # Dropped
  BY <1>1, <1>2 DEF Clean
<1>4. HasKeys(t) <=> (\E i \in 1..n : IsKey(s[i])) \/ IsKey(e)
  BY <1>1, <1>2 DEF HasKeys
<1> QED BY <1>1, <1>3, <1>4 DEF Clean, HasKeys, t, n

(* Nothing is lost and no key told in no events. *)
LEMMA NoEvents == <<>> \in Seq(Events) /\ Clean(<<>>) /\ ~HasKeys(<<>>)
BY DEF Clean, HasKeys

(* Two runs tell of no loss if each does. *)
LEMMA CleanBoth ==
  ASSUME NEW s \in Seq(Events), NEW t \in Seq(Events)
  PROVE  Clean(s \o t) <=> (Clean(s) /\ Clean(t))
<1> DEFINE m == Len(s)
           n == Len(t)
           u == s \o t
<1>1. /\ m \in Nat /\ n \in Nat /\ Len(u) = m + n
      /\ \A i \in 1..m : u[i] = s[i]
      /\ \A i \in 1..n : u[m + i] = t[i]
  OBVIOUS
<1> HIDE DEF m, n, u
<1>2. ASSUME Clean(u) PROVE Clean(s) /\ Clean(t)
  <2>1. \A i \in 1..m : i \in 1..Len(u)
    BY <1>1
  <2>2. \A i \in 1..n : m + i \in 1..Len(u)
    BY <1>1
  <2>3. \A i \in 1..m : s[i] # Dropped
    BY <1>1, <1>2, <2>1 DEF Clean
  <2>4. \A i \in 1..n : t[i] # Dropped
    BY <1>1, <1>2, <2>2 DEF Clean
  <2> QED BY <2>3, <2>4 DEF Clean, m, n
<1>3. ASSUME Clean(s), Clean(t), NEW i \in 1..Len(u) PROVE u[i] # Dropped
  <2>1. CASE i \in 1..m
    BY <2>1, <1>1, <1>3 DEF Clean, m
  <2>2. CASE i \notin 1..m
    <3>1. i - m \in 1..n /\ m + (i - m) = i
      BY <1>1, <2>2
    <3>2. u[i] = t[i - m]
      BY <1>1, <3>1
    <3> QED BY <3>1, <3>2, <1>3 DEF Clean, n
  <2> QED BY <2>1, <2>2
<1> QED BY <1>2, <1>3 DEF Clean, u

(* An item that is added to the second of two runs is the last of both. *)
LEMMA JoinedLast ==
  ASSUME NEW T, NEW s \in Seq(T), NEW t \in Seq(T), NEW e \in T
  PROVE  s \o Append(t, e) = Append(s \o t, e)
OBVIOUS

(* The buttons held after a run of events are buttons; a run is taken event by
   event, or in two parts. *)
LEMMA LevelFacts ==
  ASSUME NEW x
  PROVE  /\ LevelAfter(x, <<>>) = x
         /\ \A s \in Seq(Events), e \in Events :
              LevelAfter(x, Append(s, e)) = IF IsKey(e) THEN Level(LevelAfter(x, s), e) ELSE LevelAfter(x, s)
         /\ x \in SUBSET Buttons => \A s \in Seq(Events) : LevelAfter(x, s) \in SUBSET Buttons
<1>1. LevelAfter(x, <<>>) = x
  BY K!FoldEmpty DEF LevelAfter
<1>2. ASSUME NEW s \in Seq(Events), NEW e \in Events
      PROVE  LevelAfter(x, Append(s, e)) = IF IsKey(e) THEN Level(LevelAfter(x, s), e) ELSE LevelAfter(x, s)
  BY K!FoldAppend DEF LevelAfter, Keyed
<1>3. ASSUME x \in SUBSET Buttons PROVE \A s \in Seq(Events) : LevelAfter(x, s) \in SUBSET Buttons
  <2>1. \A y \in SUBSET Buttons, e \in Events : Keyed(0, y, e) \in SUBSET Buttons
    BY KeyedMoves
  <2>2. \A s \in Seq(Events) : K!Fold(0, x, s) \in SUBSET Buttons
    BY <1>3, <2>1, K!FoldKeeps
  <2> QED BY <2>2 DEF LevelAfter
<1> QED BY <1>1, <1>2, <1>3

(* A run of events is read in two parts. *)
LEMMA LevelInParts ==
  ASSUME NEW x, NEW s \in Seq(Events), NEW t \in Seq(Events)
  PROVE  LevelAfter(x, s \o t) = LevelAfter(LevelAfter(x, s), t)
BY K!FoldConcat DEF LevelAfter

(* Without key events nothing changes. *)
LEMMA LevelStays ==
  ASSUME NEW x, NEW s \in Seq(Events), ~HasKeys(s) PROVE LevelAfter(x, s) = x
<1> DEFINE R == {r \in Seq(Events) \X {LevelAfter(x, t) : t \in Seq(Events)} : HasKeys(r[1]) \/ r[2] = x}
<1>1. << <<>>, x >> \in R
  BY NoEvents, LevelFacts
<1>2. ASSUME NEW f \in Seq(Events), NEW e \in Events, NEW y, <<f, y>> \in R
      PROVE  <<Append(f, e), Keyed(0, y, e)>> \in R
  <2>1. PICK t \in Seq(Events) : y = LevelAfter(x, t)
    BY <1>2
  <2>2. Keyed(0, y, e) = LevelAfter(x, Append(t, e)) /\ Append(t, e) \in Seq(Events)
    BY <2>1, LevelFacts, OneMore DEF Keyed
  <2>3. HasKeys(f) \/ y = x
    BY <1>2
  <2>4. HasKeys(Append(f, e)) \/ Keyed(0, y, e) = x
    BY <2>3, OneMore DEF Keyed
  <2> QED BY <2>2, <2>4, OneMore
<1> HIDE DEF R
<1>3. <<s, K!Fold(0, x, s)>> \in R
  BY <1>1, <1>2, K!FoldInduction
<1> QED BY <1>3 DEF R, LevelAfter

(* Reading the same events again changes nothing: the last event of a button
   decides. *)
LEMMA LevelTwice ==
  ASSUME NEW x \in SUBSET Buttons, NEW s \in Seq(Events)
  PROVE  LevelAfter(LevelAfter(x, s), s) = LevelAfter(x, s)
<1> DEFINE y == LevelAfter(x, s)
           z == LevelAfter(y, s)
<1>1. y \in SUBSET Buttons /\ z \in SUBSET Buttons
  BY LevelFacts
<1> HIDE DEF y, z
<1>2. ASSUME NEW b \in Buttons PROVE b \in z <=> b \in y
  <2> DEFINE S == SUBSET Buttons
             R == {r \in S \X S : \/ (b \in r[1] <=> b \in x) /\ (b \in r[2] <=> b \in y)
                                  \/ b \in r[1] <=> b \in r[2]}
  <2>1. <<x, y>> \in R
    BY <1>1
  <2>2. ASSUME NEW u \in S, NEW v \in S, NEW e \in Events, <<u, v>> \in R
        PROVE  <<Keyed(0, u, e), Keyed(0, v, e)>> \in R
    <3>1. Keyed(0, u, e) \in S /\ Keyed(0, v, e) \in S
      BY KeyedMoves
    <3>2. \/ (b \in u <=> b \in x) /\ (b \in v <=> b \in y)
          \/ b \in u <=> b \in v
      BY <2>2
    <3>3. CASE IsKey(e) /\ e.code = b
      <4>1. b \in Keyed(0, u, e) <=> b \in Keyed(0, v, e)
        BY <3>3 DEF Keyed, Level
      <4> QED BY <3>1, <4>1
    <3>4. CASE ~(IsKey(e) /\ e.code = b)
      <4>1. (b \in Keyed(0, u, e) <=> b \in u) /\ (b \in Keyed(0, v, e) <=> b \in v)
        BY <3>4 DEF Keyed, Level
      <4> QED BY <3>1, <3>2, <4>1
    <3> QED BY <3>3, <3>4
  <2>3. \A u \in S, e \in Events : Keyed(0, u, e) \in S
    BY KeyedMoves
  <2> HIDE DEF R
  <2>4. <<K!Fold(0, x, s), K!Fold(0, y, s)>> \in R
    BY <1>1, <2>1, <2>2, <2>3, K!FoldRelates
  <2>5. <<y, z>> \in R
    BY <2>4 DEF y, z, LevelAfter
  <2> QED BY <2>5 DEF R
<1> QED BY <1>1, <1>2 DEF y, z

(* A snapshot takes the key events out of the queue and leaves the rest. *)
Sweep(p, x, e) == IF IsKey(e) THEN x ELSE Append(x, e)
S == INSTANCE FoldTheorems WITH op <- Sweep
(* A snapshot taken over the queue is such a fold, and discards just the key events. *)
LEMMA SnapshotIs == ASSUME NEW q PROVE AfterSnapshot(q) = S!Fold(0, <<>>, q)
BY DEF AfterSnapshot, S!Fold, Sweep, FoldLeft, S!FoldLeft, MapThenFoldSet, S!MapThenFoldSet, Max, S!Max

(* What a snapshot leaves in the queue has no key event, and still tells of any loss. *)
LEMMA SnapshotSweeps ==
  ASSUME NEW q \in Seq(Events)
  PROVE  /\ AfterSnapshot(q) \in Seq(Events) /\ ~HasKeys(AfterSnapshot(q))
         /\ Clean(AfterSnapshot(q)) => Clean(q)
<1> DEFINE R == {r \in Seq(Events) \X Seq(Events) : ~HasKeys(r[2]) /\ (Clean(r[2]) => Clean(r[1]))}
<1>1. << <<>>, <<>> >> \in R
  BY NoEvents
<1>2. ASSUME NEW f \in Seq(Events), NEW e \in Events, NEW y, <<f, y>> \in R
      PROVE  <<Append(f, e), Sweep(0, y, e)>> \in R
  <2>1. y \in Seq(Events) /\ ~HasKeys(y) /\ (Clean(y) => Clean(f))
    BY <1>2
  <2>2. CASE IsKey(e)
    <3>1. e # Dropped
      BY <2>2, EventKinds
    <3> QED BY <2>1, <2>2, <3>1, OneMore DEF Sweep
  <2>3. CASE ~IsKey(e)
    <3>1. Sweep(0, y, e) = Append(y, e)
      BY <2>3 DEF Sweep
    <3>2. /\ Append(y, e) \in Seq(Events) /\ Append(f, e) \in Seq(Events)
          /\ ~HasKeys(Append(y, e)) /\ (Clean(Append(y, e)) => Clean(Append(f, e)))
      BY <2>1, <2>3, OneMore
    <3> QED BY <3>1, <3>2
  <2> QED BY <2>2, <2>3
<1> HIDE DEF R
<1>3. <<q, S!Fold(0, <<>>, q)>> \in R
  BY <1>1, <1>2, S!FoldInduction
<1> QED BY <1>3, SnapshotIs DEF R

-----------------------------------------------------------------------------
(* What drain_gamepad makes of a batch.                                    *)

ReadOne(p, x, e) == CHOOSE r \in {ApplyEvent(p, st, e) : st \in {x}} : TRUE
A == INSTANCE FoldTheorems WITH op <- ReadOne
(* Reading a batch is a fold of one event after the other. *)
LEMMA ReadIs ==
  ASSUME NEW snapshot, NEW before, NEW s
  PROVE  ReadAll(LAMBDA st, e : ApplyEvent(snapshot, st, e), before, s) = A!Fold(snapshot, before, s)
BY DEF ReadAll, A!Fold, ReadOne, FoldLeft, A!FoldLeft, MapThenFoldSet, A!MapThenFoldSet, Max, A!Max

(* The states of a pad while a batch is applied. *)
PadStates == [raw : SUBSET Buttons, dropping : BOOLEAN, synced : BOOLEAN, late : BOOLEAN]

(* One event after the other is applied. *)
LEMMA ReadOneIs ==
  ASSUME NEW p, NEW st \in PadStates, NEW e
  PROVE  ReadOne(p, st, e) = ApplyEvent(p, st, e)
BY DEF ReadOne

(* What an event does to the four fields. *)
LEMMA ApplyFields ==
  ASSUME NEW p \in SUBSET Buttons, NEW st \in PadStates, NEW e \in Events
  PROVE  LET r == ApplyEvent(p, st, e) IN
         /\ r \in PadStates
         /\ (st.dropping /\ e = Report) => r.raw = p /\ ~r.dropping /\ r.synced /\ ~r.late
         /\ (st.dropping /\ e # Report) => r = st
         /\ (~st.dropping /\ e = Dropped) => r.dropping
         /\ (~st.dropping /\ e # Dropped) =>
              /\ r.raw = (IF IsKey(e) THEN Level(st.raw, e) ELSE st.raw)
              /\ ~r.dropping /\ r.synced = st.synced
              /\ (~IsKey(e) => r.late = st.late) /\ (IsKey(e) => r.late = st.synced)
<1> DEFINE r == ApplyEvent(p, st, e)
<1>1. st.raw \in SUBSET Buttons /\ st.dropping \in BOOLEAN /\ st.synced \in BOOLEAN /\ st.late \in BOOLEAN
  BY DEF PadStates
<1>2. CASE st.dropping /\ e = Report
  <2>1. r = [raw |-> p, dropping |-> FALSE, synced |-> TRUE, late |-> FALSE]
    BY <1>2 DEF ApplyEvent
  <2>2. r \in PadStates /\ r.raw = p /\ ~r.dropping /\ r.synced /\ ~r.late
    BY <2>1 DEF PadStates
  <2> QED BY <1>2, <2>2
<1>3. CASE st.dropping /\ e # Report
  <2>1. r = st
    BY <1>3 DEF ApplyEvent
  <2> QED BY <1>3, <2>1
<1>4. CASE ~st.dropping /\ e = Dropped
  <2>1. r = [st EXCEPT !.dropping = TRUE]
    BY <1>4 DEF ApplyEvent
  <2>2. r \in PadStates /\ r.dropping
    BY <2>1 DEF PadStates
  <2> QED BY <1>4, <2>2
<1>5. CASE ~st.dropping /\ e # Dropped /\ IsKey(e)
  <2>1. r = [st EXCEPT !.raw = Level(@, e), !.late = st.synced]
    BY <1>5 DEF ApplyEvent
  <2>2. Level(st.raw, e) \in SUBSET Buttons
    BY <1>1, <1>5, EventKinds DEF Level
  <2>3. r \in PadStates /\ r.raw = Level(st.raw, e) /\ r.dropping = st.dropping /\ r.synced = st.synced /\ r.late = st.synced
    BY <1>1, <2>1, <2>2 DEF PadStates
  <2> QED BY <1>5, <2>3
<1>6. CASE ~st.dropping /\ e # Dropped /\ ~IsKey(e)
  <2>1. r = st
    BY <1>6 DEF ApplyEvent
  <2> QED BY <1>6, <2>1
<1> QED BY <1>2, <1>3, <1>4, <1>5, <1>6

(* A pad that lost nothing has applied every event.  One that was taken anew
   from the device has applied what came after: part t of the batch, and key
   events of it only if it says so. *)
Follows(snapshot, raw0, drops, s, st) ==
  /\ (~st.synced /\ ~st.dropping) => (st.raw = LevelAfter(raw0, s) /\ ~drops /\ Clean(s))
  /\ (st.synced /\ ~st.dropping) =>
       \E u, t \in Seq(Events) :
         s = u \o t /\ st.raw = LevelAfter(snapshot, t) /\ (st.late \/ ~HasKeys(t))

(* One more event that is read. *)
LEMMA FollowsOn ==
  ASSUME NEW snapshot \in SUBSET Buttons, NEW raw0 \in SUBSET Buttons, NEW drops \in BOOLEAN,
         NEW s \in Seq(Events), NEW st \in PadStates, NEW e \in Events,
         Follows(snapshot, raw0, drops, s, st)
  PROVE  Follows(snapshot, raw0, drops, Append(s, e), ApplyEvent(snapshot, st, e))
<1> DEFINE r == ApplyEvent(snapshot, st, e)
<1>0. st.dropping \in BOOLEAN /\ st.synced \in BOOLEAN /\ st.late \in BOOLEAN
  BY DEF PadStates
<1> HIDE DEF r
<1>a. \A x : LevelAfter(x, Append(s, e)) = IF IsKey(e) THEN Level(LevelAfter(x, s), e) ELSE LevelAfter(x, s)
  BY LevelFacts
<1>1. CASE st.dropping /\ e = Report
  <2>1. r.raw = snapshot /\ ~r.dropping /\ r.synced /\ ~r.late
    BY <1>1, ApplyFields DEF r
  <2>2. Append(s, e) \in Seq(Events) /\ Append(s, e) = Append(s, e) \o <<>>
    OBVIOUS
  <2>3. \E u, t \in Seq(Events) :
          Append(s, e) = u \o t /\ r.raw = LevelAfter(snapshot, t) /\ (r.late \/ ~HasKeys(t))
    BY <2>1, <2>2, NoEvents, LevelFacts
  <2> QED BY <2>1, <2>3 DEF Follows, r
<1>2. CASE st.dropping /\ e # Report
  <2>1. r = st
    BY <1>2, ApplyFields DEF r
  <2> QED BY <1>2, <2>1 DEF Follows, r
<1>3. CASE ~st.dropping /\ e = Dropped
  <2>1. r.dropping
    BY <1>3, ApplyFields DEF r
  <2> QED BY <2>1 DEF Follows, r
<1>4. CASE ~st.dropping /\ e # Dropped
  <2>1. /\ r.raw = (IF IsKey(e) THEN Level(st.raw, e) ELSE st.raw)
        /\ ~r.dropping /\ r.synced = st.synced
        /\ (~IsKey(e) => r.late = st.late) /\ (IsKey(e) => r.late = st.synced)
    BY <1>4, ApplyFields DEF r
  <2>2. CASE ~st.synced
    <3>1. st.raw = LevelAfter(raw0, s) /\ ~drops /\ Clean(s)
      BY <1>4, <2>2 DEF Follows
    <3>2. r.raw = LevelAfter(raw0, Append(s, e))
      BY <2>1, <3>1, <1>a
    <3>3. Clean(Append(s, e))
      BY <1>4, <3>1, OneMore
    <3> QED BY <2>1, <2>2, <3>1, <3>2, <3>3 DEF Follows, r
  <2>3. CASE st.synced
    <3>1. PICK u \in Seq(Events), t \in Seq(Events) :
            s = u \o t /\ st.raw = LevelAfter(snapshot, t) /\ (st.late \/ ~HasKeys(t))
      BY <1>4, <2>3 DEF Follows
    <3>2. Append(t, e) \in Seq(Events) /\ Append(s, e) = u \o Append(t, e)
      <4>1. u \o Append(t, e) = Append(u \o t, e)
        BY JoinedLast
      <4>2. Append(t, e) \in Seq(Events)
        BY OneMore
      <4> QED BY <3>1, <4>1, <4>2
    <3>6. LevelAfter(snapshot, Append(t, e)) = IF IsKey(e) THEN Level(LevelAfter(snapshot, t), e) ELSE LevelAfter(snapshot, t)
      BY LevelFacts
    <3>3. r.raw = LevelAfter(snapshot, Append(t, e))
      BY <2>1, <3>1, <3>6
    <3>4. r.late \/ ~HasKeys(Append(t, e))
      BY <2>1, <2>3, <3>1, OneMore
    <3>5. \E v, w \in Seq(Events) :
            Append(s, e) = v \o w /\ r.raw = LevelAfter(snapshot, w) /\ (r.late \/ ~HasKeys(w))
      BY <3>2, <3>3, <3>4
    <3> QED BY <2>1, <2>3, <3>5 DEF Follows, r
  <2> QED BY <2>2, <2>3
<1> QED BY <1>0, <1>1, <1>2, <1>3, <1>4

(* So does all that is read of a batch. *)
LEMMA ReadFollows ==
  ASSUME NEW snapshot \in SUBSET Buttons, NEW raw0 \in SUBSET Buttons, NEW drops \in BOOLEAN,
         NEW s \in Seq(Events), NEW before,
         before = [raw |-> raw0, dropping |-> drops, synced |-> FALSE, late |-> FALSE]
  PROVE  LET after == ReadAll(LAMBDA st, e : ApplyEvent(snapshot, st, e), before, s) IN
         after \in PadStates /\ Follows(snapshot, raw0, drops, s, after)
<1> DEFINE R == {r \in Seq(Events) \X PadStates : Follows(snapshot, raw0, drops, r[1], r[2])}
<1>1. << <<>>, before >> \in R
  <2>1. before \in PadStates /\ ~before.synced /\ before.raw = raw0 /\ before.dropping = drops
    BY DEF PadStates
  <2>2. Follows(snapshot, raw0, drops, <<>>, before)
    BY <2>1, NoEvents, LevelFacts DEF Follows
  <2> QED BY <2>1, <2>2, NoEvents
<1>2. ASSUME NEW f \in Seq(Events), NEW e \in Events, NEW y, <<f, y>> \in R
      PROVE  <<Append(f, e), ReadOne(snapshot, y, e)>> \in R
  <2>1. y \in PadStates /\ Follows(snapshot, raw0, drops, f, y)
    BY <1>2
  <2>2. ReadOne(snapshot, y, e) = ApplyEvent(snapshot, y, e)
    BY <2>1, ReadOneIs
  <2>3. ApplyEvent(snapshot, y, e) \in PadStates
    BY <2>1, ApplyFields
  <2>4. Follows(snapshot, raw0, drops, Append(f, e), ApplyEvent(snapshot, y, e))
    BY <2>1, FollowsOn
  <2> QED BY <2>2, <2>3, <2>4, OneMore
<1> HIDE DEF R
<1>3. <<s, A!Fold(snapshot, before, s)>> \in R
  BY <1>1, <1>2, A!FoldInduction
<1> QED BY <1>3, ReadIs DEF R

-----------------------------------------------------------------------------
(* Who gets which pad.                                                     *)

(* Two things are two. *)
LEMMA TwoMembers == ASSUME NEW a, NEW c, a # c PROVE Cardinality({a, c}) = 2
<1>1. IsFiniteSet({a}) /\ Cardinality({a}) = 1 /\ c \notin {a}
  BY FS_Singleton
<1> DEFINE one == {a}
<1> HIDE DEF one
<1>2. Cardinality(one \cup {c}) = Cardinality(one) + 1
  BY <1>1, FS_AddElement DEF one
<1>3. one \cup {c} = {a, c}
  BY DEF one
<1> QED BY <1>1, <1>2, <1>3 DEF one

(* A set of numbers has a first member, and a second if there are two. *)
LEMMA RankedFirst ==
  ASSUME NEW S_ \in SUBSET Nat, IsFiniteSet(S_), 1 <= Cardinality(S_)
  PROVE  \E c \in S_ : Rank(c, S_) = 1 /\ \A d \in S_ : c <= d
<1>1. S_ # {}
  BY FS_EmptySet
<1>2. PICK c \in S_ : \A d \in S_ : c <= d
  BY <1>1, K!LeastNat
<1>3. {y \in S_ : y <= c} = {c}
  <2>1. \A y \in S_ : y <= c <=> y = c
    BY <1>2
  <2> QED BY <1>2, <2>1
<1> QED BY <1>2, <1>3, FS_Singleton DEF Rank

(* So is the second of two. *)
LEMMA RankedSecond ==
  ASSUME NEW S_ \in SUBSET Nat, IsFiniteSet(S_), 2 <= Cardinality(S_)
  PROVE  \E c \in S_ : Rank(c, S_) = 2
<1>0. Cardinality(S_) \in Nat
  BY FS_CardinalityType
<1>1. PICK a \in S_ : Rank(a, S_) = 1 /\ \A d \in S_ : a <= d
  BY <1>0, RankedFirst
<1>2. IsFiniteSet(S_ \ {a}) /\ Cardinality(S_ \ {a}) = Cardinality(S_) - 1
  BY FS_RemoveElement
<1>3. PICK c \in S_ \ {a} : \A d \in S_ \ {a} : c <= d
  <2>1. S_ \ {a} # {} /\ S_ \ {a} \in SUBSET Nat
    BY <1>0, <1>2, FS_EmptySet
  <2> QED BY <2>1, K!LeastNat
<1>4. {y \in S_ : y <= c} = {a, c}
  <2>1. \A y \in S_ : y <= c <=> (y = a \/ y = c)
    BY <1>1, <1>3
  <2> QED BY <1>1, <1>3, <2>1
<1>5. Cardinality({a, c}) = 2
  BY <1>3, TwoMembers
<1> QED BY <1>4, <1>5 DEF Rank

(* Two players are told apart by their ranks. *)
LEMMA PlayersRanked ==
  ASSUME NEW P \in SUBSET (1..2)
  PROVE  /\ \A p \in P : Rank(p, P) \in {1, 2}
         /\ \A p, q \in P : Rank(p, P) = Rank(q, P) => p = q
<1>1. \A p \in P : p = 1 \/ p = 2
  OBVIOUS
<1>2. ASSUME 1 \in P PROVE Rank(1, P) = 1
  <2>1. {y \in P : y <= 1} = {1}
    <3>1. \A y \in P : y <= 1 <=> y = 1
      BY <1>1, <1>2
    <3> QED BY <1>2, <3>1
  <2> QED BY <2>1, FS_Singleton DEF Rank
<1>3. ASSUME 2 \in P, 1 \notin P PROVE Rank(2, P) = 1
  <2>1. {y \in P : y <= 2} = {2}
    <3>1. \A y \in P : y <= 2 <=> y = 2
      BY <1>1, <1>3
    <3> QED BY <1>3, <3>1
  <2> QED BY <2>1, FS_Singleton DEF Rank
<1>4. ASSUME 2 \in P, 1 \in P PROVE Rank(2, P) = 2
  <2>1. {y \in P : y <= 2} = {1, 2}
    <3>1. \A y \in P : y <= 2 <=> (y = 1 \/ y = 2)
      BY <1>1
    <3> QED BY <1>4, <3>1
  <2>2. Cardinality({1, 2}) = 2
    <3>1. 1 # 2
      OBVIOUS
    <3> QED BY ONLY <3>1, TwoMembers
  <2> QED BY <2>1, <2>2 DEF Rank
<1>5. \A p \in P : Rank(p, P) \in {1, 2}
  BY <1>1, <1>2, <1>3, <1>4
<1>6. ASSUME NEW p \in P, NEW q \in P, Rank(p, P) = Rank(q, P) PROVE p = q
  BY <1>1, <1>2, <1>4, <1>6
<1> QED BY <1>5, <1>6

(* A seating gives some of the players one candidate each, no two the same. *)
Seats(s, P, C) ==
  /\ DOMAIN s \subseteq P
  /\ \A p \in DOMAIN s : s[p] \in C
  /\ \A p, q \in DOMAIN s : s[p] = s[q] => p = q

(* One pass seats its players so. *)
LEMMA DealSeats ==
  ASSUME NEW P \in SUBSET (1..2), NEW C \in SUBSET Nat, IsFiniteSet(C)
  PROVE  Seats(Deal(P, C), P, C)
<1> DEFINE D == {q \in P : Rank(q, P) <= Cardinality(C)}
           s == Deal(P, C)
<1>1. s = [p \in D |-> CHOOSE c \in C : Rank(c, C) = Rank(p, P)]
  BY DEF Deal
<1>2. ASSUME NEW p \in D PROVE s[p] \in C /\ Rank(s[p], C) = Rank(p, P)
  <2>1. Cardinality(C) \in Nat
    BY FS_CardinalityType
  <2>2. \E c \in C : Rank(c, C) = Rank(p, P)
    <3>1. CASE Rank(p, P) = 1
      BY <3>1, RankedFirst
    <3>2. CASE Rank(p, P) = 2
      BY <3>2, RankedSecond
    <3> QED BY <3>1, <3>2, PlayersRanked
  <2>3. s[p] = CHOOSE c \in C : Rank(c, C) = Rank(p, P)
    BY <1>1
  <2> QED BY <2>2, <2>3
<1>3. DOMAIN s = D /\ D \subseteq P
  BY <1>1
<1> HIDE DEF D, s
<1>4. ASSUME NEW p \in D, NEW q \in D, s[p] = s[q] PROVE p = q
  <2>1. Rank(p, P) = Rank(q, P)
    BY <1>2, <1>4
  <2> QED BY <1>3, <2>1, PlayersRanked
<1> QED BY <1>2, <1>3, <1>4 DEF Seats, s

(* Two passes together do, when the second has what the first has left. *)
LEMMA AlsoSeats ==
  ASSUME NEW s, NEW t, NEW P, NEW C, Seats(s, P, C),
         Seats(t, P \ DOMAIN s, C \ {s[p] : p \in DOMAIN s})
  PROVE  /\ Seats(Also(s, t), P, C)
         /\ \A p \in DOMAIN s : p \in DOMAIN Also(s, t) /\ Also(s, t)[p] = s[p]
<1> DEFINE u == Also(s, t)
<1>1. DOMAIN u = DOMAIN s \cup DOMAIN t
  BY DEF Also
<1>2. \A p \in DOMAIN s : u[p] = s[p]
  BY DEF Also
<1>3. \A p \in DOMAIN t : p \notin DOMAIN s /\ u[p] = t[p]
  BY DEF Also, Seats
<1>4. \A p \in DOMAIN t : t[p] \in C /\ \A q \in DOMAIN s : t[p] # s[q]
  BY DEF Seats
<1> HIDE DEF u
<1>5. DOMAIN u \subseteq P
  BY <1>1 DEF Seats
<1>6. \A p \in DOMAIN u : u[p] \in C
  BY <1>1, <1>2, <1>3, <1>4 DEF Seats
<1>7. ASSUME NEW p \in DOMAIN u, NEW q \in DOMAIN u, u[p] = u[q] PROVE p = q
  BY <1>1, <1>2, <1>3, <1>4, <1>7 DEF Seats
<1> QED BY <1>1, <1>2, <1>5, <1>6, <1>7 DEF Seats, u

(* Whoever is without a pad is dealt one of the pads nobody has; a player whose
   port has come back has that one, unless another remembers it too. *)
LEMMA SeatingSeats ==
  ASSUME Players = 1..2, Ports \subseteq Nat, IsFiniteSet(Ports)
  PROVE  /\ Seats(Seating, Vacant, Candidates)
         /\ \A r \in DOMAIN Returning : r \in DOMAIN Seating /\ Seating[r] = Returning[r]
<1> DEFINE one == Returning
           free == Candidates \ {one[p] : p \in DOMAIN one}
           new == {p \in Vacant \ DOMAIN one : port[p] = 0}
           two == Also(one, Deal(new, free))
           rest == Candidates \ {two[p] : p \in DOMAIN two}
           three == Also(two, Deal(Vacant \ DOMAIN two, rest))
<1>0. Seating = three
  BY DEF Seating
<1>1. Vacant \in SUBSET (1..2) /\ Candidates \in SUBSET Nat /\ Candidates \subseteq Ports
  BY DEF Vacant, Candidates
<1>2. Seats(one, Vacant, Candidates)
  <2> DEFINE D == {q \in Vacant : port[q] \in Candidates /\ ~\E r \in Vacant : r < q /\ port[r] = port[q]}
  <2>1. one = [p \in D |-> port[p]]
    BY DEF Returning
  <2>2. ASSUME NEW p \in D, NEW q \in D, port[p] = port[q] PROVE p = q
    <3>1. ~(p < q) /\ ~(q < p)
      BY <2>2
    <3>2. p \in 1..2 /\ q \in 1..2
      BY <1>1
    <3> QED BY <3>1, <3>2
  <2> QED BY <2>1, <2>2 DEF Seats
<1>3. free \in SUBSET Nat /\ IsFiniteSet(free) /\ rest \in SUBSET Nat /\ IsFiniteSet(rest)
  <2>1. free \subseteq Ports /\ rest \subseteq Ports
    BY <1>1
  <2> QED BY <2>1, FS_Subset
<1> HIDE DEF one
<1>4. Seats(Deal(new, free), Vacant \ DOMAIN one, free)
  <2>1. new \in SUBSET (1..2) /\ new \subseteq Vacant \ DOMAIN one
    BY <1>1
  <2> HIDE DEF new, free
  <2>2. Seats(Deal(new, free), new, free)
    BY <1>3, <2>1, DealSeats
  <2> QED BY <2>1, <2>2 DEF Seats
<1>5. /\ Seats(two, Vacant, Candidates)
      /\ \A p \in DOMAIN one : p \in DOMAIN two /\ two[p] = one[p]
  <2> HIDE DEF new
  <2> QED BY <1>2, <1>4, AlsoSeats
<1>6. Seats(Deal(Vacant \ DOMAIN two, rest), Vacant \ DOMAIN two, rest)
  <2>1. Vacant \ DOMAIN two \in SUBSET (1..2)
    BY <1>1
  <2> HIDE DEF two, rest
  <2> QED BY <1>3, <2>1, DealSeats
<1> HIDE DEF two
<1>7. /\ Seats(three, Vacant, Candidates)
      /\ \A p \in DOMAIN two : p \in DOMAIN three /\ three[p] = two[p]
  BY <1>5, <1>6, AlsoSeats
<1> HIDE DEF three
<1> QED BY <1>0, <1>5, <1>7 DEF one

-----------------------------------------------------------------------------
(* A pad is in step with its reader: reading the batch b and then the queue q
   makes of the buttons x that the reader knows those that are held, h, unless
   it has lost events.  Whatever was lost, h comes from what is queued; and from
   the batch too, while the queue tells of no loss. *)
InStepWith(b, q, x, h, missed) ==
  /\ (~missed /\ Clean(b) /\ Clean(q)) => h = LevelAfter(LevelAfter(x, b), q)
  /\ \E y \in SUBSET Buttons : h = LevelAfter(y, q)
  /\ Clean(q) => \E y \in SUBSET Buttons : h = LevelAfter(LevelAfter(y, b), q)

(* A pad that was just opened is in step. *)
LEMMA InStepFresh ==
  ASSUME NEW h \in SUBSET Buttons, NEW missed PROVE InStepWith(<<>>, <<>>, h, h, missed)
BY LevelFacts DEF InStepWith

(* A button moves: the event is queued, or everything queued is lost. *)
LEMMA InStepMoved ==
  ASSUME NEW b \in Seq(Events), NEW q \in Seq(Events), NEW x \in SUBSET Buttons, NEW h \in SUBSET Buttons,
         NEW missed \in BOOLEAN, NEW e \in Events, IsKey(e), InStepWith(b, q, x, h, missed)
  PROVE  /\ Level(h, e) \in SUBSET Buttons
         /\ Post(q, <<e, Report>>, Capacity) \in Seq(Events)
         /\ InStepWith(b, Post(q, <<e, Report>>, Capacity), x, Level(h, e), missed)
<1> DEFINE r == Post(q, <<e, Report>>, Capacity)
           n == Level(h, e)
<1>1. n \in SUBSET Buttons
  BY EventKinds DEF Level
<1>2. CASE r = q \o <<e, Report>>
  <2> DEFINE s == Append(Append(q, e), Report)
  <2>1. q \o <<e, Report>> = s
    OBVIOUS
  <2>2. Append(q, e) \in Seq(Events) /\ s \in Seq(Events)
    BY EventKinds, OneMore
  <2>3. \A y : LevelAfter(y, s) = Level(LevelAfter(y, q), e)
    <3>1. ASSUME NEW y PROVE LevelAfter(y, s) = LevelAfter(y, Append(q, e))
      <4> DEFINE f == Append(q, e)
      <4>1. f \in Seq(Events) /\ Report \in Events /\ ~IsKey(Report)
        BY <2>2, EventKinds
      <4> HIDE DEF f
      <4>2. LevelAfter(y, Append(f, Report)) = LevelAfter(y, f)
        BY <4>1, LevelFacts
      <4> QED BY <4>2 DEF f
    <3>2. \A y : LevelAfter(y, Append(q, e)) = Level(LevelAfter(y, q), e)
      BY LevelFacts
    <3> QED BY <3>1, <3>2
  <2>4. Clean(s) => Clean(q)
    BY <2>2, EventKinds, OneMore
  <2> HIDE DEF s
  <2>5. InStepWith(b, s, x, n, missed)
    BY <2>3, <2>4 DEF InStepWith
  <2> QED BY <1>1, <1>2, <2>1, <2>2, <2>5
<1>3. CASE r = <<Dropped, Report>>
  <2> DEFINE s == Append(Append(<<>>, Dropped), Report)
  <2>1. r = s
    BY <1>3
  <2>2. Append(<<>>, Dropped) \in Seq(Events) /\ s \in Seq(Events)
    BY EventKinds, OneMore, NoEvents
  <2>3. ~Clean(s) /\ ~HasKeys(s)
    BY <2>2, EventKinds, OneMore, NoEvents
  <2> HIDE DEF s
  <2>4. LevelAfter(n, s) = n
    BY <2>2, <2>3, LevelStays
  <2>5. InStepWith(b, s, x, n, missed)
    BY <1>1, <2>3, <2>4 DEF InStepWith
  <2> QED BY <1>1, <2>1, <2>2, <2>5
<1>4. r = q \o <<e, Report>> \/ r = <<Dropped, Report>>
  BY DEF Post
<1> QED BY <1>2, <1>3, <1>4

(* A read takes the first part of the queue. *)
LEMMA Divided ==
  ASSUME NEW T, NEW q \in Seq(T), NEW k \in 0..Len(q)
  PROVE  /\ SubSeq(q, 1, k) \in Seq(T) /\ SubSeq(q, k + 1, Len(q)) \in Seq(T)
         /\ Len(SubSeq(q, 1, k)) = k
         /\ q = SubSeq(q, 1, k) \o SubSeq(q, k + 1, Len(q))
<1> DEFINE a == SubSeq(q, 1, k)
           c == SubSeq(q, k + 1, Len(q))
           n == Len(q)
<1>1. n \in Nat /\ k \in Nat /\ k <= n
  OBVIOUS
<1>2. a \in Seq(T) /\ Len(a) = k /\ \A i \in 1..k : a[i] = q[i]
  BY <1>1
<1>3. c \in Seq(T) /\ Len(c) = n - k /\ \A i \in 1..(n - k) : c[i] = q[k + i]
  BY <1>1
<1> HIDE DEF a, c
<1> DEFINE s == a \o c
<1>4. /\ s \in Seq(T) /\ Len(s) = k + (n - k)
      /\ \A i \in 1..k : s[i] = a[i]
      /\ \A i \in 1..(n - k) : s[k + i] = c[i]
  BY <1>1, <1>2, <1>3
<1> HIDE DEF s
<1>5. ASSUME NEW i \in 1..n PROVE s[i] = q[i]
  <2>1. CASE i \in 1..k
    BY <2>1, <1>2, <1>4
  <2>2. CASE i \notin 1..k
    <3>1. i - k \in 1..(n - k) /\ k + (i - k) = i
      BY <1>1, <2>2
    <3> QED BY <3>1, <1>3, <1>4
  <2> QED BY <2>1, <2>2
<1>6. Len(s) = n
  BY <1>1, <1>4
<1> HIDE DEF n
<1>7. s = q
  BY <1>4, <1>5, <1>6 DEF n
<1> QED BY <1>2, <1>3, <1>7 DEF a, c, s, n

(* What is read into the batch stays in step. *)
LEMMA InStepFetched ==
  ASSUME NEW q \in Seq(Events), NEW x \in SUBSET Buttons, NEW h, NEW missed, NEW size \in Nat,
         InStepWith(<<>>, q, x, h, missed)
  PROVE  LET b == FirstBatch(q, size)
             r == Rest(q, b)
         IN  b \in Seq(Events) /\ r \in Seq(Events) /\ InStepWith(b, r, x, h, missed)
<1> DEFINE b == FirstBatch(q, size)
           r == Rest(q, b)
           k == IF Len(q) < size THEN Len(q) ELSE size
<1>1. k \in 0..Len(q)
  OBVIOUS
<1>2. b = SubSeq(q, 1, k)
  BY DEF FirstBatch
<1>3. b \in Seq(Events) /\ Len(b) = k /\ q = b \o SubSeq(q, k + 1, Len(q)) /\ SubSeq(q, k + 1, Len(q)) \in Seq(Events)
  <2>1. SubSeq(q, 1, k) \in Seq(Events) /\ SubSeq(q, k + 1, Len(q)) \in Seq(Events)
    BY ONLY <1>1, q \in Seq(Events), Divided
  <2>2. Len(SubSeq(q, 1, k)) = k /\ q = SubSeq(q, 1, k) \o SubSeq(q, k + 1, Len(q))
    BY ONLY <1>1, q \in Seq(Events), Divided
  <2> HIDE DEF b, k
  <2> QED BY ONLY <1>2, <2>1, <2>2
<1>4. r = SubSeq(q, k + 1, Len(q))
  BY <1>3 DEF Rest
<1> HIDE DEF k, b, r
<1>5. b \in Seq(Events) /\ r \in Seq(Events) /\ q = b \o r
  BY <1>3, <1>4
<1>6. \A y : LevelAfter(y, q) = LevelAfter(LevelAfter(y, b), r)
  BY <1>5, LevelInParts
<1>7. Clean(q) <=> Clean(b) /\ Clean(r)
  BY <1>5, CleanBoth
<1>8. \A y : LevelAfter(y, <<>>) = y
  BY LevelFacts
<1>9. Clean(<<>>)
  BY NoEvents
<1>10. (~missed /\ Clean(b) /\ Clean(r)) => h = LevelAfter(LevelAfter(x, b), r)
  BY <1>6, <1>7, <1>8, <1>9 DEF InStepWith
<1>11. PICK y \in SUBSET Buttons : h = LevelAfter(y, q)
  BY DEF InStepWith
<1>12. h = LevelAfter(LevelAfter(y, b), r) /\ LevelAfter(y, b) \in SUBSET Buttons
  BY <1>5, <1>6, <1>11, LevelFacts
<1>13. InStepWith(b, r, x, h, missed)
  BY <1>10, <1>12 DEF InStepWith
<1> QED BY <1>5, <1>13 DEF b, r

(* A batch is applied: what was lost is made up for by what the device has,
   unless it is told again in a queue whose key events are gone (torn). *)
LEMMA InStepApplied ==
  ASSUME NEW b \in Seq(Events), NEW q \in Seq(Events), NEW x \in SUBSET Buttons, NEW h \in SUBSET Buttons,
         NEW drops \in BOOLEAN, NEW tears \in BOOLEAN, InStepWith(b, q, x, h, drops \/ tears),
         NEW after \in PadStates, Follows(h, x, drops, b, after),
         NEW r, r = IF after.synced THEN AfterSnapshot(q) ELSE q,
         NEW t, t = IF after.synced THEN after.late /\ HasKeys(q) ELSE tears
  PROVE  InStepWith(<<>>, r, after.raw, h, after.dropping \/ t)
<1>1. Follows(h, x, drops, b, after)
  OBVIOUS
<1>2. after.raw \in SUBSET Buttons /\ after.synced \in BOOLEAN /\ after.dropping \in BOOLEAN /\ after.late \in BOOLEAN
  BY DEF PadStates
<1>3. r \in Seq(Events)
  BY SnapshotSweeps
<1>4. \A y : LevelAfter(y, <<>>) = y
  BY LevelFacts
<1>5. \E y \in SUBSET Buttons : h = LevelAfter(y, r)
  <2>1. CASE after.synced
    <3>1. LevelAfter(h, r) = h
      BY <2>1, SnapshotSweeps, LevelStays
    <3> QED BY <3>1
  <2>2. CASE ~after.synced
    BY <2>2 DEF InStepWith
  <2> QED BY <1>2, <2>1, <2>2
<1>6. ASSUME ~(after.dropping \/ t), Clean(r) PROVE h = LevelAfter(after.raw, r)
  <2>1. CASE ~after.synced
    <3>1. after.raw = LevelAfter(x, b) /\ ~drops /\ Clean(b)
      BY <1>1, <1>6, <2>1 DEF Follows
    <3>2. r = q /\ ~tears
      BY <1>6, <2>1
    <3> QED BY <1>6, <3>1, <3>2 DEF InStepWith
  <2>2. CASE after.synced
    <3>1. r = AfterSnapshot(q) /\ Clean(q) /\ ~HasKeys(r)
      BY <1>6, <2>2, SnapshotSweeps
    <3>2. LevelAfter(after.raw, r) = after.raw
      BY <1>3, <3>1, LevelStays
    <3>3. PICK u \in Seq(Events), s \in Seq(Events) :
            b = u \o s /\ after.raw = LevelAfter(h, s) /\ (after.late \/ ~HasKeys(s))
      BY <1>1, <1>6, <2>2 DEF Follows
    <3>4. CASE ~HasKeys(s)
      <4>1. LevelAfter(h, s) = h
        BY <3>4, LevelStays
      <4> QED BY <3>2, <3>3, <4>1
    <3>5. CASE after.late
      <4>1. ~HasKeys(q)
        BY <1>6, <2>2, <3>5
      <4>2. PICK y \in SUBSET Buttons : h = LevelAfter(LevelAfter(y, b), q)
        BY <3>1 DEF InStepWith
      <4>3. h = LevelAfter(y, b)
        BY <4>1, <4>2, LevelStays
      <4>4. LevelAfter(y, b) = LevelAfter(LevelAfter(y, u), s) /\ LevelAfter(y, u) \in SUBSET Buttons
        <5>1. LevelAfter(y, u \o s) = LevelAfter(LevelAfter(y, u), s)
          BY LevelInParts
        <5>2. LevelAfter(y, u) \in SUBSET Buttons
          BY <4>2, LevelFacts
        <5> QED BY <3>3, <5>1, <5>2
      <4>5. LevelAfter(LevelAfter(LevelAfter(y, u), s), s) = LevelAfter(LevelAfter(y, u), s)
        BY <4>4, LevelTwice
      <4>6. LevelAfter(h, s) = h
        BY <4>3, <4>4, <4>5
      <4> QED BY <3>2, <3>3, <4>6
    <3> QED BY <3>3, <3>4, <3>5
  <2> QED BY <1>2, <2>1, <2>2
<1> QED BY <1>4, <1>5, <1>6 DEF InStepWith

-----------------------------------------------------------------------------
(* The invariant of the controllers.                                       *)

(* The types of all variables. *)
JoypadTypes ==
  /\ limits \in JoypadScopes
  /\ node \in [Ports -> Nodes \cup {0}] /\ pushed \in [Ports -> SUBSET Buttons] /\ typing \in SUBSET Keys
  /\ fd \in [Players -> {"None", "Live", "Dead"}] /\ path \in [Players -> Nodes \cup {0}]
  /\ port \in [Players -> Ports \cup {0}] /\ raw \in [Players -> SUBSET Buttons]
  /\ queue \in [Players -> Seq(Events)] /\ batch \in Seq(Events)
  /\ dropping \in SUBSET Players /\ torn \in SUBSET Players /\ ready \in SUBSET Players
  /\ pad_distinct \in [Players -> SUBSET Buttons] /\ DOMAIN pad_state = Players
  /\ keys \in SUBSET Keys /\ console \in {"Cooked", "Raw"} /\ keyboard \in {"None", "Raw"}
  /\ worker \in {"Head", "Poll", "Drain", "Ended"} /\ host \in {"Running", "Joining"}
  /\ thread \in {"None", "Some"} /\ generation \in Nat /\ sessions \in SUBSET (1..generation)

(* The part of the batch that is a player's: the worker reads one pad at a time. *)
Mine(p) == IF p = Min(ready) THEN batch ELSE <<>>

(* An open pad is that of the port it was found at; nobody else reads it; and
   it is in step. *)
PadsKept ==
  /\ \A c, d \in Ports : (c # d /\ node[c] # 0) => node[c] # node[d]
  /\ \A p \in Players : fd[p] = "Live" => port[p] \in Ports /\ node[port[p]] # 0 /\ path[p] = node[port[p]]
  /\ \A p \in Players : fd[p] = "None" => raw[p] = {}
  /\ OnePadEach
  /\ \A p \in Players :
       fd[p] = "Live" => InStepWith(Mine(p), queue[p], raw[p], pushed[port[p]], p \in dropping \cup torn)

(* What a player's published buttons are between two rounds of the worker. *)
PadState(p, buttons, pressed) == gamepad_state(buttons) \cup (IF p = 1 THEN keyboard_mask(pressed) ELSE {})
(* What is published between two rounds of the worker. *)
Published ==
  worker \in {"Head", "Poll"} =>
    \A p \in Players : pad_distinct[p] = raw[p] /\ pad_state[p] = PadState(p, raw[p], keys)

(* A batch is in hand only while pads are drained, and its pad is open; without a thread the worker
   has ended. *)
WorkerPhases ==
  /\ batch # <<>> => (worker = "Drain" /\ \A p \in Players : p = Min(ready) => fd[p] # "None")
  /\ thread = "None" => worker = "Ended"

(* The invariant. *)
JoypadInv == JoypadTypes /\ PadsKept /\ Published /\ WorkerPhases /\ NothingHeld

(* It contains what the runs check. *)
LEMMA JoypadInvTrue == ASSUME JoypadInv PROVE JoypadTypeOK /\ SamplesTrue /\ OnePadEach /\ NothingHeld
<1> USE DEF JoypadInv
<1>1. JoypadTypeOK
  BY DEF JoypadTypes, JoypadTypeOK
<1>2. ASSUME worker \in {"Head", "Poll"}, NEW p \in Players, fd[p] # "Dead", queue[p] = <<>>, p \notin dropping \cup torn
      PROVE  LET pad == IF fd[p] = "Live" THEN pushed[port[p]] ELSE {} IN
             /\ pad_distinct[p] = pad
             /\ pad_state[p] = gamepad_state(pad) \cup (IF p = 1 THEN keyboard_mask(keys) ELSE {})
  <2>1. pad_distinct[p] = raw[p] /\ pad_state[p] = PadState(p, raw[p], keys)
    BY <1>2 DEF Published
  <2>2. CASE fd[p] = "Live"
    <3>1. batch = <<>>
      BY <1>2 DEF WorkerPhases
    <3>2. Mine(p) = <<>>
      BY <3>1 DEF Mine
    <3>3. InStepWith(Mine(p), queue[p], raw[p], pushed[port[p]], p \in dropping \cup torn)
      BY <2>2 DEF PadsKept
    <3>4. \A y : LevelAfter(y, <<>>) = y
      BY LevelFacts
    <3>5. pushed[port[p]] = raw[p]
      BY <1>2, <3>2, <3>3, <3>4, NoEvents DEF InStepWith
    <3> QED BY <2>1, <2>2, <3>5 DEF PadState
  <2>3. CASE fd[p] = "None"
    <3>1. raw[p] = {}
      BY <2>3 DEF PadsKept
    <3> QED BY <2>1, <2>3, <3>1 DEF PadState
  <2> QED BY <1>2, <2>2, <2>3 DEF JoypadTypes
<1>3. SamplesTrue
  BY <1>2 DEF SamplesTrue
<1> QED BY <1>1, <1>3 DEF PadsKept

(* It holds before any session. *)
LEMMA JoypadInitInv == ASSUME JoypadAssumption, JoypadInit PROVE JoypadInv
<1> USE DEF JoypadInit
<1>1. JoypadTypes
  BY DEF JoypadTypes
<1>2. PadsKept
  BY DEF PadsKept, OnePadEach
<1> QED BY <1>1, <1>2 DEF JoypadInv, Published, WorkerPhases, NothingHeld

-----------------------------------------------------------------------------
(* The steps of the controllers keep it.                                   *)

(* Steps that touch no pad. *)
LEMMA PadsUntouched ==
  ASSUME PadsKept, UNCHANGED <<node, pushed, fd, path, port, queue, raw, dropping, torn>>,
         batch' = batch, ready' = ready \/ batch = <<>>
  PROVE  PadsKept'
<1>1. \A p : Mine(p)' = Mine(p)
  BY DEF Mine
<1> QED BY <1>1 DEF PadsKept, OnePadEach

(* A pad is closed, with the batch that was its. *)
LEMMA PadsClosed ==
  ASSUME JoypadTypes, PadsKept, NEW p \in Players, p = Min(ready) \/ batch = <<>>,
         close_gamepad(p), UNCHANGED <<node, pushed>>, batch' = <<>>
  PROVE  /\ PadsKept'
         /\ fd' \in [Players -> {"None", "Live", "Dead"}] /\ path' \in [Players -> Nodes \cup {0}]
         /\ raw' \in [Players -> SUBSET Buttons] /\ queue' \in [Players -> Seq(Events)]
         /\ dropping' \in SUBSET Players /\ torn' \in SUBSET Players /\ port' = port
<1> USE DEF JoypadTypes
<1>1. /\ fd' \in [Players -> {"None", "Live", "Dead"}] /\ path' \in [Players -> Nodes \cup {0}]
      /\ raw' \in [Players -> SUBSET Buttons] /\ queue' \in [Players -> Seq(Events)]
      /\ dropping' \in SUBSET Players /\ torn' \in SUBSET Players /\ port' = port
  BY NoEvents DEF close_gamepad
<1>2. fd'[p] = "None" /\ raw'[p] = {}
  BY DEF close_gamepad
<1>3. ASSUME NEW q \in Players, q # p
      PROVE  /\ fd'[q] = fd[q] /\ path'[q] = path[q] /\ queue'[q] = queue[q] /\ raw'[q] = raw[q]
             /\ (q \in dropping' \cup torn') = (q \in dropping \cup torn)
             /\ Mine(q) = <<>> /\ Mine(q)' = <<>>
  BY <1>3 DEF close_gamepad, Mine
<1>4. ASSUME NEW q \in Players, fd'[q] = "Live"
      PROVE  /\ port'[q] \in Ports /\ node'[port'[q]] # 0 /\ path'[q] = node'[port'[q]]
             /\ InStepWith(Mine(q)', queue'[q], raw'[q], pushed'[port'[q]], q \in dropping' \cup torn')
  <2>1. q # p /\ fd[q] = "Live"
    BY <1>2, <1>3, <1>4
  <2> QED BY <2>1, <1>1, <1>3 DEF PadsKept
<1>5. \A q \in Players : fd'[q] = "None" => raw'[q] = {}
  BY <1>2, <1>3 DEF PadsKept
<1>6. OnePadEach'
  BY <1>2, <1>3 DEF PadsKept, OnePadEach
<1> QED BY <1>1, <1>4, <1>5, <1>6 DEF PadsKept

(* Everything is closed. *)
LEMMA PadsGone ==
  ASSUME JoypadTypes, PadsKept, NothingOpen, UNCHANGED node
  PROVE  /\ PadsKept'
         /\ fd' \in [Players -> {"None", "Live", "Dead"}] /\ path' \in [Players -> Nodes \cup {0}]
         /\ port' \in [Players -> Ports \cup {0}]
         /\ raw' \in [Players -> SUBSET Buttons] /\ queue' \in [Players -> Seq(Events)]
         /\ dropping' \in SUBSET Players /\ torn' \in SUBSET Players
BY NoEvents DEF NothingOpen, PadsKept, OnePadEach

(* Pads are attached while no batch is in hand. *)
LEMMA PadsAttached ==
  ASSUME JoypadAssumption, JoypadTypes, PadsKept, Attach(Seating), UNCHANGED <<node, pushed>>,
         batch = <<>>, batch' = <<>>
  PROVE  /\ PadsKept'
         /\ fd' \in [Players -> {"None", "Live", "Dead"}] /\ path' \in [Players -> Nodes \cup {0}]
         /\ port' \in [Players -> Ports \cup {0}]
         /\ raw' \in [Players -> SUBSET Buttons] /\ queue' \in [Players -> Seq(Events)]
         /\ dropping' \in SUBSET Players /\ torn' \in SUBSET Players
<1> USE DEF JoypadTypes
<1> DEFINE s == Seating
           new == DOMAIN s
<1>0. Players = 1..2 /\ Ports \subseteq Nat \ {0} /\ IsFiniteSet(Ports) /\ Nodes \subseteq Nat \ {0}
  BY DEF JoypadAssumption
<1>1. Seats(s, Vacant, Candidates)
  BY <1>0, SeatingSeats
<1> HIDE DEF s
<1>2. \A p \in new : s[p] \in Ports /\ node[s[p]] # 0 /\ p \in Players /\ fd[p] = "None"
                     /\ \A q \in Players : fd[q] # "None" => path[q] # node[s[p]]
  BY <1>1 DEF Seats, Vacant, Candidates
<1>3. \A p \in new : /\ fd'[p] = "Live" /\ port'[p] = s[p] /\ path'[p] = node[s[p]]
                     /\ raw'[p] = pushed[s[p]] /\ queue'[p] = <<>> /\ p \notin dropping' \cup torn'
  BY <1>2 DEF Attach, s
<1>4. \A p \in Players \ new : /\ fd'[p] = fd[p] /\ port'[p] = port[p] /\ path'[p] = path[p]
                               /\ raw'[p] = raw[p] /\ queue'[p] = queue[p]
                               /\ (p \in dropping' \cup torn') = (p \in dropping \cup torn)
  BY DEF Attach, s
<1>5. /\ fd' \in [Players -> {"None", "Live", "Dead"}] /\ path' \in [Players -> Nodes \cup {0}]
      /\ port' \in [Players -> Ports \cup {0}]
      /\ raw' \in [Players -> SUBSET Buttons] /\ queue' \in [Players -> Seq(Events)]
      /\ dropping' \in SUBSET Players /\ torn' \in SUBSET Players
  BY <1>2, NoEvents DEF Attach, s
<1>6. \A p : Mine(p) = <<>> /\ Mine(p)' = <<>>
  BY DEF Mine
<1>7. ASSUME NEW p \in Players, fd'[p] = "Live"
      PROVE  /\ port'[p] \in Ports /\ node'[port'[p]] # 0 /\ path'[p] = node'[port'[p]]
             /\ InStepWith(Mine(p)', queue'[p], raw'[p], pushed'[port'[p]], p \in dropping' \cup torn')
  <2>1. CASE p \in new
    <3>1. InStepWith(<<>>, <<>>, pushed[s[p]], pushed[s[p]], p \in dropping' \cup torn')
      BY <2>1, <1>2, InStepFresh
    <3> QED BY <2>1, <3>1, <1>2, <1>3, <1>6
  <2>2. CASE p \notin new
    BY <2>2, <1>4, <1>6, <1>7 DEF PadsKept
  <2> QED BY <2>1, <2>2
<1>8. \A p \in Players : fd'[p] = "None" => raw'[p] = {}
  BY <1>3, <1>4 DEF PadsKept
<1>9. ASSUME NEW p \in Players, NEW q \in Players, p # q, fd'[p] = "Live", fd'[q] = "Live"
      PROVE  path'[p] # path'[q]
  <2>1. CASE p \in new /\ q \in new
    <3>1. s[p] # s[q]
      BY <1>1, <1>9, <2>1 DEF Seats
    <3>2. node[s[p]] # node[s[q]]
      BY <2>1, <3>1, <1>2 DEF PadsKept
    <3>3. path'[p] = node[s[p]] /\ path'[q] = node[s[q]]
      BY <2>1, <1>3
    <3> QED BY <3>2, <3>3
  <2>2. CASE p \in new /\ q \notin new
    BY <2>2, <1>2, <1>3, <1>4, <1>9
  <2>3. CASE p \notin new /\ q \in new
    BY <2>3, <1>2, <1>3, <1>4, <1>9
  <2>4. CASE p \notin new /\ q \notin new
    BY <2>4, <1>4, <1>9 DEF PadsKept, OnePadEach
  <2> QED BY <2>1, <2>2, <2>3, <2>4
<1> QED BY <1>5, <1>7, <1>8, <1>9 DEF PadsKept, OnePadEach

(* What is published is what the reader knows. *)
LEMMA PublishTrue ==
  ASSUME NEW buttons \in [Players -> SUBSET Buttons], NEW pressed, publish_states(buttons, pressed)
  PROVE  /\ pad_distinct' \in [Players -> SUBSET Buttons] /\ DOMAIN pad_state' = Players
         /\ \A p \in Players : pad_distinct'[p] = buttons[p] /\ pad_state'[p] = PadState(p, buttons[p], pressed)
BY DEF publish_states, PadState

(* Without a thread the worker does nothing. *)
LEMMA WorkerNeedsThread ==
  ASSUME JoypadInv, worker # "Ended" PROVE thread = "Some"
BY DEF JoypadInv, WorkerPhases, JoypadTypes

(* The worker thread ends. *)
LEMMA LoopStopsKeeps == ASSUME JoypadInv, LoopStops PROVE JoypadInv'
<1> USE DEF JoypadInv, LoopStops, worldVars, padVars, keyVars, published, sessionVars
<1>1. JoypadTypes'
  BY DEF JoypadTypes
<1>2. PadsKept'
  BY PadsUntouched
<1>3. Published' /\ WorkerPhases' /\ NothingHeld'
  BY DEF Published, WorkerPhases, NothingHeld
<1> QED BY <1>1, <1>2, <1>3

(* The scan of once a second attaches pads and publishes. *)
LEMMA LoopScansKeeps == ASSUME JoypadAssumption, JoypadInv, LoopScans PROVE JoypadInv'
<1> USE DEF LoopScans, scan_gamepads, worldVars, keyVars, sessionVars
<1>0. JoypadTypes /\ PadsKept /\ thread = "Some"
  BY WorkerNeedsThread DEF JoypadInv
<1>1. batch = <<>> /\ batch' = <<>>
  BY DEF JoypadInv, WorkerPhases
<1>2. /\ PadsKept'
      /\ fd' \in [Players -> {"None", "Live", "Dead"}] /\ path' \in [Players -> Nodes \cup {0}]
      /\ port' \in [Players -> Ports \cup {0}]
      /\ raw' \in [Players -> SUBSET Buttons] /\ queue' \in [Players -> Seq(Events)]
      /\ dropping' \in SUBSET Players /\ torn' \in SUBSET Players
  BY <1>0, <1>1, PadsAttached
<1>3. /\ pad_distinct' \in [Players -> SUBSET Buttons] /\ DOMAIN pad_state' = Players
      /\ \A p \in Players : pad_distinct'[p] = raw'[p] /\ pad_state'[p] = PadState(p, raw'[p], keys)
  BY <1>2, PublishTrue
<1>4. JoypadTypes'
  BY <1>0, <1>2, <1>3 DEF JoypadTypes
<1>5. Published' /\ WorkerPhases' /\ NothingHeld'
  BY <1>0, <1>1, <1>3 DEF Published, WorkerPhases, NothingHeld, PadState
<1> QED BY <1>2, <1>4, <1>5 DEF JoypadInv

(* poll takes the keyboard as it is and notes which pads are ready. *)
LEMMA LoopPollsKeeps == ASSUME JoypadInv, LoopPolls PROVE JoypadInv'
<1> USE DEF LoopPolls, worldVars, padVars, sessionVars
<1>0. JoypadTypes /\ PadsKept /\ thread = "Some"
  BY WorkerNeedsThread DEF JoypadInv
<1>1. batch = <<>> /\ batch' = <<>> /\ worker \in {"Head", "Poll"}
  BY DEF JoypadInv, WorkerPhases
<1>2. Readable \in SUBSET Players
  BY DEF Readable
<1>3. /\ ready' \in SUBSET Players /\ keys' \in SUBSET Keys /\ worker' \in {"Head", "Drain"}
  BY <1>0, <1>2 DEF poll, JoypadTypes
<1>4. \A p \in Players : pad_distinct[p] = raw[p] /\ pad_state[p] = PadState(p, raw[p], keys)
  BY <1>1 DEF JoypadInv, Published
<1>5. /\ pad_distinct' \in [Players -> SUBSET Buttons] /\ DOMAIN pad_state' = Players
      /\ \A p \in Players : pad_distinct'[p] = raw'[p] /\ pad_state'[p] = PadState(p, raw'[p], keys')
  <2>1. CASE publish_states(raw, typing) /\ keys' = typing
    <3>1. raw \in [Players -> SUBSET Buttons] /\ raw' = raw
      BY <1>0 DEF JoypadTypes
    <3> QED BY <2>1, <3>1, PublishTrue
  <2>2. CASE UNCHANGED published /\ keys' = keys
    BY <2>2, <1>0, <1>4 DEF JoypadTypes, published
  <2> QED BY <2>1, <2>2 DEF poll, Typed
<1>6. JoypadTypes'
  BY <1>0, <1>1, <1>3, <1>5 DEF JoypadTypes
<1>7. PadsKept'
  BY <1>0, <1>1, PadsUntouched
<1>8. Published' /\ WorkerPhases' /\ NothingHeld'
  BY <1>0, <1>1, <1>5 DEF Published, WorkerPhases, NothingHeld, PadState
<1> QED BY <1>6, <1>7, <1>8 DEF JoypadInv

(* The worker goes on to the next pad; after the last it has published. *)
LEMMA DoneKeeps ==
  ASSUME JoypadTypes, worker = "Drain", raw' \in [Players -> SUBSET Buttons], NEW p \in Players, DoneWith(p), keys' = keys
  PROVE  /\ ready' \in SUBSET Players /\ worker' \in {"Head", "Drain"}
         /\ pad_distinct' \in [Players -> SUBSET Buttons] /\ DOMAIN pad_state' = Players
         /\ Published'
<1>1. CASE ready = {p}
  <2>1. /\ pad_distinct' \in [Players -> SUBSET Buttons] /\ DOMAIN pad_state' = Players
        /\ \A q \in Players : pad_distinct'[q] = raw'[q] /\ pad_state'[q] = PadState(q, raw'[q], keys)
    BY <1>1, PublishTrue DEF DoneWith
  <2> QED BY <1>1, <2>1 DEF DoneWith, Published, PadState, JoypadTypes
<1>2. CASE ready # {p}
  BY <1>2 DEF DoneWith, Published, published, JoypadTypes
<1> QED BY <1>1, <1>2

(* A lost pad is closed; of another a batch is taken from the queue. *)
LEMMA FetchKeeps == ASSUME JoypadAssumption, JoypadInv, NEW p \in Players, Fetch(p) PROVE JoypadInv'
<1> USE DEF worldVars, keyVars, sessionVars
<1>0. JoypadTypes /\ PadsKept /\ thread = "Some" /\ worker = "Drain" /\ batch = <<>> /\ p = Min(ready)
  BY WorkerNeedsThread DEF JoypadInv, Fetch
<1>1. CASE fd[p] = "Dead" /\ close_gamepad(p) /\ DoneWith(p) /\ UNCHANGED batch
  <2>1. /\ PadsKept'
        /\ fd' \in [Players -> {"None", "Live", "Dead"}] /\ path' \in [Players -> Nodes \cup {0}]
        /\ raw' \in [Players -> SUBSET Buttons] /\ queue' \in [Players -> Seq(Events)]
        /\ dropping' \in SUBSET Players /\ torn' \in SUBSET Players /\ port' = port
    BY <1>0, <1>1, PadsClosed DEF Fetch
  <2>2. /\ ready' \in SUBSET Players /\ worker' \in {"Head", "Drain"}
        /\ pad_distinct' \in [Players -> SUBSET Buttons] /\ DOMAIN pad_state' = Players
        /\ Published'
    BY <1>0, <1>1, <2>1, DoneKeeps DEF Fetch
  <2>3. JoypadTypes'
    BY <1>0, <1>1, <2>1, <2>2 DEF JoypadTypes, Fetch
  <2>4. WorkerPhases' /\ NothingHeld'
    BY <1>0, <1>1 DEF WorkerPhases, NothingHeld, Fetch
  <2> QED BY <2>1, <2>2, <2>3, <2>4 DEF JoypadInv
<1>2. CASE fd[p] = "Live" /\ queue[p] = <<>> /\ UNCHANGED <<padVars, batch>> /\ DoneWith(p)
  <2>1. PadsKept'
    BY <1>0, <1>2, PadsUntouched DEF Fetch, padVars
  <2>2. /\ ready' \in SUBSET Players /\ worker' \in {"Head", "Drain"}
        /\ pad_distinct' \in [Players -> SUBSET Buttons] /\ DOMAIN pad_state' = Players
        /\ Published'
    <3>1. raw' \in [Players -> SUBSET Buttons]
      BY <1>0, <1>2 DEF JoypadTypes, padVars
    <3> QED BY <1>0, <1>2, <3>1, DoneKeeps DEF Fetch
  <2>3. JoypadTypes'
    BY <1>0, <1>2, <2>2 DEF JoypadTypes, Fetch, padVars
  <2>4. WorkerPhases' /\ NothingHeld'
    BY <1>0, <1>2 DEF WorkerPhases, NothingHeld, Fetch
  <2> QED BY <2>1, <2>2, <2>3, <2>4 DEF JoypadInv
<1>3. CASE /\ fd[p] = "Live" /\ queue[p] # <<>>
           /\ batch' = FirstBatch(queue[p], Batch)
           /\ queue' = [queue EXCEPT ![p] = Rest(@, batch')]
           /\ UNCHANGED <<fd, path, port, raw, dropping, torn, ready, worker, published>>
  <2>1. InStepWith(<<>>, queue[p], raw[p], pushed[port[p]], p \in dropping \cup torn)
    BY <1>0, <1>3 DEF PadsKept, Mine
  <2>2. queue[p] \in Seq(Events) /\ raw[p] \in SUBSET Buttons /\ Batch \in Nat
    BY <1>0 DEF JoypadTypes, JoypadAssumption
  <2>3. batch' \in Seq(Events) /\ Rest(queue[p], batch') \in Seq(Events)
        /\ InStepWith(batch', Rest(queue[p], batch'), raw[p], pushed[port[p]], p \in dropping \cup torn)
    BY <1>3, <2>1, <2>2, InStepFetched
  <2>4. UNCHANGED <<node, pushed, fd, path, port, raw, dropping, torn, ready, worker, pad_state, pad_distinct>>
    BY <1>3 DEF Fetch, published
  <2>5. queue' \in [Players -> Seq(Events)] /\ queue'[p] = Rest(queue[p], batch')
        /\ \A q \in Players : q # p => queue'[q] = queue[q]
    BY <1>0, <1>3, <2>3 DEF JoypadTypes
  <2>6. JoypadTypes'
    BY <1>0, <2>3, <2>4, <2>5 DEF JoypadTypes, Fetch
  <2>7. ASSUME NEW q \in Players, fd[q] = "Live"
        PROVE  InStepWith(Mine(q)', queue'[q], raw[q], pushed[port[q]], q \in dropping \cup torn)
    <3>1. CASE q = p
      <4>1. Mine(q)' = batch'
        BY <1>0, <2>4, <3>1 DEF Mine
      <4> QED BY <2>3, <2>5, <3>1, <4>1
    <3>2. CASE q # p
      <4>1. Mine(q)' = <<>> /\ Mine(q) = <<>>
        BY <1>0, <2>4, <3>2 DEF Mine
      <4>2. InStepWith(Mine(q), queue[q], raw[q], pushed[port[q]], q \in dropping \cup torn)
        BY <1>0, <2>7 DEF PadsKept
      <4> QED BY <2>5, <3>2, <4>1, <4>2
    <3> QED BY <3>1, <3>2
  <2>8. PadsKept'
    BY <1>0, <2>4, <2>7 DEF PadsKept, OnePadEach
  <2>9. Published' /\ WorkerPhases' /\ NothingHeld'
    BY <1>0, <2>4 DEF Published, WorkerPhases, NothingHeld, Fetch
  <2> QED BY <2>6, <2>8, <2>9 DEF JoypadInv
<1> QED BY <1>1, <1>2, <1>3 DEF Fetch

(* The batch is applied, with at most a snapshot that overtakes what is queued. *)
LEMMA ApplyKeeps == ASSUME JoypadAssumption, JoypadInv, NEW p \in Players, Apply(p) PROVE JoypadInv'
<1> USE DEF worldVars, keyVars, sessionVars
<1> DEFINE d == p \in dropping
           u == p \in torn
           before == [raw |-> raw[p], dropping |-> d, synced |-> FALSE, late |-> FALSE]
           snapshot == IF fd[p] = "Live" THEN pushed[port[p]] ELSE {}
           after == ReadAll(LAMBDA st, e : ApplyEvent(snapshot, st, e), before, batch)
           r == IF after.synced THEN AfterSnapshot(queue[p]) ELSE queue[p]
           t == IF after.synced THEN after.late /\ HasKeys(queue[p]) ELSE u
<1>0. JoypadTypes /\ PadsKept /\ thread = "Some" /\ worker = "Drain" /\ p = Min(ready) /\ batch' = <<>>
  BY WorkerNeedsThread DEF JoypadInv, Apply
<1>a. UNCHANGED <<worldVars, keyVars, due, sessionVars>>
  BY DEF Apply
<1>b. queue[p] \in Seq(Events) /\ raw[p] \in SUBSET Buttons /\ batch \in Seq(Events)
  BY <1>0 DEF JoypadTypes
<1>c. snapshot \in SUBSET Buttons
  BY <1>0 DEF JoypadTypes, PadsKept
<1>1. after \in PadStates /\ Follows(snapshot, raw[p], d, batch, after)
  <2>1. d \in BOOLEAN
    OBVIOUS
  <2> HIDE DEF snapshot, d
  <2> QED BY <1>b, <1>c, <2>1, ReadFollows
<1>2. IF fd[p] = "Dead" /\ after.synced
      THEN close_gamepad(p) /\ DoneWith(p)
      ELSE /\ raw' = [raw EXCEPT ![p] = after.raw]
           /\ dropping' = IF after.dropping THEN dropping \cup {p} ELSE dropping \ {p}
           /\ torn' = IF ~after.synced THEN torn
                      ELSE IF after.late /\ HasKeys(queue[p]) THEN torn \cup {p}
                      ELSE torn \ {p}
           /\ queue' = IF after.synced THEN [queue EXCEPT ![p] = AfterSnapshot(@)] ELSE queue
           /\ UNCHANGED <<fd, path, port, ready, worker, published>>
  BY DEF Apply
<1>3. fd[p] = "Live" => InStepWith(<<>>, r, after.raw, snapshot, after.dropping \/ t)
  <2>1. SUFFICES ASSUME fd[p] = "Live" PROVE InStepWith(<<>>, r, after.raw, snapshot, after.dropping \/ t)
    OBVIOUS
  <2>2. Mine(p) = batch /\ snapshot = pushed[port[p]]
    BY <1>0, <2>1 DEF Mine
  <2>3. InStepWith(batch, queue[p], raw[p], snapshot, p \in dropping \cup torn)
    BY <1>0, <2>1, <2>2 DEF PadsKept
  <2>4. (p \in dropping \cup torn) = (d \/ u)
    OBVIOUS
  <2>5. InStepWith(batch, queue[p], raw[p], snapshot, d \/ u)
    BY <2>3, <2>4
  <2>6. d \in BOOLEAN /\ u \in BOOLEAN
    OBVIOUS
  <2>7. /\ r = IF after.synced THEN AfterSnapshot(queue[p]) ELSE queue[p]
        /\ t = IF after.synced THEN after.late /\ HasKeys(queue[p]) ELSE u
    OBVIOUS
  <2> DEFINE q == queue[p]
             x == raw[p]
  <2>8. q \in Seq(Events) /\ x \in SUBSET Buttons
    BY <1>b
  <2>9. /\ InStepWith(batch, q, x, snapshot, d \/ u) /\ Follows(snapshot, x, d, batch, after)
        /\ r = IF after.synced THEN AfterSnapshot(q) ELSE q
        /\ t = IF after.synced THEN after.late /\ HasKeys(q) ELSE u
    BY <1>1, <2>5, <2>7
  <2>10. after \in PadStates
    BY <1>1
  <2> HIDE DEF snapshot, d, u, after, r, t, q, x
  <2> QED BY ONLY <1>b, <1>c, <2>6, <2>8, <2>9, <2>10, InStepApplied
<1>d. r \in Seq(Events)
  BY <1>b, SnapshotSweeps
<1>e. after.raw \in SUBSET Buttons /\ after.dropping \in BOOLEAN /\ after.synced \in BOOLEAN /\ after.late \in BOOLEAN
  BY <1>1 DEF PadStates
<1> HIDE DEF after
<1>4. CASE fd[p] = "Dead" /\ after.synced
  <2>0. close_gamepad(p) /\ DoneWith(p)
    BY <1>2, <1>4
  <2>1. /\ PadsKept'
        /\ fd' \in [Players -> {"None", "Live", "Dead"}] /\ path' \in [Players -> Nodes \cup {0}]
        /\ raw' \in [Players -> SUBSET Buttons] /\ queue' \in [Players -> Seq(Events)]
        /\ dropping' \in SUBSET Players /\ torn' \in SUBSET Players /\ port' = port
    BY <1>0, <1>a, <2>0, PadsClosed
  <2>2. /\ ready' \in SUBSET Players /\ worker' \in {"Head", "Drain"}
        /\ pad_distinct' \in [Players -> SUBSET Buttons] /\ DOMAIN pad_state' = Players
        /\ Published'
    BY <1>0, <1>a, <2>0, <2>1, DoneKeeps
  <2>3. JoypadTypes'
    BY <1>0, <1>a, <2>1, <2>2, NoEvents DEF JoypadTypes
  <2>4. WorkerPhases' /\ NothingHeld'
    BY <1>0, <1>a DEF WorkerPhases, NothingHeld
  <2> QED BY <2>1, <2>2, <2>3, <2>4 DEF JoypadInv
<1>5. CASE ~(fd[p] = "Dead" /\ after.synced)
  <2>1. /\ raw' = [raw EXCEPT ![p] = after.raw]
        /\ dropping' = IF after.dropping THEN dropping \cup {p} ELSE dropping \ {p}
        /\ torn' = IF ~after.synced THEN torn
                   ELSE IF after.late /\ HasKeys(queue[p]) THEN torn \cup {p}
                   ELSE torn \ {p}
        /\ queue' = IF after.synced THEN [queue EXCEPT ![p] = AfterSnapshot(@)] ELSE queue
        /\ UNCHANGED <<fd, path, port, ready, worker, pad_state, pad_distinct>>
    BY <1>2, <1>5 DEF published
  <2>2. raw' \in [Players -> SUBSET Buttons] /\ raw'[p] = after.raw /\ \A q \in Players : q # p => raw'[q] = raw[q]
    BY <1>0, <1>e, <2>1 DEF JoypadTypes
  <2>3. queue' \in [Players -> Seq(Events)] /\ queue'[p] = r /\ \A q \in Players : q # p => queue'[q] = queue[q]
    BY <1>0, <1>d, <2>1 DEF JoypadTypes
  <2>4. /\ dropping' \in SUBSET Players /\ torn' \in SUBSET Players
        /\ (p \in dropping' \cup torn') = (after.dropping \/ t)
        /\ \A q \in Players : q # p => (q \in dropping' \cup torn') = (q \in dropping \cup torn)
    <3>1. dropping' \in SUBSET Players /\ torn' \in SUBSET Players
      BY <1>0, <2>1 DEF JoypadTypes
    <3>2. (p \in dropping') <=> after.dropping
      BY <2>1
    <3>3. (p \in torn') <=> t
      BY <2>1
    <3>4. ASSUME NEW q \in Players, q # p PROVE (q \in dropping' <=> q \in dropping) /\ (q \in torn' <=> q \in torn)
      BY <2>1, <3>4
    <3>5. t \in BOOLEAN
      <4>1. HasKeys(queue[p]) \in BOOLEAN /\ u \in BOOLEAN
        BY DEF HasKeys
      <4> HIDE DEF u
      <4> QED BY <1>e, <4>1
    <3> HIDE DEF t
    <3>6. (p \in dropping' \cup torn') = (after.dropping \/ t)
      BY <1>e, <3>2, <3>3, <3>5
    <3> QED BY <3>1, <3>4, <3>6
  <2>5. JoypadTypes'
    BY <1>0, <1>a, <2>1, <2>2, <2>3, <2>4, NoEvents DEF JoypadTypes
  <2> HIDE DEF r, t
  <2>6. ASSUME NEW q \in Players, fd[q] = "Live"
        PROVE  InStepWith(Mine(q)', queue'[q], raw'[q], pushed[port[q]], q \in dropping' \cup torn')
    <3>0. Mine(q)' = <<>>
      BY <1>0 DEF Mine
    <3>1. CASE q = p
      <4>1. snapshot = pushed[port[p]]
        BY <2>6, <3>1
      <4>2. InStepWith(<<>>, r, after.raw, snapshot, after.dropping \/ t)
        BY <1>3, <2>6, <3>1
      <4> HIDE DEF snapshot
      <4> QED BY <2>2, <2>3, <2>4, <3>0, <3>1, <4>1, <4>2
    <3>2. CASE q # p
      <4>1. Mine(q) = <<>>
        BY <1>0, <3>2 DEF Mine
      <4>2. InStepWith(Mine(q), queue[q], raw[q], pushed[port[q]], q \in dropping \cup torn)
        BY <1>0, <2>6 DEF PadsKept
      <4> QED BY <2>2, <2>3, <2>4, <3>0, <3>2, <4>1, <4>2
    <3> QED BY <3>1, <3>2
  <2>7. \A q \in Players : fd[q] = "None" => raw'[q] = {}
    <3>1. fd[p] # "None"
      BY <1>0 DEF Apply, JoypadInv, WorkerPhases
    <3> QED BY <1>0, <2>2, <3>1 DEF PadsKept
  <2>8. PadsKept'
    BY <1>0, <1>a, <2>1, <2>6, <2>7 DEF PadsKept, OnePadEach
  <2>9. Published' /\ WorkerPhases' /\ NothingHeld'
    BY <1>0, <1>a, <2>1 DEF Published, WorkerPhases, NothingHeld
  <2> QED BY <2>5, <2>8, <2>9 DEF JoypadInv
<1> QED BY <1>4, <1>5

(* Sessions. *)

(* Session::start scans before there is a worker. *)
LEMMA StartSessionKeeps == ASSUME JoypadAssumption, JoypadInv, StartSession PROVE JoypadInv'
<1> USE DEF StartSession, scan_gamepads, worldVars
<1>0. JoypadTypes /\ PadsKept /\ worker = "Ended"
  BY DEF JoypadInv, WorkerPhases
<1>1. batch = <<>> /\ batch' = <<>>
  BY <1>0 DEF JoypadInv, WorkerPhases
<1>2. /\ PadsKept'
      /\ fd' \in [Players -> {"None", "Live", "Dead"}] /\ path' \in [Players -> Nodes \cup {0}]
      /\ port' \in [Players -> Ports \cup {0}]
      /\ raw' \in [Players -> SUBSET Buttons] /\ queue' \in [Players -> Seq(Events)]
      /\ dropping' \in SUBSET Players /\ torn' \in SUBSET Players
  BY <1>0, <1>1, PadsAttached
<1>3. /\ pad_distinct' \in [Players -> SUBSET Buttons] /\ DOMAIN pad_state' = Players
      /\ \A p \in Players : pad_distinct'[p] = raw'[p] /\ pad_state'[p] = PadState(p, raw'[p], keys)
  BY <1>2, PublishTrue
<1>4. keyboard' \in {"None", "Raw"} /\ console' \in {"Cooked", "Raw"}
  BY <1>0 DEF initialize_keyboard, JoypadTypes
<1>5. generation' \in Nat /\ sessions' \in SUBSET (1..generation')
  BY <1>0 DEF JoypadTypes
<1>6. JoypadTypes'
  BY <1>0, <1>2, <1>3, <1>4, <1>5 DEF JoypadTypes
<1>7. Published' /\ WorkerPhases' /\ NothingHeld'
  BY <1>0, <1>1, <1>3 DEF Published, WorkerPhases, NothingHeld, PadState
<1> QED BY <1>2, <1>6, <1>7 DEF JoypadInv

(* Whoever closes the devices leaves nothing held. *)
LEMMA CloseDevices ==
  ASSUME JoypadTypes, PadsKept, close_devices, UNCHANGED node
  PROVE  /\ PadsKept'
         /\ fd' \in [Players -> {"None", "Live", "Dead"}] /\ path' \in [Players -> Nodes \cup {0}]
         /\ port' \in [Players -> Ports \cup {0}]
         /\ raw' \in [Players -> SUBSET Buttons] /\ queue' \in [Players -> Seq(Events)]
         /\ dropping' \in SUBSET Players /\ torn' \in SUBSET Players
         /\ pad_distinct' \in [Players -> SUBSET Buttons] /\ DOMAIN pad_state' = Players
         /\ keys' = {} /\ keyboard' = "None" /\ console' = "Cooked"
         /\ \A p \in Players : fd'[p] = "None" /\ pad_state'[p] = {} /\ pad_distinct'[p] = {}
<1>1. NothingOpen /\ keys' = {} /\ keyboard' = "None" /\ console' = "Cooked"
  BY DEF close_devices
<1>2. gamepad_state({}) = {} /\ keyboard_mask({}) = {}
  BY DEF gamepad_state, keyboard_mask
<1>3. \A p : PadState(p, {}, {}) = {}
  BY <1>2 DEF PadState
<1> DEFINE nobody == [p \in Players |-> {}]
<1>4. nobody \in [Players -> SUBSET Buttons] /\ \A p \in Players : nobody[p] = {}
  OBVIOUS
<1>5. publish_states(nobody, {})
  BY DEF close_devices
<1> HIDE DEF nobody
<1>6. /\ pad_distinct' \in [Players -> SUBSET Buttons] /\ DOMAIN pad_state' = Players
      /\ \A p \in Players : pad_distinct'[p] = {} /\ pad_state'[p] = {}
  BY <1>3, <1>4, <1>5, PublishTrue
<1>7. \A p \in Players : fd'[p] = "None"
  BY <1>1 DEF NothingOpen
<1> QED BY <1>1, <1>6, <1>7, PadsGone

(* Session::start without a worker closes what it has opened. *)
LEMMA StartFailsKeeps == ASSUME JoypadInv, StartFails PROVE JoypadInv'
<1> USE DEF StartFails, worldVars, threadVars
<1>0. JoypadTypes /\ PadsKept /\ worker = "Ended" /\ batch = <<>>
  BY DEF JoypadInv, WorkerPhases
<1>1. /\ PadsKept'
      /\ fd' \in [Players -> {"None", "Live", "Dead"}] /\ path' \in [Players -> Nodes \cup {0}]
      /\ port' \in [Players -> Ports \cup {0}]
      /\ raw' \in [Players -> SUBSET Buttons] /\ queue' \in [Players -> Seq(Events)]
      /\ dropping' \in SUBSET Players /\ torn' \in SUBSET Players
      /\ pad_distinct' \in [Players -> SUBSET Buttons] /\ DOMAIN pad_state' = Players
      /\ keys' = {} /\ keyboard' = "None" /\ console' = "Cooked"
      /\ \A p \in Players : fd'[p] = "None" /\ pad_state'[p] = {} /\ pad_distinct'[p] = {}
  BY <1>0, CloseDevices
<1>2. JoypadTypes'
  BY <1>0, <1>1 DEF JoypadTypes
<1>3. Published' /\ WorkerPhases' /\ NothingHeld'
  BY <1>0, <1>1 DEF Published, WorkerPhases, NothingHeld
<1> QED BY <1>1, <1>2, <1>3 DEF JoypadInv

(* So does shutdown_generation, once the worker has ended. *)
LEMMA JoinWorkerKeeps == ASSUME JoypadInv, JoinWorker PROVE JoypadInv'
<1> USE DEF JoinWorker, worldVars, threadVars
<1>0. JoypadTypes /\ PadsKept /\ worker = "Ended" /\ batch = <<>>
  BY DEF JoypadInv, WorkerPhases
<1>1. /\ PadsKept'
      /\ fd' \in [Players -> {"None", "Live", "Dead"}] /\ path' \in [Players -> Nodes \cup {0}]
      /\ port' \in [Players -> Ports \cup {0}]
      /\ raw' \in [Players -> SUBSET Buttons] /\ queue' \in [Players -> Seq(Events)]
      /\ dropping' \in SUBSET Players /\ torn' \in SUBSET Players
      /\ pad_distinct' \in [Players -> SUBSET Buttons] /\ DOMAIN pad_state' = Players
      /\ keys' = {} /\ keyboard' = "None" /\ console' = "Cooked"
      /\ \A p \in Players : fd'[p] = "None" /\ pad_state'[p] = {} /\ pad_distinct'[p] = {}
  BY <1>0, CloseDevices
<1>2. JoypadTypes'
  BY <1>0, <1>1 DEF JoypadTypes
<1>3. Published' /\ WorkerPhases' /\ NothingHeld'
  BY <1>0, <1>1 DEF Published, WorkerPhases, NothingHeld
<1> QED BY <1>1, <1>2, <1>3 DEF JoypadInv

(* A session that stops only tells the worker. *)
LEMMA StoppingKeeps ==
  ASSUME JoypadInv, Shutdown \/ \E g \in sessions : DropSession(g) PROVE JoypadInv'
<1> USE DEF worldVars, padVars, keyVars, published, threadVars
<1>1. /\ UNCHANGED <<worldVars, padVars, keyVars, published, threadVars, generation, thread>>
      /\ host' \in {host, "Joining"} /\ sessions' \subseteq sessions
  BY DEF Shutdown, DropSession, Stop
<1>2. JoypadTypes'
  BY <1>1 DEF JoypadInv, JoypadTypes
<1>3. PadsKept'
  BY <1>1, PadsUntouched DEF JoypadInv
<1>4. Published' /\ WorkerPhases' /\ NothingHeld'
  BY <1>1 DEF JoypadInv, Published, WorkerPhases, NothingHeld
<1> QED BY <1>2, <1>3, <1>4 DEF JoypadInv

(* The world. *)

(* The timer. *)
LEMMA SecondKeeps == ASSUME JoypadInv, Second PROVE JoypadInv'
<1> USE DEF Second, worldVars, padVars, keyVars, published, sessionVars
<1>2. JoypadTypes'
  BY DEF JoypadInv, JoypadTypes
<1>3. PadsKept'
  BY PadsUntouched DEF JoypadInv
<1>4. Published' /\ WorkerPhases' /\ NothingHeld'
  BY DEF JoypadInv, Published, WorkerPhases, NothingHeld
<1> QED BY <1>2, <1>3, <1>4 DEF JoypadInv

(* A key of the console. *)
LEMMA TypeKeeps == ASSUME JoypadInv, NEW k \in Keys, Type(k) PROVE JoypadInv'
<1> USE DEF Type, worldVars, padVars, keyVars, published, threadVars, sessionVars
<1>2. JoypadTypes'
  BY DEF JoypadInv, JoypadTypes
<1>3. PadsKept'
  BY PadsUntouched DEF JoypadInv
<1>4. Published' /\ WorkerPhases' /\ NothingHeld'
  BY DEF JoypadInv, Published, WorkerPhases, NothingHeld
<1> QED BY <1>2, <1>3, <1>4 DEF JoypadInv

(* A pad that comes takes a node that nobody reads. *)
LEMMA PlugKeeps == ASSUME JoypadAssumption, JoypadInv, NEW c \in Ports, Plug(c) PROVE JoypadInv'
<1> USE DEF padVars, keyVars, published, threadVars, sessionVars
<1>0. JoypadTypes /\ PadsKept /\ UNCHANGED <<limits, pushed, typing, padVars, keyVars, published, threadVars, sessionVars>>
  BY DEF JoypadInv, Plug
<1>1. PICK n \in Nodes : (\A d \in Ports : node[d] # n) /\ node' = [node EXCEPT ![c] = n]
  BY DEF Plug
<1>2. node[c] = 0 /\ n # 0
  BY DEF Plug, JoypadAssumption
<1>3. node' \in [Ports -> Nodes \cup {0}] /\ node'[c] = n /\ \A d \in Ports : d # c => node'[d] = node[d]
  BY <1>0, <1>1 DEF JoypadTypes
<1>4. JoypadTypes'
  BY <1>0, <1>3 DEF JoypadTypes
<1>5. \A d, e \in Ports : (d # e /\ node'[d] # 0) => node'[d] # node'[e]
  BY <1>0, <1>1, <1>2, <1>3 DEF PadsKept
<1>6. \A p \in Players : fd[p] = "Live" => /\ port[p] \in Ports /\ node'[port[p]] # 0 /\ path[p] = node'[port[p]]
                                           /\ port[p] # c
  <2>1. ASSUME NEW p \in Players, fd[p] = "Live"
        PROVE  port[p] \in Ports /\ node[port[p]] # 0 /\ path[p] = node[port[p]]
    BY <1>0, <2>1 DEF PadsKept
  <2>2. ASSUME NEW p \in Players, fd[p] = "Live"
        PROVE  port[p] # c /\ node'[port[p]] = node[port[p]]
    BY <1>2, <1>3, <2>1, <2>2
  <2> QED BY ONLY <2>1, <2>2
<1>7. \A p : Mine(p)' = Mine(p)
  BY <1>0 DEF Mine
<1>8. PadsKept'
  BY <1>0, <1>5, <1>6, <1>7 DEF PadsKept, OnePadEach
<1>9. Published' /\ WorkerPhases' /\ NothingHeld'
  BY <1>0 DEF JoypadInv, Published, WorkerPhases, NothingHeld
<1> QED BY <1>4, <1>8, <1>9 DEF JoypadInv

(* A pad that goes leaves its reader with a device that is dead. *)
LEMMA UnplugKeeps == ASSUME JoypadAssumption, JoypadInv, NEW c \in Ports, Unplug(c) PROVE JoypadInv'
<1> USE DEF keyVars, published, threadVars, sessionVars
<1>0. /\ JoypadTypes /\ PadsKept
      /\ UNCHANGED <<limits, typing, path, port, raw, dropping, torn, keyVars, published, threadVars, sessionVars>>
  BY DEF JoypadInv, Unplug
<1>1. /\ node[c] # 0
      /\ node' = [node EXCEPT ![c] = 0] /\ pushed' = [pushed EXCEPT ![c] = {}]
      /\ fd' = [p \in Players |-> IF Reader(c, p) THEN "Dead" ELSE fd[p]]
      /\ queue' = [p \in Players |-> IF Reader(c, p) THEN <<>> ELSE queue[p]]
  BY DEF Unplug
<1>2. /\ node' \in [Ports -> Nodes \cup {0}] /\ node'[c] = 0 /\ \A d \in Ports : d # c => node'[d] = node[d]
      /\ pushed' \in [Ports -> SUBSET Buttons] /\ \A d \in Ports : d # c => pushed'[d] = pushed[d]
  BY <1>0, <1>1 DEF JoypadTypes
<1>3. /\ fd' \in [Players -> {"None", "Live", "Dead"}] /\ queue' \in [Players -> Seq(Events)]
      /\ \A p \in Players : Reader(c, p) => fd'[p] = "Dead"
      /\ \A p \in Players : ~Reader(c, p) => fd'[p] = fd[p] /\ queue'[p] = queue[p]
  BY <1>0, <1>1, NoEvents DEF JoypadTypes
<1>4. JoypadTypes'
  BY <1>0, <1>2, <1>3 DEF JoypadTypes
<1>5. \A d, e \in Ports : (d # e /\ node'[d] # 0) => node'[d] # node'[e]
  BY <1>0, <1>2 DEF PadsKept
<1>6. \A p : Mine(p)' = Mine(p)
  BY <1>0 DEF Mine
<1>7. ASSUME NEW p \in Players, fd'[p] = "Live"
      PROVE  /\ port[p] \in Ports /\ node'[port[p]] # 0 /\ path[p] = node'[port[p]]
             /\ InStepWith(Mine(p)', queue'[p], raw[p], pushed'[port[p]], p \in dropping \cup torn)
  <2>1. ~Reader(c, p) /\ fd[p] = "Live" /\ queue'[p] = queue[p]
    BY <1>3, <1>7
  <2>2. /\ port[p] \in Ports /\ node[port[p]] # 0 /\ path[p] = node[port[p]]
        /\ InStepWith(Mine(p), queue[p], raw[p], pushed[port[p]], p \in dropping \cup torn)
    BY <1>0, <2>1 DEF PadsKept
  <2>3. port[p] # c
    BY <2>1, <2>2 DEF Reader
  <2> QED BY <1>2, <1>6, <2>1, <2>2, <2>3
<1>8. \A p \in Players : fd'[p] = "None" => raw[p] = {}
  BY <1>0, <1>3 DEF PadsKept
<1>9. \A p, q \in Players : (p # q /\ fd'[p] = "Live" /\ fd'[q] = "Live") => path[p] # path[q]
  BY <1>0, <1>3 DEF PadsKept, OnePadEach
<1>10. PadsKept'
  BY <1>0, <1>5, <1>7, <1>8, <1>9 DEF PadsKept, OnePadEach
<1>11. \A p \in Players : fd[p] # "None" <=> fd'[p] # "None"
  BY <1>3 DEF Reader
<1>12. Published' /\ WorkerPhases' /\ NothingHeld'
  BY <1>0, <1>11 DEF JoypadInv, Published, WorkerPhases, NothingHeld
<1> QED BY <1>4, <1>10, <1>12 DEF JoypadInv

(* A button that moves is queued, or tells of a loss. *)
LEMMA MoveKeeps ==
  ASSUME JoypadAssumption, JoypadInv, NEW c \in Ports, NEW b \in Buttons, Move(c, b) PROVE JoypadInv'
<1> USE DEF keyVars, published, threadVars, sessionVars
<1> DEFINE e == Key(b, IF b \in pushed[c] THEN "Up" ELSE "Down")
<1>0. /\ JoypadTypes /\ PadsKept
      /\ UNCHANGED <<limits, node, typing, fd, path, port, raw, dropping, torn, keyVars, published,
                     threadVars, sessionVars>>
  BY DEF JoypadInv, Move
<1>1. /\ node[c] # 0
      /\ pushed' = [pushed EXCEPT ![c] = Level(@, e)]
      /\ queue' = [p \in Players |-> IF Reader(c, p) THEN Post(queue[p], <<e, Report>>, Capacity) ELSE queue[p]]
  BY DEF Move
<1>2. e \in Events /\ IsKey(e)
  BY EventKinds
<1> HIDE DEF e
<1>3. Level(pushed[c], e) \in SUBSET Buttons
  BY <1>0, <1>2, EventKinds DEF Level, JoypadTypes
<1>4. /\ pushed' \in [Ports -> SUBSET Buttons] /\ pushed'[c] = Level(pushed[c], e)
      /\ \A d \in Ports : d # c => pushed'[d] = pushed[d]
  BY <1>0, <1>1, <1>3 DEF JoypadTypes
<1>5. \A q \in Seq(Events) : Post(q, <<e, Report>>, Capacity) \in Seq(Events)
  BY <1>2, EventKinds DEF Post
<1>6. /\ queue' \in [Players -> Seq(Events)]
      /\ \A p \in Players : Reader(c, p) => queue'[p] = Post(queue[p], <<e, Report>>, Capacity)
      /\ \A p \in Players : ~Reader(c, p) => queue'[p] = queue[p]
  BY <1>0, <1>1, <1>5 DEF JoypadTypes
<1>7. JoypadTypes'
  BY <1>0, <1>4, <1>6 DEF JoypadTypes
<1>8. \A p : Mine(p)' = Mine(p)
  BY <1>0 DEF Mine
<1>9. ASSUME NEW p \in Players, fd[p] = "Live"
      PROVE  InStepWith(Mine(p)', queue'[p], raw[p], pushed'[port[p]], p \in dropping \cup torn)
  <2>1. /\ port[p] \in Ports /\ node[port[p]] # 0 /\ path[p] = node[port[p]]
        /\ InStepWith(Mine(p), queue[p], raw[p], pushed[port[p]], p \in dropping \cup torn)
    BY <1>0, <1>9 DEF PadsKept
  <2>2. CASE port[p] = c
    <3>1. Reader(c, p)
      BY <1>9, <2>1, <2>2 DEF Reader
    <3>2. /\ Mine(p) \in Seq(Events) /\ queue[p] \in Seq(Events) /\ raw[p] \in SUBSET Buttons
          /\ pushed[port[p]] \in SUBSET Buttons
      BY <1>0, <2>1, NoEvents DEF Mine, JoypadTypes
    <3> DEFINE missed == p \in dropping \cup torn
    <3>3. missed \in BOOLEAN
      OBVIOUS
    <3>4. InStepWith(Mine(p), Post(queue[p], <<e, Report>>, Capacity), raw[p], Level(pushed[port[p]], e), missed)
      <4> DEFINE m == Mine(p)
                 q == queue[p]
                 x == raw[p]
                 h == pushed[port[p]]
      <4>1. InStepWith(m, q, x, h, missed)
        BY <2>1
      <4>2. m \in Seq(Events) /\ q \in Seq(Events) /\ x \in SUBSET Buttons /\ h \in SUBSET Buttons
        BY <3>2
      <4> HIDE DEF m, q, x, h, missed
      <4>3. InStepWith(m, Post(q, <<e, Report>>, Capacity), x, Level(h, e), missed)
        BY <1>2, <3>3, <4>1, <4>2, InStepMoved
      <4> QED BY <4>3 DEF m, q, x, h
    <3> QED BY <1>4, <1>6, <1>8, <2>2, <3>1, <3>4
  <2>3. CASE port[p] # c
    <3>1. ~Reader(c, p)
      <4>1. path[p] # node[c]
        BY <1>0, <1>1, <2>1, <2>3 DEF PadsKept
      <4> QED BY <4>1 DEF Reader
    <3> QED BY <1>4, <1>6, <1>8, <2>1, <2>3, <3>1
  <2> QED BY <2>2, <2>3
<1>10. PadsKept'
  BY <1>0, <1>9 DEF PadsKept, OnePadEach
<1>11. Published' /\ WorkerPhases' /\ NothingHeld'
  BY <1>0 DEF JoypadInv, Published, WorkerPhases, NothingHeld
<1> QED BY <1>7, <1>10, <1>11 DEF JoypadInv

(* Nothing happens. *)
LEMMA JoypadStays == ASSUME JoypadInv, UNCHANGED joypadVars PROVE JoypadInv'
<1> USE DEF joypadVars, worldVars, padVars, keyVars, published, threadVars, sessionVars
<1>1. JoypadTypes'
  BY DEF JoypadInv, JoypadTypes
<1>2. PadsKept'
  BY PadsUntouched DEF JoypadInv
<1>3. Published' /\ WorkerPhases' /\ NothingHeld'
  BY DEF JoypadInv, Published, WorkerPhases, NothingHeld
<1> QED BY <1>1, <1>2, <1>3 DEF JoypadInv

(* The steps of the worker thread and of the world. *)
LEMMA InputKeeps == ASSUME JoypadAssumption, JoypadInv, input_thread PROVE JoypadInv'
<1>1. CASE LoopStops
  BY <1>1, LoopStopsKeeps
<1>2. CASE LoopScans
  BY <1>2, LoopScansKeeps
<1>3. CASE LoopPolls
  BY <1>3, LoopPollsKeeps
<1>4. CASE \E p \in Players : Fetch(p)
  BY <1>4, FetchKeeps
<1>5. CASE \E p \in Players : Apply(p)
  BY <1>5, ApplyKeeps
<1> QED BY <1>1, <1>2, <1>3, <1>4, <1>5 DEF input_thread

(* The steps of the world. *)
LEMMA WorldKeeps == ASSUME JoypadAssumption, JoypadInv, World PROVE JoypadInv'
<1>1. /\ limits.ports \subseteq Ports /\ limits.played \subseteq Ports
      /\ limits.buttons \subseteq Buttons /\ limits.keys \subseteq Keys
  BY DEF JoypadInv, JoypadTypes, JoypadAssumption
<1>2. CASE \E c \in limits.ports : Plug(c)
  BY <1>1, <1>2, PlugKeeps
<1>3. CASE \E c \in limits.ports : Unplug(c)
  BY <1>1, <1>3, UnplugKeeps
<1>4. CASE \E c \in limits.played, b \in limits.buttons : Move(c, b)
  BY <1>1, <1>4, MoveKeeps
<1>5. CASE \E k \in limits.keys : Type(k)
  BY <1>1, <1>5, TypeKeeps
<1> QED BY <1>2, <1>3, <1>4, <1>5 DEF World

(* The steps of the host's thread. *)
LEMMA OwnerKeeps == ASSUME JoypadAssumption, JoypadInv, Owner PROVE JoypadInv'
<1>1. CASE StartSession
  BY <1>1, StartSessionKeeps
<1>2. CASE StartFails
  BY <1>2, StartFailsKeeps
<1>3. CASE Shutdown \/ \E g \in sessions : DropSession(g)
  BY <1>3, StoppingKeeps
<1>4. CASE JoinWorker
  BY <1>4, JoinWorkerKeeps
<1> QED BY <1>1, <1>2, <1>3, <1>4 DEF Owner

(* Sessions are the host's thread's, the bounds nobody's. *)
LEMMA NotSessions ==
  ASSUME input_thread \/ World \/ Second PROVE UNCHANGED <<limits, stopping, generation, thread, sessions, host>>
<1> USE DEF worldVars, sessionVars
<1>1. CASE input_thread
  BY <1>1 DEF input_thread, LoopStops, LoopScans, LoopPolls, Fetch, Apply
<1>2. CASE World
  BY <1>2 DEF World, Plug, Unplug, Move, Type
<1>3. CASE Second
  BY <1>3 DEF Second
<1> QED BY <1>1, <1>2, <1>3

(* Nor does that thread touch the bounds. *)
LEMMA SameLimits ==
  ASSUME Owner PROVE UNCHANGED limits
<1> USE DEF worldVars
<1> QED BY DEF Owner, StartSession, StartFails, Shutdown, JoinWorker, DropSession

-----------------------------------------------------------------------------
(* What DOOM's engine is told.                                             *)

(* The sources of events, and the events. *)
Sources == Buttons \cup Keys
KeyNames == {ControllerKey(b) : b \in Buttons} \cup {keyboard_key(k) : k \in Keys}
DoomEvents == [source : Sources, key : KeyNames, pressed : BOOLEAN]

(* The sources that are pressed after the events of s, from those in k. *)
Tells(p, x, e) == After(x, e.source, e.pressed)
T == INSTANCE FoldTheorems WITH op <- Tells
Known(k, s) == T!Fold(0, k, s)

(* What the model folds is what Known is. *)
LEMMA ToldKnown == ASSUME NEW s PROVE Told(s) = Known(told, s)
BY DEF Told, Known, T!Fold, Tells, FoldLeft, T!FoldLeft, MapThenFoldSet, T!MapThenFoldSet, Max, T!Max

(* Nothing, one event more, two runs of events, and the sources that can be pressed. *)
LEMMA KnownFacts ==
  /\ \A k : Known(k, <<>>) = k
  /\ \A k : \A s \in Seq(DoomEvents), e \in DoomEvents :
       Known(k, Append(s, e)) = After(Known(k, s), e.source, e.pressed)
  /\ \A k : \A s, t \in Seq(DoomEvents) : Known(k, s \o t) = Known(Known(k, s), t)
  /\ \A k \in SUBSET Sources : \A s \in Seq(DoomEvents) : Known(k, s) \in SUBSET Sources
<1>1. \A k : Known(k, <<>>) = k
  BY T!FoldEmpty DEF Known
<1>2. ASSUME NEW k, NEW s \in Seq(DoomEvents), NEW e \in DoomEvents
      PROVE  Known(k, Append(s, e)) = After(Known(k, s), e.source, e.pressed)
  BY T!FoldAppend DEF Known, Tells
<1>3. ASSUME NEW k, NEW s \in Seq(DoomEvents), NEW t \in Seq(DoomEvents)
      PROVE  Known(k, s \o t) = Known(Known(k, s), t)
  BY T!FoldConcat DEF Known
<1>4. ASSUME NEW k \in SUBSET Sources, NEW s \in Seq(DoomEvents) PROVE Known(k, s) \in SUBSET Sources
  <2>1. \A x \in SUBSET Sources, e \in DoomEvents : Tells(0, x, e) \in SUBSET Sources
    BY DEF Tells, After, DoomEvents
  <2> QED BY <2>1, T!FoldKeeps DEF Known
<1> QED BY <1>1, <1>2, <1>3, <1>4

(* Each source is pressed and released in turn. *)
InTurn(k, s) == \A i \in 1..Len(s) : s[i].pressed = (s[i].source \notin Known(k, SubSeq(s, 1, i - 1)))

(* One more event is in turn when it tells what the engine does not know. *)
LEMMA InTurnMore ==
  ASSUME NEW k, NEW s \in Seq(DoomEvents), NEW e \in DoomEvents, InTurn(k, s),
         e.pressed = (e.source \notin Known(k, s))
  PROVE  InTurn(k, Append(s, e))
<1> DEFINE t == Append(s, e)
           n == Len(s)
<1>1. /\ n \in Nat /\ Len(t) = n + 1 /\ t[n + 1] = e /\ (\A i \in 1..n : t[i] = s[i])
      /\ t \in Seq(DoomEvents)
  OBVIOUS
<1>2. \A i \in 1..(n + 1) : SubSeq(t, 1, i - 1) = SubSeq(s, 1, i - 1)
  OBVIOUS
<1>3. SubSeq(s, 1, n) = s
  OBVIOUS
<1> HIDE DEF t, n
<1>4. ASSUME NEW i \in 1..(n + 1) PROVE t[i].pressed = (t[i].source \notin Known(k, SubSeq(t, 1, i - 1)))
  <2>1. SubSeq(t, 1, i - 1) = SubSeq(s, 1, i - 1)
    BY <1>2
  <2>2. CASE i \in 1..n
    <3>1. s[i].pressed = (s[i].source \notin Known(k, SubSeq(s, 1, i - 1)))
      BY <2>2 DEF InTurn, n
    <3> QED BY <1>1, <2>1, <2>2, <3>1
  <2>3. CASE i = n + 1
    <3>1. i - 1 = n
      BY <1>1, <2>3
    <3>2. SubSeq(t, 1, i - 1) = s
      BY <1>3, <2>1, <3>1
    <3> QED BY <1>1, <2>3, <3>2
  <2> QED BY <1>1, <2>2, <2>3
<1> QED BY <1>1, <1>4 DEF InTurn, t

(* After the first part has been told, the rest is still in turn. *)
LEMMA InTurnRest ==
  ASSUME NEW k, NEW a \in Seq(DoomEvents), NEW c \in Seq(DoomEvents), InTurn(k, a \o c)
  PROVE  InTurn(Known(k, a), c)
<1> DEFINE s == a \o c
           n == Len(a)
<1>1. n \in Nat /\ Len(s) = n + Len(c) /\ s \in Seq(DoomEvents)
  OBVIOUS
<1>2. ASSUME NEW i \in 1..Len(c)
      PROVE  c[i].pressed = (c[i].source \notin Known(Known(k, a), SubSeq(c, 1, i - 1)))
  <2> DEFINE u == SubSeq(c, 1, i - 1)
  <2>1. u \in Seq(DoomEvents) /\ Len(u) = i - 1 /\ \A j \in 1..(i - 1) : u[j] = c[j]
    OBVIOUS
  <2>2. s[n + i] = c[i] /\ n + i \in 1..Len(s)
    OBVIOUS
  <2>3. SubSeq(s, 1, n + i - 1) = a \o u
    <3> DEFINE v == SubSeq(s, 1, n + i - 1)
               w == a \o u
    <3>1. v \in Seq(DoomEvents) /\ Len(v) = n + i - 1 /\ \A j \in 1..(n + i - 1) : v[j] = s[j]
      BY <1>1
    <3>2. w \in Seq(DoomEvents) /\ Len(w) = n + i - 1
      BY <1>1, <2>1
    <3>3. ASSUME NEW j \in 1..(n + i - 1) PROVE v[j] = w[j]
      <4>1. CASE j <= n
        <5>1. w[j] = a[j]
          BY <4>1, <2>1
        <5>2. s[j] = a[j]
          BY <4>1
        <5> QED BY <5>1, <5>2, <3>1
      <4>2. CASE j > n
        <5>1. j - n \in 1..(i - 1)
          BY <1>1, <4>2
        <5>2. w[j] = u[j - n]
          BY <4>2, <2>1, <1>1
        <5>3. s[j] = c[j - n]
          BY <4>2, <1>1
        <5> QED BY <5>1, <5>2, <5>3, <3>1, <2>1
      <4> QED BY <1>1, <4>1, <4>2
    <3> HIDE DEF v, w
    <3>4. v = w
      BY <3>1, <3>2, <3>3
    <3> QED BY <3>4 DEF v, w
  <2>4. s[n + i].pressed = (s[n + i].source \notin Known(k, SubSeq(s, 1, n + i - 1)))
    BY <2>2 DEF InTurn
  <2>5. Known(k, a \o u) = Known(Known(k, a), u)
    BY <2>1, KnownFacts
  <2> HIDE DEF s, u
  <2> QED BY <2>2, <2>3, <2>4, <2>5 DEF u
<1> QED BY <1>2 DEF InTurn

(* What has been seen of the table of buttons, and what the engine knows then. *)
Seen(f) == {f[i] : i \in 1..Len(f)}
Once(f) == \A i, j \in 1..Len(f) : f[i] = f[j] => i = j
Turned(p, f, rest) == (p[1] \ Seen(f)) \cup (p[2] \cap Seen(f)) \cup rest

(* The next button of the table is reported when it has changed. *)
Transit(p, out, b) ==
  IF (b \in p[1]) = (b \in p[2]) THEN out ELSE Append(out, Event(b, ControllerKey(b), b \in p[2]))
C == INSTANCE FoldTheorems WITH op <- Transit
(* The model folds the table in the same way. *)
LEMMA TransitionsAre ==
  ASSUME NEW previous, NEW current, NEW events
  PROVE  controller_transitions(previous, current, events)
           = C!Fold(<<previous, current>>, events, CONTROLLER_MAP)
BY DEF controller_transitions, C!Fold, Transit, FoldLeft, C!FoldLeft, MapThenFoldSet, C!MapThenFoldSet, Max, C!Max

(* One more button of the table. *)
LEMMA SeenMore ==
  ASSUME NEW f \in Seq(Buttons), NEW b \in Buttons, Once(Append(f, b))
  PROVE  Once(f) /\ b \notin Seen(f) /\ Seen(Append(f, b)) = Seen(f) \cup {b}
<1> DEFINE t == Append(f, b)
           n == Len(f)
<1>1. n \in Nat /\ Len(t) = n + 1 /\ t[n + 1] = b /\ (\A i \in 1..n : t[i] = f[i])
  OBVIOUS
<1>2. Once(t)
  OBVIOUS
<1> HIDE DEF t, n
<1>3. 1..(n + 1) = (1..n) \cup {n + 1} /\ n + 1 \notin 1..n
  BY <1>1
<1>4. Seen(t) = {t[i] : i \in 1..(n + 1)} /\ Seen(f) = {f[i] : i \in 1..n}
  BY <1>1 DEF Seen, n
<1>5. \A x : x \in Seen(t) <=> x \in Seen(f) \/ x = b
  BY <1>1, <1>3, <1>4
<1>6. b \notin Seen(f)
  <2>1. SUFFICES ASSUME NEW i \in 1..n, f[i] = b PROVE FALSE
    BY <1>4
  <2>2. t[i] = t[n + 1] /\ i \in 1..Len(t) /\ n + 1 \in 1..Len(t)
    BY <1>1, <1>3, <2>1
  <2> QED BY <1>2, <1>3, <2>2 DEF Once
<1>7. Once(f)
  <2>1. ASSUME NEW i \in 1..n, NEW j \in 1..n, f[i] = f[j] PROVE i = j
    BY <1>1, <1>2, <1>3, <2>1 DEF Once
  <2> QED BY <2>1 DEF Once, n
<1> QED BY <1>5, <1>6, <1>7 DEF t

(* Such events lead from what the engine knows to what the mapper has seen, of the controllers and of the
   keys. *)
Leads(k, s, seen, others) == InTurn(k, s) /\ Known(k, s) = seen \cup others

(* Mapper::poll reports exactly the buttons that have changed, each in turn. *)
LEMMA TransitionsTold ==
  ASSUME NEW previous \in SUBSET Buttons, NEW current \in SUBSET Buttons, NEW m, \A b \in Buttons : b \notin m,
         NEW k, NEW events \in Seq(DoomEvents), Leads(k, events, previous, m), DoomAssumption,
         NEW r, r = controller_transitions(previous, current, events)
  PROVE  r \in Seq(DoomEvents) /\ Leads(k, r, current, m)
<1> DEFINE p == <<previous, current>>
           Good(f, out) == Once(f) => /\ InTurn(k, out)
                                      /\ Known(k, out) = Turned(p, f, m)
           R == {x \in Seq(Buttons) \X Seq(DoomEvents) : Good(x[1], x[2])}
<1>1. << <<>>, events >> \in R
  <2>1. Seen(<<>>) = {}
    BY DEF Seen
  <2>2. InTurn(k, events) /\ Known(k, events) = previous \cup m
    BY DEF Leads
  <2>4. Turned(p, <<>>, m) = previous \cup m
    BY <2>1 DEF Turned
  <2>3. Good(<<>>, events) /\ <<>> \in Seq(Buttons)
    <3> HIDE DEF p
    <3> QED BY <2>2, <2>4
  <2> HIDE DEF Good
  <2> QED BY <2>3
<1>2. ASSUME NEW f \in Seq(Buttons), NEW b \in Buttons, NEW out, <<f, out>> \in R
      PROVE  <<Append(f, b), Transit(p, out, b)>> \in R
  <2> DEFINE longer == Transit(p, out, b)
             e == Event(b, ControllerKey(b), b \in current)
             g == Append(f, b)
  <2>1. out \in Seq(DoomEvents) /\ g \in Seq(Buttons) /\ Good(f, out)
    BY <1>2
  <2>2. e \in DoomEvents /\ e.source = b /\ e.pressed = (b \in current)
    BY DEF DoomEvents, Event, Sources, KeyNames
  <2>3. longer = IF (b \in previous) = (b \in current) THEN out ELSE Append(out, e)
    BY DEF Transit
  <2>4. longer \in Seq(DoomEvents)
    <3> HIDE DEF e, longer
    <3> QED BY <2>1, <2>2, <2>3
  <2>5. ASSUME Once(g) PROVE InTurn(k, longer) /\ Known(k, longer) = Turned(p, g, m)
    <3>1. Once(f) /\ b \notin Seen(f) /\ Seen(g) = Seen(f) \cup {b}
      BY <2>5, SeenMore
    <3>2. InTurn(k, out) /\ Known(k, out) = Turned(p, f, m)
      BY <2>1, <3>1
    <3>3. p[1] = previous /\ p[2] = current /\ b \notin m
      OBVIOUS
    <3>4. b \in Turned(p, f, m) <=> b \in previous
      BY <3>1, <3>3 DEF Turned
    <3>5. \A x : x # b => (x \in Turned(p, g, m) <=> x \in Turned(p, f, m))
      BY <3>1 DEF Turned
    <3>6. b \in Turned(p, g, m) <=> b \in current
      BY <3>1, <3>3 DEF Turned
    <3> HIDE DEF p, e, g, longer
    <3>7. CASE (b \in previous) = (b \in current)
      <4>1. \A x : x \in Turned(p, g, m) <=> x \in Turned(p, f, m)
        BY <3>4, <3>5, <3>6, <3>7
      <4>2. Turned(p, g, m) = Turned(p, f, m)
        BY <4>1
      <4> QED BY <2>3, <3>2, <3>7, <4>2
    <3>8. CASE ~((b \in previous) = (b \in current))
      <4>1. longer = Append(out, e)
        BY <2>3, <3>8
      <4>2. e.pressed = (e.source \notin Known(k, out))
        BY <2>2, <3>2, <3>4, <3>8
      <4>3. InTurn(k, longer)
        BY <2>1, <2>2, <3>2, <4>1, <4>2, InTurnMore
      <4>4. Known(k, longer) = After(Turned(p, f, m), b, b \in current)
        BY <2>1, <2>2, <3>2, <4>1, KnownFacts
      <4>5. \A x : x \in After(Turned(p, f, m), b, b \in current) <=> x \in Turned(p, g, m)
        BY <3>5, <3>6 DEF After
      <4>6. After(Turned(p, f, m), b, b \in current) = Turned(p, g, m)
        BY <4>5
      <4> QED BY <4>3, <4>4, <4>6
    <3> QED BY <3>7, <3>8
  <2> HIDE DEF longer, g
  <2>6. <<g, longer>> \in R
    BY <2>1, <2>4, <2>5
  <2> QED BY <2>6 DEF g, longer
<1>3. CONTROLLER_MAP \in Seq(Buttons) /\ Once(CONTROLLER_MAP) /\ Seen(CONTROLLER_MAP) = Buttons
  <2>1. CONTROLLER_MAP \in Seq(Buttons) /\ DOMAIN CONTROLLER_MAP = 1..Len(CONTROLLER_MAP)
    BY DEF DoomAssumption
  <2>2. Once(CONTROLLER_MAP)
    BY <2>1 DEF Once, DoomAssumption
  <2>3. \A b \in Buttons : b \in Seen(CONTROLLER_MAP)
    BY <2>1 DEF Seen, DoomAssumption
  <2>4. \A b \in Seen(CONTROLLER_MAP) : b \in Buttons
    BY <2>1 DEF Seen
  <2> QED BY <2>1, <2>2, <2>3, <2>4
<1> DEFINE res == C!Fold(p, events, CONTROLLER_MAP)
<1> HIDE DEF R
<1>4. \A s \in Seq(Buttons) : <<s, C!Fold(p, events, s)>> \in R
  BY <1>1, <1>2, C!FoldInduction
<1>5. <<CONTROLLER_MAP, res>> \in R
  BY <1>3, <1>4
<1> HIDE DEF res
<1>6. res \in Seq(DoomEvents) /\ InTurn(k, res) /\ Known(k, res) = Turned(p, CONTROLLER_MAP, m)
  BY <1>3, <1>5 DEF R
<1>7. Turned(p, CONTROLLER_MAP, m) = current \cup m
  BY <1>3 DEF Turned
<1> QED BY <1>6, <1>7, TransitionsAre DEF res, Leads

-----------------------------------------------------------------------------
(* The invariant of the DOOM host.                                         *)

(* The types of the variables of the runs, and of those that they leave out. *)
DoomTypes ==
  /\ DoomTypeOK
  /\ left \in Nat /\ pending \in Seq(DoomEvents) /\ told \in SUBSET Sources
  /\ controllers \in SUBSET Buttons /\ mapped \in SUBSET Keys

(* Outside DOOM nothing starts; a host without a session, or one that is past its release, has no input
   thread. *)
DoomPhases ==
  /\ ~InDoom => doom = "Off"
  /\ (InDoom /\ doom = "Off") => thread = "None"
  /\ (doom = "Open" /\ sessions = {}) => thread = "None"
  /\ doom \in {"Audio", "Ended"} => thread = "None"

(* So does what is queued for it. *)
Queued == Leads(told, pending, controllers, mapped)

(* The invariant. *)
DoomInv == JoypadInv /\ DoomTypes /\ DoomPhases /\ Queued

(* It contains what the run checks. *)
LEMMA DoomInvTrue == ASSUME DoomInv PROVE InputSafe
<1>1. JoypadTypeOK /\ SamplesTrue /\ OnePadEach /\ NothingHeld
  BY JoypadInvTrue DEF DoomInv
<1>2. ReleaseFollows
  <2>1. Told(pending) = controllers \cup mapped
    BY ToldKnown DEF DoomInv, Queued, Leads
  <2>2. ASSUME NEW i \in 1..Len(pending)
        PROVE  pending[i].pressed = (pending[i].source \notin Told(SubSeq(pending, 1, i - 1)))
    BY ToldKnown DEF DoomInv, Queued, Leads, InTurn
  <2> QED BY <2>1, <2>2 DEF ReleaseFollows
<1>3. ConsoleRestored
  BY DEF DoomInv, DoomPhases, JoypadInv, NothingHeld, ConsoleRestored
<1> QED BY <1>1, <1>2, <1>3 DEF InputSafe, DoomInv, DoomTypes

(* It holds before the host starts. *)
LEMMA DoomInitInv == ASSUME JoypadAssumption, DoomInit PROVE DoomInv
<1> USE DEF DoomInit
<1>1. JoypadInv
  BY JoypadInitInv
<1>2. DoomTypes
  <2>1. doom = "Off" /\ behind \in 0..10 /\ audio = "None"
    BY DEF DoomInit
  <2>2. <<>> \in Seq(DoomEvents) /\ {} \in SUBSET Sources
    OBVIOUS
  <2> QED BY <2>1, <2>2 DEF DoomTypes, DoomTypeOK
<1>3. DoomPhases
  BY DEF JoypadInit, DoomPhases
<1>4. Queued
  BY KnownFacts DEF Queued, Leads, InTurn
<1> QED BY <1>1, <1>2, <1>3, <1>4 DEF DoomInv

-----------------------------------------------------------------------------
(* The steps keep it.                                                      *)

(* The buttons that have changed are reported, each in turn. *)
LEMMA PollControllersKeeps ==
  ASSUME JoypadAssumption, DoomAssumption, DoomInv, PollControllers, UNCHANGED joypadVars PROVE DoomInv'
<1>0. /\ UNCHANGED <<mapped, told, down, quit, doom_skip, behind, exit_asked, view, audio>>
      /\ controllers' = Merged /\ pending' = controller_transitions(controllers, Merged, pending)
      /\ doom = "Tic" /\ doom' = "Keys" /\ left' = 0
  BY DEF PollControllers, frameVars, aroundVars, Remember
<1>1. JoypadInv' /\ UNCHANGED <<limits, thread, sessions>>
  BY JoypadStays DEF DoomInv, joypadVars, worldVars, sessionVars
<1>2. Merged \in SUBSET Buttons
  BY DEF DoomInv, JoypadInv, JoypadTypes, JoypadAssumption, Merged
<1>3. controllers \in SUBSET Buttons /\ mapped \in SUBSET Keys /\ pending \in Seq(DoomEvents)
  BY DEF DoomInv, DoomTypes
<1>4. \A b \in Buttons : b \notin mapped
  BY <1>3 DEF DoomAssumption
<1>5. pending' \in Seq(DoomEvents) /\ Leads(told, pending', Merged, mapped)
  <2> DEFINE r == controller_transitions(controllers, Merged, pending)
             now == Merged
  <2>1. Leads(told, pending, controllers, mapped)
    BY DEF DoomInv, Queued
  <2>2. now \in SUBSET Buttons /\ r = controller_transitions(controllers, now, pending)
    BY <1>2
  <2> HIDE DEF r, now
  <2>3. r \in Seq(DoomEvents) /\ Leads(told, r, now, mapped)
    BY <1>3, <1>4, <2>1, <2>2, TransitionsTold
  <2> QED BY <1>0, <2>3 DEF r, now
<1>7. Queued'
  BY <1>0, <1>5 DEF Queued
<1>8. DoomTypes'
  BY <1>0, <1>2, <1>5 DEF DoomInv, DoomTypes, DoomTypeOK
<1>9. DoomPhases'
  BY <1>0, <1>1 DEF DoomInv, DoomPhases, InDoom
<1> QED BY <1>1, <1>7, <1>8, <1>9 DEF DoomInv

(* One event more, as a rule of its own. *)
LEMMA KnownMore ==
  ASSUME NEW k, NEW s \in Seq(DoomEvents), NEW e \in DoomEvents
  PROVE  Known(k, Append(s, e)) = After(Known(k, s), e.source, e.pressed)
BY KnownFacts

(* A key of the keyboard that has changed is reported in turn. *)
LEMMA PollKeyKeeps ==
  ASSUME JoypadAssumption, DoomAssumption, DoomInv, PollKey, UNCHANGED joypadVars PROVE DoomInv'
<1> USE DEF PollKey, frameVars, aroundVars
<1>1. JoypadInv' /\ UNCHANGED <<limits, thread, sessions>>
  BY JoypadStays DEF DoomInv, joypadVars, worldVars, sessionVars
<1> DEFINE key == keyboard_codes[left']
           e == Event(key, keyboard_key(key), key \in keys)
<1>2. key \in Keys /\ key \notin Buttons /\ left' \in Nat
  BY DEF DoomInv, DoomTypes, DoomAssumption
<1>3. /\ controllers \in SUBSET Buttons /\ mapped \in SUBSET Keys /\ pending \in Seq(DoomEvents)
      /\ InTurn(told, pending) /\ Known(told, pending) = controllers \cup mapped
  BY DEF DoomInv, DoomTypes, Queued, Leads
<1>4. e \in DoomEvents /\ e.source = key /\ e.pressed = (key \in keys)
  BY <1>2 DEF DoomEvents, Event, Sources, KeyNames
<1>5. \/ UNCHANGED <<mapped, pending>>
      \/ /\ ~((key \in keys) = (key \in mapped))
         /\ mapped' = (IF key \in keys THEN mapped \cup {key} ELSE mapped \ {key})
         /\ pending' = Append(pending, e)
  OBVIOUS
<1>6. UNCHANGED <<controllers, told, doom, quit, doom_skip, behind, exit_asked, view, audio>>
  OBVIOUS
<1> HIDE DEF key, e, PollKey
<1>7. /\ mapped' \in SUBSET Keys /\ pending' \in Seq(DoomEvents)
      /\ InTurn(told, pending') /\ Known(told, pending') = controllers \cup mapped'
  <2>1. CASE UNCHANGED <<mapped, pending>>
    BY <1>3, <2>1
  <2>2. CASE ~UNCHANGED <<mapped, pending>>
    <3>1. key \in (controllers \cup mapped) <=> key \in mapped
      BY <1>2, <1>3
    <3>2. e.pressed = (e.source \notin Known(told, pending))
      BY <1>3, <1>4, <1>5, <2>2, <3>1
    <3>3. InTurn(told, Append(pending, e))
      BY <1>3, <1>4, <3>2, InTurnMore
    <3>4. Known(told, Append(pending, e)) = After(controllers \cup mapped, key, key \in keys)
      <4>1. Known(told, Append(pending, e)) = After(Known(told, pending), e.source, e.pressed)
        BY ONLY <1>3, <1>4, KnownMore
      <4> QED BY <1>3, <1>4, <4>1
    <3>5. After(controllers \cup mapped, key, key \in keys) = controllers \cup mapped'
      BY <1>2, <1>3, <1>5, <2>2 DEF After
    <3>6. mapped' \in SUBSET Keys
      BY <1>2, <1>3, <1>5, <2>2
    <3>7. pending' = Append(pending, e)
      BY <1>5, <2>2
    <3>8. Append(pending, e) \in Seq(DoomEvents)
      BY <1>3, <1>4
    <3> QED BY <3>3, <3>4, <3>5, <3>6, <3>7, <3>8
  <2> QED BY <2>1, <2>2
<1>8. Queued'
  BY <1>6, <1>7 DEF Queued, Leads
<1>9. DoomTypes'
  BY <1>2, <1>6, <1>7 DEF DoomInv, DoomTypes, DoomTypeOK
<1>10. DoomPhases'
  BY <1>1, <1>6 DEF DoomInv, DoomPhases, InDoom
<1> QED BY <1>1, <1>8, <1>9, <1>10 DEF DoomInv

(* What is drained is at most what there is. *)
LEMMA MinBelow == ASSUME NEW a \in Nat, NEW b \in Nat PROVE Min({a, b}) \in 0..a
<1>1. \E x \in {a, b} : \A y \in {a, b} : x <= y
  OBVIOUS
<1> QED BY <1>1 DEF Min

(* What is drained is what the engine then knows. *)
LEMMA StartTicKeeps ==
  ASSUME JoypadAssumption, DoomAssumption, DoomInv, StartTic, UNCHANGED joypadVars PROVE DoomInv'
<1> USE DEF StartTic, frameVars, aroundVars
<1>1. JoypadInv' /\ UNCHANGED <<limits, thread, sessions>>
  BY JoypadStays DEF DoomInv, joypadVars, worldVars, sessionVars
<1> DEFINE count == Min({Len(pending), MAX_EVENTS_PER_TIC})
           a == SubSeq(pending, 1, count)
           c == SubSeq(pending, count + 1, Len(pending))
<1>2. /\ controllers \in SUBSET Buttons /\ mapped \in SUBSET Keys /\ pending \in Seq(DoomEvents)
      /\ InTurn(told, pending) /\ Known(told, pending) = controllers \cup mapped /\ told \in SUBSET Sources
  BY DEF DoomInv, DoomTypes, Queued, Leads
<1>3. count \in 0..Len(pending)
  <2> DEFINE n == Len(pending)
  <2>1. n \in Nat /\ MAX_EVENTS_PER_TIC \in Nat
    <3>1. n \in Nat
      BY ONLY <1>2
    <3>2. MAX_EVENTS_PER_TIC \in Nat
      BY DEF DoomAssumption
    <3> QED BY <3>1, <3>2
  <2> HIDE DEF n
  <2>2. Min({n, MAX_EVENTS_PER_TIC}) \in 0..n
    BY <2>1, MinBelow
  <2> QED BY <2>2 DEF n
<1>4. told' = Told(a) /\ pending' = c
  BY DEF Drain
<1>5. /\ UNCHANGED <<controllers, mapped, left, quit, doom_skip, behind, exit_asked, view, audio>>
      /\ doom = "Keys" /\ doom' \in {"Quit", "Dormant", "Tic", "Draw"}
  BY DEF retrodeck_doom_quit_requested
<1> HIDE DEF count, StartTic
<1>6. a \in Seq(DoomEvents) /\ c \in Seq(DoomEvents) /\ pending = a \o c
  BY <1>2, <1>3, Divided
<1> HIDE DEF a, c
<1>7. told' = Known(told, a)
  BY <1>4, ToldKnown
<1>8. told' \in SUBSET Sources
  BY <1>2, <1>6, <1>7, KnownFacts
<1>9. InTurn(Known(told, a), c)
  BY <1>2, <1>6, InTurnRest
<1>10. Known(Known(told, a), c) = controllers \cup mapped
  BY <1>2, <1>6, KnownFacts
<1>11. Queued'
  BY <1>4, <1>5, <1>7, <1>9, <1>10 DEF Queued, Leads
<1>12. DoomTypes'
  BY <1>4, <1>5, <1>6, <1>8 DEF DoomInv, DoomTypes, DoomTypeOK
<1>13. DoomPhases'
  BY <1>1, <1>5 DEF DoomInv, DoomPhases, InDoom
<1> QED BY <1>1, <1>11, <1>12, <1>13 DEF DoomInv

(* The frame clock stays within its bound. *)
LEMMA ClockBounded == ASSUME NEW time \in Nat, behind \in 0..10 PROVE wait_for_next_frame(time) \in 0..10
BY DEF wait_for_next_frame

(* Steps that leave the events alone. *)
LEMMA EventsStay ==
  ASSUME DoomInv, JoypadInv', UNCHANGED <<limits, inputVars>>, DoomTypeOK', DoomPhases' PROVE DoomInv'
<1>1. UNCHANGED <<controllers, mapped, left, pending, told, down>>
  BY DEF inputVars
<1>2. Queued'
  BY <1>1 DEF DoomInv, Queued
<1>3. DoomTypes'
  BY <1>1 DEF DoomInv, DoomTypes
<1> QED BY <1>2, <1>3 DEF DoomInv

(* A hidden widget keeps the thread and lets it go. *)
LEMMA WakeKeeps ==
  ASSUME DoomInv, WakeDoom, UNCHANGED joypadVars PROVE DoomInv'
<1>1. JoypadInv' /\ UNCHANGED <<limits, thread, sessions>>
  BY JoypadStays DEF DoomInv, joypadVars, worldVars, sessionVars
<1>2. /\ UNCHANGED <<inputVars, controllers, mapped, quit, doom_skip, behind, exit_asked, view, audio>>
      /\ doom = "Dormant" /\ doom' \in {"Quit", "Dormant", "Tic", "Draw"}
  BY DEF WakeDoom, retrodeck_doom_quit_requested, inputVars, frameVars, aroundVars
<1>3. DoomTypeOK'
  BY <1>2 DEF DoomInv, DoomTypes, DoomTypeOK
<1>4. DoomPhases'
  BY <1>1, <1>2 DEF DoomInv, DoomPhases, InDoom
<1> QED BY <1>1, <1>2, <1>3, <1>4, EventsStay

(* A frame is presented, or shed. *)
LEMMA DrawKeeps ==
  ASSUME JoypadAssumption, DoomAssumption, DoomInv, Draw, UNCHANGED joypadVars PROVE DoomInv'
<1> USE DEF Draw
<1>1. JoypadInv' /\ UNCHANGED <<limits, thread, sessions>>
  BY JoypadStays DEF DoomInv, joypadVars, worldVars, sessionVars
<1>2. UNCHANGED <<inputVars, controllers, mapped, exit_asked, audio>> /\ doom = "Draw" /\ doom' = "Tic"
  BY DEF inputVars
<1>3. quit' \in BOOLEAN /\ doom_skip' \in BOOLEAN /\ behind' \in 0..10 /\ view' \in {view, "Shown", "Hidden"}
  <2>1. quit \in BOOLEAN /\ doom_skip \in BOOLEAN /\ behind \in 0..10
    BY DEF DoomInv, DoomTypes, DoomTypeOK
  <2>2. CASE quit' = TRUE /\ UNCHANGED <<doom_skip, behind, view>>
    BY <2>1, <2>2
  <2>3. CASE /\ \E time \in Times : behind' = wait_for_next_frame(time)
             /\ doom_skip' = Shed(doom_skip) /\ UNCHANGED quit
             /\ view' \in {view, "Shown", "Hidden"}
    <3>1. Times \subseteq Nat
      BY DEF Times, DoomAssumption
    <3>2. behind' \in 0..10
      BY <2>1, <2>3, <3>1, ClockBounded
    <3>3. doom_skip' \in BOOLEAN
      <4>1. late' \in BOOLEAN
        BY <3>2 DEF late
      <4> QED BY <2>3, <4>1 DEF Shed
    <3> QED BY <2>1, <2>3, <3>2, <3>3
  <2> QED BY <2>2, <2>3
<1>4. DoomTypeOK'
  BY <1>2, <1>3 DEF DoomInv, DoomTypes, DoomTypeOK
<1>5. DoomPhases'
  BY <1>1, <1>2 DEF DoomInv, DoomPhases, InDoom
<1> QED BY <1>1, <1>2, <1>4, <1>5, EventsStay

(* The host before and after the engine. *)
LEMMA HostKeeps ==
  ASSUME JoypadAssumption, DoomAssumption, DoomInv, InDoom, run_host PROVE DoomInv'
<1> USE DEF frameVars, aroundVars
<1>0. DoomTypeOK /\ JoypadInv /\ DoomPhases
  BY DEF DoomInv, DoomTypes
<1>1. CASE RefuseWad
  <2>1. JoypadInv' /\ UNCHANGED <<limits, thread, sessions>>
    BY <1>0, <1>1, JoypadStays DEF RefuseWad, joypadVars, worldVars, sessionVars
  <2>2. DoomTypeOK' /\ DoomPhases'
    BY <1>0, <1>1, <2>1 DEF RefuseWad, DoomTypeOK, DoomPhases, InDoom, inputVars
  <2> QED BY <1>1, <2>1, <2>2, EventsStay DEF RefuseWad
<1>2. CASE Begin
  <2>1. JoypadInv'
    BY <1>0, <1>2, OwnerKeeps DEF Begin, Owner
  <2>2. UNCHANGED limits /\ (sessions' # {} \/ UNCHANGED thread)
    BY <1>2 DEF Begin, StartSession, StartFails, worldVars
  <2>3. DoomTypeOK' /\ DoomPhases'
    BY <1>0, <1>2, <2>2 DEF Begin, DoomTypeOK, DoomPhases, InDoom, inputVars
  <2> QED BY <1>2, <2>1, <2>2, <2>3, EventsStay DEF Begin
<1>3. CASE OpenFails
  <2>1. JoypadInv' /\ UNCHANGED limits
    <3>1. CASE UNCHANGED joypadVars
      BY <1>0, <3>1, JoypadStays DEF joypadVars, worldVars
    <3>2. CASE DropSession(generation)
      <4>1. generation \in sessions
        BY <3>2 DEF DropSession
      <4> QED BY <1>0, <3>2, <4>1, OwnerKeeps, SameLimits DEF Owner
    <3> QED BY <1>3, <3>1, <3>2 DEF OpenFails
  <2>2. sessions = {} => UNCHANGED thread
    BY <1>3 DEF OpenFails, joypadVars, sessionVars
  <2>3. DoomTypeOK' /\ DoomPhases'
    BY <1>0, <1>3, <2>1, <2>2 DEF OpenFails, DoomTypeOK, DoomPhases, InDoom, inputVars
  <2> QED BY <1>3, <2>1, <2>3, EventsStay DEF OpenFails
<1>4. CASE OpenVideo
  <2>1. JoypadInv' /\ UNCHANGED <<limits, thread, sessions>>
    BY <1>0, <1>4, JoypadStays DEF OpenVideo, joypadVars, worldVars, sessionVars
  <2>2. DoomTypeOK' /\ DoomPhases'
    BY <1>0, <1>4, <2>1 DEF OpenVideo, Pictures, DoomTypeOK, DoomPhases, InDoom, inputVars
  <2> QED BY <1>4, <2>1, <2>2, EventsStay DEF OpenVideo
<1>5. CASE LeaveDoom
  <2>1. JoypadInv' /\ UNCHANGED limits
    BY <1>0, <1>5, OwnerKeeps, SameLimits DEF LeaveDoom, Owner
  <2>2. DoomTypeOK' /\ DoomPhases'
    BY <1>0, <1>5, <2>1 DEF LeaveDoom, DoomTypeOK, DoomPhases, InDoom, inputVars
  <2> QED BY <1>5, <2>1, <2>2, EventsStay DEF LeaveDoom
<1>6. CASE Release
  <2>1. JoypadInv' /\ UNCHANGED limits /\ thread' = "None"
    BY <1>0, <1>6, OwnerKeeps, SameLimits DEF Release, Owner, JoinWorker
  <2>2. DoomTypeOK' /\ DoomPhases'
    BY <1>0, <1>6, <2>1 DEF Release, DoomTypeOK, DoomPhases, InDoom, inputVars
  <2> QED BY <1>6, <2>1, <2>2, EventsStay DEF Release
<1>7. CASE CloseAudio
  <2>1. JoypadInv' /\ UNCHANGED <<limits, thread, sessions>>
    BY <1>0, <1>7, JoypadStays DEF CloseAudio, joypadVars, worldVars, sessionVars
  <2>2. DoomTypeOK' /\ DoomPhases'
    BY <1>0, <1>7, <2>1 DEF CloseAudio, DoomTypeOK, DoomPhases, InDoom, inputVars
  <2> QED BY <1>7, <2>1, <2>2, EventsStay DEF CloseAudio
<1> QED BY <1>1, <1>2, <1>3, <1>4, <1>5, <1>6, <1>7 DEF run_host

(* Every step of the host. *)
LEMMA DoomStep ==
  ASSUME JoypadAssumption, DoomAssumption, DoomInv, [DoomNext]_allVars PROVE DoomInv'
<1> USE DEF doomVars, frameVars, aroundVars
<1>0. DoomTypeOK /\ JoypadInv /\ DoomPhases
  BY DEF DoomInv, DoomTypes
<1>1. CASE DoomThread
  BY <1>1, PollControllersKeeps, PollKeyKeeps, StartTicKeeps, WakeKeeps, DrawKeeps, HostKeeps DEF DoomThread, Engine
<1>2. ASSUME JoypadInv', UNCHANGED <<limits, inputVars, frameVars, audio, doom>>, exit_asked' \in BOOLEAN,
             view' \in {view, "Shown", "Hidden", "Lost"}, UNCHANGED <<thread, sessions>> \/ ~InDoom
      PROVE  DoomInv'
  <2>1. DoomTypeOK'
    BY <1>0, <1>2 DEF DoomTypeOK, inputVars
  <2>2. DoomPhases'
    BY <1>0, <1>2 DEF DoomPhases, InDoom
  <2> QED BY <1>2, <2>1, <2>2, EventsStay
<1>3. exit_asked \in BOOLEAN
  BY <1>0 DEF DoomTypeOK
<1>4. CASE AskDoom
  <2>1. JoypadInv' /\ UNCHANGED <<limits, thread, sessions>>
    BY <1>0, <1>4, JoypadStays DEF AskDoom, joypadVars, worldVars, sessionVars
  <2> QED BY <1>2, <1>4, <2>1 DEF AskDoom
<1>10. CASE DoomCompositor
  <2>1. JoypadInv' /\ UNCHANGED <<limits, thread, sessions>>
    BY <1>0, <1>10, JoypadStays DEF DoomCompositor, joypadVars, worldVars, sessionVars
  <2> QED BY <1>2, <1>3, <1>10, <2>1 DEF DoomCompositor
<1>5. CASE Input
  BY <1>0, <1>2, <1>3, <1>5, InputKeeps, NotSessions DEF Input
<1>6. CASE Tick
  BY <1>0, <1>2, <1>3, <1>6, SecondKeeps, NotSessions DEF Tick
<1>7. CASE DevicesMove
  BY <1>0, <1>2, <1>3, <1>7, WorldKeeps, NotSessions DEF DevicesMove
<1>8. CASE Core
  BY <1>0, <1>2, <1>3, <1>8, OwnerKeeps, SameLimits DEF Core
<1>9. CASE UNCHANGED allVars
  <2>1. JoypadInv' /\ UNCHANGED <<limits, thread, sessions>>
    BY <1>0, <1>9, JoypadStays DEF allVars, joypadVars, worldVars, sessionVars
  <2> QED BY <1>2, <1>3, <1>9, <2>1 DEF allVars
<1> QED BY <1>1, <1>4, <1>5, <1>6, <1>7, <1>8, <1>9, <1>10 DEF DoomNext

(* What DOOM's engine and the cores are told is true, and everything is given back: InputSafe holds in
   every state, for every number of pads, ports, keys and sessions, every size of the kernel's queue and of
   the engine's buffer. *)
THEOREM DoomInputSafe == DoomSpec => []InputSafe
<1>1. DoomInit => DoomInv
  BY JoypadAssumption, DoomInitInv
<1>2. DoomInv /\ [DoomNext]_allVars => DoomInv'
  BY JoypadAssumption, DoomAssumption, DoomStep
<1>3. DoomInv => InputSafe
  BY DoomInvTrue
<1> QED BY <1>1, <1>2, <1>3, PTL DEF DoomSpec

-----------------------------------------------------------------------------
(* No step takes input from whom it belongs to.                            *)

(* A scan gives a remembered port back to the first player who waits for it. *)
LEMMA ScanKeepsSeats ==
  ASSUME JoypadAssumption, JoypadTypes, Attach(Seating) PROVE SeatKept
<1>1. Players = 1..2 /\ Ports \subseteq Nat /\ 0 \notin Ports /\ IsFiniteSet(Ports)
  BY DEF JoypadAssumption
<1>2. /\ Seats(Seating, Vacant, Candidates)
      /\ \A r \in DOMAIN Returning : r \in DOMAIN Seating /\ Seating[r] = Returning[r]
  BY <1>1, SeatingSeats
<1> DEFINE s == Seating
           one == Returning
<1>3. ASSUME NEW p \in Players, NEW q \in Players,
             fd[p] = "None", fd[q] = "None", fd'[q] = "Live", port'[q] = port[p]
      PROVE  port[q] = port[p]
  <2>1. /\ fd' = [a \in Players |-> IF a \in DOMAIN s THEN "Live" ELSE fd[a]]
        /\ port' = [a \in Players |-> IF a \in DOMAIN s THEN s[a] ELSE port[a]]
    BY DEF Attach
  <2>2. q \in DOMAIN s /\ s[q] = port[p]
    <3> HIDE DEF s
    <3> QED BY <1>3, <2>1
  <2>3. port[p] \in Candidates
    BY <1>2, <2>2 DEF Seats
  <2>4. p \in Vacant /\ q \in Vacant
    BY <1>3 DEF Vacant
  <2>5. \E r \in Vacant : port[r] = port[p] /\ ~\E w \in Vacant : w < r /\ port[w] = port[r]
    <3>1. CASE \E w \in Vacant : w < p /\ port[w] = port[p]
      <4>1. PICK w \in Vacant : w < p /\ port[w] = port[p]
        BY <3>1
      <4>2. w = 1 /\ \A x \in Vacant : ~(x < w)
        BY <1>1, <4>1 DEF Vacant
      <4> QED BY <4>1, <4>2
    <3>2. CASE ~\E w \in Vacant : w < p /\ port[w] = port[p]
      BY <2>4, <3>2
    <3> QED BY <3>1, <3>2
  <2>6. PICK r \in Vacant : port[r] = port[p] /\ ~\E w \in Vacant : w < r /\ port[w] = port[r]
    BY <2>5
  <2>7. r \in DOMAIN one /\ one[r] = port[r]
    BY <2>3, <2>6 DEF Returning
  <2>8. r \in DOMAIN s /\ s[r] = s[q]
    BY <1>2, <2>2, <2>6, <2>7
  <2>9. r = q
    BY <1>2, <2>2, <2>8 DEF Seats
  <2> QED BY <2>6, <2>9
<1> QED BY <1>3 DEF SeatKept

(* Where no pad is taken into use, nobody's seat is. *)
LEMMA NobodySeated ==
  ASSUME \A q \in Players : fd[q] = "None" => fd'[q] # "Live" PROVE SeatKept
BY DEF SeatKept

(* The worker thread seats players only in its scan. *)
LEMMA InputKeepsSeats ==
  ASSUME JoypadAssumption, JoypadTypes, input_thread PROVE SeatKept
<1>0. fd \in [Players -> {"None", "Live", "Dead"}]
  BY DEF JoypadTypes
<1>1. CASE LoopStops \/ LoopPolls
  BY <1>1, NobodySeated DEF LoopStops, LoopPolls, padVars
<1>2. CASE LoopScans
  BY <1>2, ScanKeepsSeats DEF LoopScans, scan_gamepads
<1>3. ASSUME NEW p \in Players, close_gamepad(p) PROVE SeatKept
  <2>1. fd' = [fd EXCEPT ![p] = "None"]
    BY <1>3 DEF close_gamepad
  <2> QED BY <1>0, <2>1, NobodySeated
<1>4. ASSUME UNCHANGED fd PROVE SeatKept
  BY <1>4, NobodySeated
<1>5. CASE \E p \in Players : Fetch(p)
  <2>1. PICK p \in Players : Fetch(p)
    BY <1>5
  <2>2. close_gamepad(p) \/ UNCHANGED fd
    BY <2>1 DEF Fetch, padVars
  <2> QED BY <1>3, <1>4, <2>2
<1>6. CASE \E p \in Players : Apply(p)
  <2>1. PICK p \in Players : Apply(p)
    BY <1>6
  <2>2. close_gamepad(p) \/ UNCHANGED fd
    BY <2>1 DEF Apply
  <2> QED BY <1>3, <1>4, <2>2
<1> QED BY <1>1, <1>2, <1>5, <1>6 DEF input_thread

(* The host's thread stops the worker only for the session that is current. *)
LEMMA OwnerServes ==
  ASSUME JoypadAssumption, JoypadTypes, Owner PROVE SeatKept /\ ReplacementServed
<1>1. CASE StartSession
  <2>1. SeatKept
    BY <1>1, ScanKeepsSeats DEF StartSession, scan_gamepads
  <2> QED BY <1>1, <2>1 DEF StartSession, ReplacementServed
<1>2. CASE StartFails \/ JoinWorker
  <2>1. fd' = [p \in Players |-> "None"]
    BY <1>2 DEF StartFails, JoinWorker, close_devices, NothingOpen
  <2>2. SeatKept
    BY <2>1, NobodySeated
  <2> QED BY <1>2, <2>2 DEF StartFails, JoinWorker, ReplacementServed
<1>3. CASE Shutdown
  <2>1. SeatKept
    BY <1>3, NobodySeated DEF Shutdown, padVars
  <2> QED BY <1>3, <2>1 DEF Shutdown, ReplacementServed
<1>4. CASE \E g \in sessions : DropSession(g)
  <2>1. SeatKept
    BY <1>4, NobodySeated DEF DropSession, padVars
  <2> QED BY <1>4, <2>1 DEF DropSession, ReplacementServed
<1> QED BY <1>1, <1>2, <1>3, <1>4 DEF Owner

(* The world and the timer stop nobody and seat nobody. *)
LEMMA WorldServes ==
  ASSUME JoypadTypes, World \/ Second \/ UNCHANGED joypadVars PROVE SeatKept /\ ReplacementServed
<1>1. UNCHANGED stopping
  BY NotSessions DEF joypadVars, sessionVars
<1>2. ASSUME NEW q \in Players, fd[q] = "None" PROVE fd'[q] # "Live"
  <2>1. CASE \E c \in limits.ports : Unplug(c)
    BY <1>2, <2>1 DEF Unplug
  <2>2. CASE UNCHANGED fd
    BY <1>2, <2>2
  <2> QED BY <2>1, <2>2 DEF World, Plug, Move, Type, Second, joypadVars, padVars
<1> QED BY <1>1, <1>2, NobodySeated DEF ReplacementServed

(* The step of a session that has been replaced, or of a scan, takes input from nobody else. *)
LEMMA DoomServes ==
  ASSUME JoypadAssumption, DoomInv, [DoomNext]_allVars PROVE ReplacementServed /\ SeatKept
<1>0. JoypadTypes
  BY DEF DoomInv, JoypadInv
<1>1. CASE input_thread
  <2>1. UNCHANGED stopping
    BY <1>1, NotSessions
  <2> QED BY <1>0, <1>1, <2>1, InputKeepsSeats DEF ReplacementServed
<1>2. CASE Owner
  BY <1>0, <1>2, OwnerServes
<1>3. CASE World \/ Second \/ UNCHANGED joypadVars
  BY <1>0, <1>3, WorldServes
<1>4. CASE run_host
  <2>1. UNCHANGED joypadVars \/ Owner
    <3>1. OpenFails => UNCHANGED joypadVars \/ Owner
      <4>1. DropSession(generation) => generation \in sessions
        BY DEF DropSession
      <4> QED BY <4>1 DEF OpenFails, Owner
    <3> QED BY <1>4, <3>1 DEF run_host, RefuseWad, Begin, OpenVideo, LeaveDoom, Release, CloseAudio, Owner
  <2> QED BY <1>2, <1>3, <2>1
<1> QED BY <1>1, <1>2, <1>3, <1>4 DEF DoomNext, DoomThread, Engine, AskDoom, DoomCompositor, Input, Tick, DevicesMove, Core, allVars

(* A stale session does not stop its replacement, and a pad that comes back goes to no player who remembers
   another port (Session::drop, scan_gamepads). *)
THEOREM DoomSeatsServed == DoomSpec => SeatsServed
<1>1. DoomInit => DoomInv
  BY JoypadAssumption, DoomInitInv
<1>2. DoomInv /\ [DoomNext]_allVars => DoomInv'
  BY JoypadAssumption, DoomAssumption, DoomStep
<1>3. DoomInv /\ [DoomNext]_allVars => [ReplacementServed /\ SeatKept]_allVars
  BY JoypadAssumption, DoomServes
<1> QED BY <1>1, <1>2, <1>3, PTL DEF DoomSpec, SeatsServed
=============================================================================
