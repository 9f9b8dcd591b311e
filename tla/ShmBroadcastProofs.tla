------------------------ MODULE ShmBroadcastProofs ------------------------
(***************************************************************************)
(* Proofs about ShmBroadcast, for any number of readers, chunks, objects   *)
(* and pending stores: the flags, the ring and the sockets implement the   *)
(* queue of BroadcastQueue, and nothing grows beyond its bound.            *)
(*                                                                         *)
(* The argument.  The writer's stores are numbered: store x of object n is *)
(* Op(n, x), and what its store buffer holds is the end of that numbering  *)
(* (BufferInv).  A chunk is taken again only when its last object is read  *)
(* by all, so the objects that can be pending or unread are the last       *)
(* MaxChunks ones, and each has a chunk of its own.  What memory holds of  *)
(* a chunk is then told by which stores of its object are Done (MemInv),   *)
(* and a reader that saw its own flag 0 and then the written flag 1 has    *)
(* seen the flags of one and the same object (ReaderInv).                  *)
(***************************************************************************)
EXTENDS ShmBroadcast, Integers, FiniteSetTheorems, TLAPS

USE ShmOK

(* The chunk of object n. *)
Slot(n) == (n - 1) % MaxChunks

(* The last store of an object is its mark; before it come its readers'    *)
(* flags, numbers 3 to NLocal + 2.                                         *)
Mark == NLocal + 3

Content(n) == IF n \in Big THEN Overflow ELSE n

Op(n, x) ==
    IF x = 0 THEN <<Written(Slot(n)), 0>>
    ELSE IF x = 1 THEN <<Data(Slot(n)), IF n \in Big THEN Overflow ELSE Torn>>
    ELSE IF x = 2 THEN <<Data(Slot(n)), n>>
    ELSE IF x = Mark THEN <<Written(Slot(n)), 1>>
    ELSE <<Read(Slot(n), x - 2), 0>>

Busy == w \in {"fill", "half", "reset", "mark"}

(* The stores of the newest object that the writer has still to do begin   *)
(* at this number.                                                         *)
Pos == IF w = "fill" THEN 1 ELSE IF w = "half" THEN 2
       ELSE IF w = "reset" THEN 2 + wflag ELSE IF w = "mark" THEN Mark ELSE Mark + 1

Window == {n \in 1..items : n + MaxChunks > items}

Issued(n, x) ==
    /\ x \in 0..Mark
    /\ ~(x = 2 /\ n \in Big)
    /\ n = items => x < Pos

Pending(n, x) == \E i \in DOMAIN stores[Writer] : stores[Writer][i] = Op(n, x)

Done(n, x) == Issued(n, x) /\ ~Pending(n, x)

Before(n, x, m, y) == n < m \/ (n = m /\ x < y)

(* How many objects reader r has marked as read, and how many of those     *)
(* marks are in memory.                                                    *)
Count(r) == Len(got[r]) + (IF rd[r] = "recv" THEN 1 ELSE 0)
Seen(r)  == Count(r) - Len(stores[r])

WriterInv ==
    /\ items = IF Busy THEN sent + 1 ELSE sent
    /\ widx = Slot(sent + 1)
    /\ w = "reset" => wflag <= NLocal
    /\ w = "half" => items \notin Big /\ wflag = 1
    /\ w = "publish" => items \in Big
    /\ w = "remote" => items > 0
    /\ w \in {"connect", "remotes"} => items = 0

(* The writer's buffer holds stores of the window, in their order, and     *)
(* with one of them all that come after it.                                *)
BufferInv ==
    /\ \A i \in DOMAIN stores[Writer] :
          \E n \in Window : \E x \in 0..Mark :
              Issued(n, x) /\ stores[Writer][i] = Op(n, x)
    /\ \A i, j \in DOMAIN stores[Writer] : \A n, m \in Window : \A x, y \in 0..Mark :
          i < j /\ Issued(n, x) /\ Issued(m, y)
          /\ stores[Writer][i] = Op(n, x) /\ stores[Writer][j] = Op(m, y)
          => Before(n, x, m, y)
    /\ \A n, m \in Window : \A x, y \in 0..Mark :
          Issued(n, x) /\ Pending(n, x) /\ Issued(m, y) /\ Before(n, x, m, y)
          => Pending(m, y)

MemWritten ==
    \A n \in Window :
        /\ Done(n, Mark) => mem[Written(Slot(n))] = 1
        /\ Done(n, 0) /\ ~Done(n, Mark) => mem[Written(Slot(n))] = 0
        /\ ~Done(n, 0) /\ n <= MaxChunks => mem[Written(Slot(n))] = 0

MemData ==
    \A n \in Window :
        Done(n, IF n \in Big THEN 1 ELSE 2) => mem[Data(Slot(n))] = Content(n)

MemRead ==
    \A n \in Window : \A r \in Local :
        /\ n <= Count(r) => Done(n, Mark)
        /\ n <= Seen(r) => mem[Read(Slot(n), r)] = 1
        /\ n > Seen(r) /\ Done(n, 2 + r) => mem[Read(Slot(n), r)] = 0
        /\ n > Seen(r) /\ ~Done(n, 2 + r) =>
              mem[Read(Slot(n), r)] = IF n <= MaxChunks THEN 0 ELSE 1

MemUnused ==
    \A c \in Chunks : c >= items =>
        /\ mem[Written(c)] = 0
        /\ \A r \in Local : mem[Read(c, r)] = 0

MemInv == MemWritten /\ MemData /\ MemRead /\ MemUnused

(* Where reader r is with the object it reads next. *)
ReaderIs(r) ==
    /\ Count(r) <= sent
    /\ Len(stores[r]) <= Count(r)
    /\ Seen(r) + MaxChunks >= items
    /\ ridx[r] = Slot(Count(r) + 1)
    /\ \A i \in DOMAIN stores[r] : stores[r][i] = <<Read(Slot(Seen(r) + i), r), 1>>
    /\ rd[r] = "recv" => Count(r) \in Big
    /\ rd[r] \in {"unread", "acquired", "read"} =>
          /\ mem[Read(ridx[r], r)] = 0
          /\ Count(r) < items \/ Count(r) < MaxChunks
    /\ rd[r] \in {"acquired", "read"} =>
          Count(r) < items /\ Done(Count(r) + 1, Mark)
    /\ rd[r] = "read" => obj[r] = Content(Count(r) + 1)

ReaderInv == \A r \in Local : ReaderIs(r)

(* The READY that a reader has not taken yet. *)
Off(r) == IF rd[r] = "connect" THEN 1 ELSE 0

Arrived(r) ==
    IF Busy \/ w = "publish" \/ (r \in Remote /\ w = "remote") THEN items - 1 ELSE items

(* The socket of a local reader holds the large objects that are published *)
(* and not received, in their order; that of a remote one all of them.     *)
LocalSock(r) ==
    /\ w = "connect" => sock[r] = <<>> /\ rd[r] = "connect"
    /\ w # "connect" =>
        /\ r \in subscribed
        /\ rd[r] = "connect" => sock[r] # <<>>
        /\ Len(got[r]) <= Arrived(r)
        /\ \A i \in (1 + Off(r))..Len(sock[r]) :
              /\ sock[r][i] \in Big
              /\ Len(got[r]) < sock[r][i]
              /\ sock[r][i] + (Len(sock[r]) - i) <= Arrived(r)
        /\ \A i, j \in (1 + Off(r))..Len(sock[r]) : i < j => sock[r][i] < sock[r][j]
        /\ \A b \in Big : Len(got[r]) < b /\ b <= Arrived(r) =>
              \E i \in (1 + Off(r))..Len(sock[r]) : sock[r][i] = b

RemoteSock(r) ==
    /\ rd[r] \in {"connect", "idle"}
    /\ w \in {"connect", "remotes"} => sock[r] = <<>> /\ rd[r] = "connect"
    /\ w \notin {"connect", "remotes"} =>
        /\ r \in subscribed
        /\ Len(sock[r]) = Off(r) + Arrived(r) - Len(got[r])
        /\ \A i \in (1 + Off(r))..Len(sock[r]) : sock[r][i] = Len(got[r]) + i - Off(r)

SockInv ==
    /\ \A r \in Local : LocalSock(r)
    /\ \A r \in Remote : RemoteSock(r)
    /\ \A r \in Readers : rd[r] = "connect" => got[r] = <<>>

ShmInv == ShmTypeOK /\ WriterInv /\ BufferInv /\ MemInv /\ ReaderInv /\ SockInv

-----------------------------------------------------------------------------
(* The ring: arithmetic of the chunk an object is in.                      *)

(* Division with remainder. *)
LEMMA DivMod ==
    ASSUME NEW x \in Nat
    PROVE  /\ x \div MaxChunks \in Nat /\ x % MaxChunks \in 0..(MaxChunks - 1)
           /\ x = MaxChunks * (x \div MaxChunks) + (x % MaxChunks)
  BY SMT

(* ... has one quotient and one remainder. *)
LEMMA DivModUnique ==
    \A q, p \in Nat : \A a, b \in 0..(MaxChunks - 1) :
        MaxChunks * q + a = MaxChunks * p + b => q = p /\ a = b
  <1>1. ASSUME NEW q \in Nat, NEW p \in Nat, NEW a \in 0..(MaxChunks - 1),
               NEW b \in 0..(MaxChunks - 1), q > p,
               MaxChunks * q + a = MaxChunks * p + b
        PROVE  FALSE
    <2>1. q - p \in Nat \ {0} /\ q = p + (q - p)
      BY <1>1
    <2>2. PICK d \in Nat \ {0} : q = p + d
      BY <2>1
    <2>3. MaxChunks * q = MaxChunks * p + MaxChunks * d
      BY <2>2
    <2>4. MaxChunks * d >= MaxChunks
      BY <2>2
    <2>5. QED
      BY <1>1, <2>3, <2>4
  <1>2. QED
    BY <1>1

(* The chunk of an object is one of the ring. *)
LEMMA SlotType == ASSUME NEW n \in Nat \ {0} PROVE Slot(n) \in Chunks
  BY DivMod DEF Slot, Chunks

(* The remainder is what is left of any multiple. *)
LEMMA ModIs ==
    ASSUME NEW x \in Nat, NEW q \in Nat, NEW a \in 0..(MaxChunks - 1),
           x = MaxChunks * q + a
    PROVE  x % MaxChunks = a
  <1> DEFINE p == x \div MaxChunks
             b == x % MaxChunks
  <1>1. /\ p \in Nat /\ b \in 0..(MaxChunks - 1)
        /\ MaxChunks * p + b = MaxChunks * q + a
    BY DivMod
  <1>2. b = a
    <2> HIDE DEF p, b
    <2> QED BY <1>1, DivModUnique
  <1>3. QED
    BY <1>2

(* An object and the one MaxChunks after it share a chunk. *)
LEMMA SlotCycle == ASSUME NEW n \in Nat \ {0} PROVE Slot(n + MaxChunks) = Slot(n)
  <1> DEFINE x == n - 1
             q == x \div MaxChunks
             a == x % MaxChunks
  <1>1. x \in Nat /\ q \in Nat /\ a \in 0..(MaxChunks - 1) /\ x = MaxChunks * q + a
    BY DivMod
  <1>2. q + 1 \in Nat /\ x + MaxChunks = MaxChunks * (q + 1) + a /\ x + MaxChunks \in Nat
    BY <1>1
  <1>3. (x + MaxChunks) % MaxChunks = a
    <2> HIDE DEF x, q, a
    <2> QED BY <1>1, <1>2, ModIs
  <1>4. n + MaxChunks - 1 = x + MaxChunks
    OBVIOUS
  <1>5. QED
    BY <1>3, <1>4 DEF Slot

(* The first objects fill the chunks in their order. *)
LEMMA SlotSmall == ASSUME NEW n \in 1..MaxChunks PROVE Slot(n) = n - 1
  <1>1. n - 1 \in Nat /\ n - 1 \in 0..(MaxChunks - 1) /\ n - 1 = MaxChunks * 0 + (n - 1)
    OBVIOUS
  <1>2. QED
    BY <1>1, ModIs DEF Slot

(* current_idx = (current_idx + 1) % max_chunks moves to the next object's. *)
LEMMA SlotNext ==
    ASSUME NEW n \in Nat \ {0} PROVE (Slot(n) + 1) % MaxChunks = Slot(n + 1)
  <1> DEFINE x == n - 1
             q == x \div MaxChunks
             a == x % MaxChunks
  <1>1. x \in Nat /\ q \in Nat /\ a \in 0..(MaxChunks - 1) /\ x = MaxChunks * q + a
    BY DivMod
  <1>2. Slot(n) = a /\ Slot(n + 1) = (x + 1) % MaxChunks
    BY DEF Slot
  <1>3. CASE a + 1 < MaxChunks
    <2>1. a + 1 \in 0..(MaxChunks - 1) /\ x + 1 = MaxChunks * q + (a + 1)
          /\ a + 1 = MaxChunks * 0 + (a + 1) /\ a + 1 \in Nat /\ x + 1 \in Nat
      BY <1>1, <1>3
    <2>2. (x + 1) % MaxChunks = a + 1 /\ (a + 1) % MaxChunks = a + 1
      <3> HIDE DEF x, q, a
      <3> QED BY <1>1, <2>1, ModIs
    <2>3. QED
      BY <1>2, <2>2
  <1>4. CASE a + 1 = MaxChunks
    <2>1. 0 \in 0..(MaxChunks - 1) /\ x + 1 = MaxChunks * (q + 1) + 0
          /\ a + 1 = MaxChunks * 1 + 0 /\ a + 1 \in Nat /\ x + 1 \in Nat /\ q + 1 \in Nat
      BY <1>1, <1>4
    <2>2. (x + 1) % MaxChunks = 0 /\ (a + 1) % MaxChunks = 0
      <3> HIDE DEF x, q, a
      <3> QED BY <1>1, <2>1, ModIs
    <2>3. QED
      BY <1>2, <2>2
  <1>5. QED
    BY <1>1, <1>3, <1>4

(* Fewer than MaxChunks apart, two objects have two chunks. *)
LEMMA SlotDiffers ==
    ASSUME NEW n \in Nat \ {0}, NEW m \in Nat \ {0}, n < m, m < n + MaxChunks
    PROVE  Slot(n) # Slot(m)
  <1> SUFFICES ASSUME Slot(n) = Slot(m) PROVE FALSE
    OBVIOUS
  <1> DEFINE q == (n - 1) \div MaxChunks
             p == (m - 1) \div MaxChunks
             a == Slot(n)
  <1>1. q \in Nat /\ p \in Nat /\ a \in 0..(MaxChunks - 1)
        /\ n - 1 = MaxChunks * q + a /\ m - 1 = MaxChunks * p + a
    BY DivMod, n - 1 \in Nat, m - 1 \in Nat DEF Slot
  <1> HIDE DEF q, p, a
  <1>2. CASE p <= q
    <2>1. MaxChunks * p <= MaxChunks * q
      BY <1>1, <1>2
    <2>2. QED
      BY <1>1, <2>1
  <1>3. CASE p > q
    <2>1. p - q \in Nat \ {0} /\ p = q + (p - q)
      BY <1>1, <1>3
    <2>2. PICK d \in Nat \ {0} : p = q + d
      BY <2>1
    <2>3. MaxChunks * p = MaxChunks * q + MaxChunks * d /\ MaxChunks * d >= MaxChunks
      BY <1>1, <2>2
    <2>4. QED
      BY <1>1, <2>3
  <1>4. QED
    BY <1>1, <1>2, <1>3

-----------------------------------------------------------------------------
(* The writer's stores and its store buffer.                               *)

(* The three kinds of location do not overlap. *)
LEMMA Places ==
    /\ \A c, d : /\ Written(c) # Data(d)
                 /\ Written(c) = Written(d) <=> c = d
                 /\ Data(c) = Data(d) <=> c = d
    /\ \A c, d, r : Read(c, r) # Written(d) /\ Read(c, r) # Data(d)
    /\ \A c, d, r, s : Read(c, r) = Read(d, s) <=> c = d /\ r = s
  BY DEF Written, Data, Read

(* What a store writes where. *)
LEMMA OpIs ==
    ASSUME NEW n
    PROVE  /\ Op(n, 0) = <<Written(Slot(n)), 0>>
           /\ Op(n, 1) = <<Data(Slot(n)), IF n \in Big THEN Overflow ELSE Torn>>
           /\ Op(n, 2) = <<Data(Slot(n)), n>>
           /\ \A r \in Local : Op(n, 2 + r) = <<Read(Slot(n), r), 0>>
           /\ Op(n, Mark) = <<Written(Slot(n)), 1>>
  BY DEF Op, Mark, Local

(* The numbers of an object's stores. *)
LEMMA Numbers ==
    /\ Mark \in Nat /\ Mark > 3
    /\ \A x \in 0..Mark : x \in {0, 1, 2, Mark} \/ \E r \in Local : x = 2 + r
    /\ \A r \in Local : 2 + r \in 3..(Mark - 1)
  <1>1. \A x \in 3..(Mark - 1) : x - 2 \in Local /\ x = 2 + (x - 2)
    BY DEF Mark, Local
  <1>2. \A x \in 0..Mark : x \in {0, 1, 2, Mark} \/ x \in 3..(Mark - 1)
    BY DEF Mark
  <1>3. QED
    BY <1>1, <1>2 DEF Mark, Local

(* Two objects fewer than MaxChunks apart: those of the window are. *)
Near(n, m) == n < m + MaxChunks /\ m < n + MaxChunks

(* Of such objects the chunk tells which one it is. *)
LEMMA SlotSame ==
    \A n, m \in Nat \ {0} : Near(n, m) /\ Slot(n) = Slot(m) => n = m
  BY SlotDiffers DEF Near

(* The location of a store tells which one it is. *)
LEMMA OpPlace ==
    ASSUME NEW n, NEW x \in 0..Mark
    PROVE  /\ \A c : Op(n, x)[1] = Written(c) => Slot(n) = c /\ x \in {0, Mark}
           /\ \A c : Op(n, x)[1] = Data(c) => Slot(n) = c /\ x \in {1, 2}
           /\ \A c : \A r \in Local :
                 Op(n, x)[1] = Read(c, r) => Slot(n) = c /\ x = 2 + r
           /\ Op(n, x)[1] \in {Written(Slot(n)), Data(Slot(n))}
                              \cup {Read(Slot(n), r) : r \in Local}
  <1>1. CASE x = 0
    BY <1>1, OpIs, Places, Numbers
  <1>2. CASE x = 1
    BY <1>2, OpIs, Places, Numbers
  <1>3. CASE x = 2
    BY <1>3, OpIs, Places, Numbers
  <1>4. CASE x = Mark
    BY <1>4, OpIs, Places, Numbers
  <1>5. ASSUME NEW r \in Local, x = 2 + r
        PROVE  /\ Op(n, x)[1] = Read(Slot(n), r)
               /\ \A s \in Local : r = s => x = 2 + s
    BY <1>5, OpIs
  <1>6. ASSUME NEW r \in Local, x = 2 + r
        PROVE  /\ \A c : Op(n, x)[1] # Written(c) /\ Op(n, x)[1] # Data(c)
               /\ \A c : \A s \in Local :
                      Op(n, x)[1] = Read(c, s) => Slot(n) = c /\ x = 2 + s
    BY <1>5, <1>6, Places
  <1>7. QED
    BY <1>1, <1>2, <1>3, <1>4, <1>5, <1>6, Numbers

(* No two stores of the window are the same. *)
LEMMA OpInjective ==
    ASSUME NEW n \in 1..MaxItems, NEW m \in 1..MaxItems, Near(n, m),
           NEW x \in 0..Mark, NEW y \in 0..Mark, Op(n, x) = Op(m, y)
    PROVE  n = m /\ x = y
  <1>1. n \in Nat \ {0} /\ m \in Nat \ {0}
    OBVIOUS
  <1>2. Op(n, x)[1] = Op(m, y)[1] /\ Op(n, x)[2] = Op(m, y)[2]
    OBVIOUS
  <1>3. Slot(n) = Slot(m)
    BY <1>2, OpPlace
  <1>4. n = m
    BY <1>1, <1>3, SlotSame
  <1>5. CASE x \in {0, Mark}
    <2>1. Op(n, x)[1] = Written(Slot(n)) /\ Op(n, x)[2] = IF x = 0 THEN 0 ELSE 1
      BY <1>5, OpIs, Numbers
    <2>2. y \in {0, Mark}
      <3>1. Op(m, y)[1] = Written(Slot(n))
        BY <2>1, <1>2
      <3>2. QED
        BY ONLY <3>1, OpPlace, y \in 0..Mark
    <2>3. Op(m, y)[2] = IF y = 0 THEN 0 ELSE 1
      BY <2>2, OpIs, Numbers
    <2>4. QED
      BY <1>4, <1>5, <1>2, <2>1, <2>2, <2>3, Numbers
  <1>6. CASE x \in {1, 2}
    <2>1. Op(n, x)[1] = Data(Slot(n)) /\ (x = 2 <=> Op(n, x)[2] <= MaxItems)
      BY <1>6, <1>1, OpIs DEF Overflow, Torn
    <2>2. y \in {1, 2}
      BY ZenonT(40), <2>1, <1>2, OpPlace
    <2>3. y = 2 <=> Op(m, y)[2] <= MaxItems
      BY <2>2, <1>1, OpIs DEF Overflow, Torn
    <2>4. QED
      BY <1>4, <1>6, <1>2, <2>1, <2>2, <2>3
  <1>7. ASSUME NEW r \in Local, x = 2 + r PROVE x = y
    <2>1. Op(n, x)[1] = Read(Slot(n), r)
      BY <1>7, OpIs
    <2>2. Op(m, y)[1] = Read(Slot(n), r)
      BY <2>1, <1>2
    <2>3. y = 2 + r
      BY ONLY <2>2, OpPlace, r \in Local, y \in 0..Mark
    <2>4. QED
      BY <1>7, <2>3
  <1>8. QED
    BY <1>4, <1>5, <1>6, <1>7, Numbers

(* What the window is, in the form the proofs below use. *)
LEMMA WindowIs ==
    ASSUME items \in 0..MaxItems
    PROVE  /\ \A n \in Window : n \in 1..MaxItems /\ n \in Nat \ {0} /\ n <= items
           /\ \A n, m \in Window : Near(n, m)
           /\ \A n, m \in Window : Slot(n) = Slot(m) => n = m
           /\ \A n, m \in Window : \A x, y \in 0..Mark :
                 Op(n, x) = Op(m, y) => n = m /\ x = y
  <1>1. \A n \in Window : n \in 1..MaxItems /\ n \in Nat \ {0} /\ n <= items
    BY DEF Window
  <1>2. \A n, m \in Window : Near(n, m)
    BY DEF Window, Near
  <1>3. \A n, m \in Window : Slot(n) = Slot(m) => n = m
    BY <1>1, <1>2, SlotSame
  <1>4. QED
    BY <1>1, <1>2, <1>3, OpInjective

(* Only what the writer has done can be pending. *)
LEMMA PendingIssued ==
    ASSUME items \in 0..MaxItems, BufferInv, NEW n \in Window, NEW x \in 0..Mark,
           Pending(n, x)
    PROVE  Issued(n, x)
  <1>1. PICK i \in DOMAIN stores[Writer] : stores[Writer][i] = Op(n, x)
    BY DEF Pending
  <1>2. PICK m \in Window, y \in 0..Mark : Issued(m, y) /\ stores[Writer][i] = Op(m, y)
    BY <1>1 DEF BufferInv
  <1>3. m = n /\ y = x
    BY <1>1, <1>2, Op(n, x) = Op(m, y), WindowIs
  <1>4. QED
    BY <1>2, <1>3

(* A step that leaves the writer where it is and its buffer alone. *)
LEMMA SameBuffer ==
    ASSUME items' = items, Pos' = Pos, stores'[Writer] = stores[Writer]
    PROVE  /\ Window' = Window
           /\ \A n, x : Issued(n, x)' <=> Issued(n, x)
           /\ \A n, x : Pending(n, x)' <=> Pending(n, x)
           /\ \A n, x : Done(n, x)' <=> Done(n, x)
           /\ BufferInv => BufferInv'
  <1>1. Window' = Window
    BY DEF Window
  <1>2. \A n, x : Issued(n, x)' <=> Issued(n, x)
    BY DEF Issued
  <1>3. \A n, x : Pending(n, x)' <=> Pending(n, x)
    BY DEF Pending
  <1>4. \A n, x : Done(n, x)' <=> Done(n, x)
    BY <1>2, <1>3 DEF Done
  <1>5. BufferInv => BufferInv'
    BY <1>1, <1>2, <1>3 DEF BufferInv
  <1>6. QED
    BY <1>1, <1>2, <1>3, <1>4, <1>5

(* The writer puts its next store into the buffer. *)
LEMMA NextStore ==
    ASSUME items \in 0..MaxItems, items' \in 0..MaxItems,
           stores[Writer] \in Seq(Locations \X (0..Torn)),
           BufferInv, NEW N0 \in Window', NEW X0 \in 0..Mark,
           stores'[Writer] = Append(stores[Writer], Op(N0, X0)),
           Window' \subseteq Window \cup {N0},
           \A n \in Window' : \A x \in 0..Mark :
               Issued(n, x)' <=> (n \in Window /\ Issued(n, x)) \/ (n = N0 /\ x = X0),
           \A n \in Window : \A x \in 0..Mark : Issued(n, x) => Before(n, x, N0, X0),
           \A n \in Window \ Window' : \A x \in 0..Mark : Issued(n, x) => ~Pending(n, x)
    PROVE  /\ BufferInv'
           /\ \A n \in Window' : \A x \in 0..Mark :
                 Done(n, x)' <=> n \in Window /\ Done(n, x)
  <1> DEFINE B == stores[Writer]
             C == stores'[Writer]
             k == Len(B) + 1
  <1>1. /\ DOMAIN B = 1..Len(B) /\ Len(B) \in Nat
        /\ DOMAIN C = 1..k /\ C[k] = Op(N0, X0)
        /\ \A i \in 1..Len(B) : C[i] = B[i]
    OBVIOUS
  <1>2. \A n, m \in Window' : \A x, y \in 0..Mark :
            Op(n, x) = Op(m, y) => n = m /\ x = y
    <2>1. /\ \A n \in Window' : n \in 1..MaxItems
          /\ \A n, m \in Window' : Near(n, m)
      BY DEF Window, Near
    <2>2. QED
      BY <2>1, OpInjective
  <1> HIDE DEF B, C, k
  <1>3. ASSUME NEW i \in 1..Len(B)
        PROVE  \E n \in Window \cap Window' : \E x \in 0..Mark :
                  Issued(n, x) /\ Issued(n, x)' /\ C[i] = Op(n, x) /\ B[i] = Op(n, x)
    <2>1. PICK n \in Window, x \in 0..Mark : Issued(n, x) /\ B[i] = Op(n, x)
      BY <1>1 DEF BufferInv, B
    <2>2. Pending(n, x)
      BY <1>1, <2>1 DEF Pending, B
    <2>3. n \in Window'
      BY <2>1, <2>2
    <2>4. QED
      BY <1>1, <2>1, <2>3
  <1>4. ASSUME NEW n \in Window', NEW x \in 0..Mark
        PROVE  Pending(n, x)' <=> (n \in Window /\ Pending(n, x)) \/ (n = N0 /\ x = X0)
    <2>1. ASSUME NEW i \in 1..k, C[i] = Op(n, x)
          PROVE  (n \in Window /\ Pending(n, x)) \/ (n = N0 /\ x = X0)
      <3>1. CASE i = k
        BY <1>1, <1>2, <2>1, <3>1, Op(n, x) = Op(N0, X0)
      <3>2. CASE i \in 1..Len(B)
        <4>1. PICK m \in Window \cap Window', y \in 0..Mark :
                  C[i] = Op(m, y) /\ B[i] = Op(m, y)
          BY <1>3, <3>2
        <4>2. m = n /\ y = x
          BY <1>2, <2>1, <4>1, Op(n, x) = Op(m, y)
        <4>3. QED
          BY <1>1, <3>2, <4>1, <4>2 DEF Pending, B
      <3>3. QED
        BY <1>1, <3>1, <3>2 DEF k
    <2>2. ASSUME Pending(n, x) PROVE Pending(n, x)'
      BY <1>1, <2>2 DEF Pending, B, C, k
    <2>3. ASSUME n = N0, x = X0 PROVE Pending(n, x)'
      <3>1. k \in DOMAIN C /\ C[k] = Op(n, x)
        BY <1>1, <2>3 DEF k
      <3>2. QED
        BY <3>1 DEF Pending, C
    <2>4. Pending(n, x)' => \E i \in 1..k : C[i] = Op(n, x)
      BY <1>1 DEF Pending, C
    <2>5. QED
      BY <2>1, <2>2, <2>3, <2>4
  <1>5. ASSUME NEW n \in Window', NEW x \in 0..Mark
        PROVE  Done(n, x)' <=> n \in Window /\ Done(n, x)
    <2>1. n \in Window /\ n = N0 /\ x = X0 => ~Issued(n, x)
      BY WindowIs DEF Before
    <2>2. n \in Window /\ Pending(n, x) => Issued(n, x)
      BY PendingIssued
    <2>3. QED
      BY <1>4, <2>1, <2>2 DEF Done
  <1>6. \A i \in DOMAIN C : \E n \in Window' : \E x \in 0..Mark :
            Issued(n, x)' /\ C[i] = Op(n, x)
    BY <1>1, <1>3 DEF k
  <1>7. ASSUME NEW i \in DOMAIN C, NEW j \in DOMAIN C, NEW n \in Window',
               NEW m \in Window', NEW x \in 0..Mark, NEW y \in 0..Mark,
               i < j, Issued(n, x)', Issued(m, y)', C[i] = Op(n, x), C[j] = Op(m, y)
        PROVE  Before(n, x, m, y)
    <2>1. i \in 1..Len(B)
      BY <1>1, <1>7 DEF k
    <2>2. n \in Window /\ Issued(n, x) /\ B[i] = Op(n, x)
      BY <1>2, <1>3, <1>7, <2>1
    <2>3. CASE j = k
      <3>1. Op(m, y) = Op(N0, X0)
        BY <1>1, <1>7, <2>3
      <3>2. QED
        BY <1>2, <2>2, <3>1
    <2>4. CASE j \in 1..Len(B)
      <3>1. m \in Window /\ Issued(m, y) /\ B[j] = Op(m, y)
        BY <1>2, <1>3, <1>7, <2>4
      <3>2. QED
        BY <1>1, <1>7, <2>1, <2>2, <2>4, <3>1 DEF BufferInv, B
    <2>5. QED
      BY <1>1, <2>3, <2>4 DEF k
  <1>8. ASSUME NEW n \in Window', NEW m \in Window', NEW x \in 0..Mark, NEW y \in 0..Mark,
               Issued(n, x)', Pending(n, x)', Issued(m, y)', Before(n, x, m, y)
        PROVE  Pending(m, y)'
    <2>1. CASE m = N0 /\ y = X0
      BY <1>4, <2>1
    <2>2. CASE ~(m = N0 /\ y = X0)
      <3>1. m \in Window /\ Issued(m, y) /\ Before(m, y, N0, X0)
        BY <1>8, <2>2
      <3>2. n \in Nat /\ m \in Nat /\ N0 \in Nat
        BY DEF Window
      <3>3. ~(n = N0 /\ x = X0)
        BY <1>8, <3>1, <3>2 DEF Before
      <3>4. n \in Window /\ Pending(n, x) /\ Issued(n, x)
        BY <1>4, <1>8, <3>3
      <3>5. QED
        BY <1>4, <1>8, <3>1, <3>4 DEF BufferInv
    <2>3. QED
      BY <2>1, <2>2
  <1>9. BufferInv'
    BY ZenonT(40), <1>6, <1>7, <1>8 DEF BufferInv, C
  <1>10. QED
    BY <1>5, <1>9

(* The oldest store leaves the buffer: all before it are done, none after. *)
LEMMA OldestStore ==
    ASSUME items \in 0..MaxItems, stores[Writer] \in Seq(Locations \X (0..Torn)),
           BufferInv, stores[Writer] # <<>>,
           items' = items, Pos' = Pos, stores'[Writer] = Tail(stores[Writer])
    PROVE  /\ BufferInv'
           /\ \E n \in Window : \E x \in 0..Mark :
                 /\ Issued(n, x) /\ Head(stores[Writer]) = Op(n, x)
                 /\ \A m \in Window : \A y \in 0..Mark :
                       /\ Done(m, y)' <=> Done(m, y) \/ (m = n /\ y = x)
                       /\ Issued(m, y) /\ Before(m, y, n, x) => Done(m, y)
                       /\ Before(n, x, m, y) => ~Done(m, y)
  <1> DEFINE B == stores[Writer]
             C == stores'[Writer]
  <1>1. /\ DOMAIN B = 1..Len(B) /\ Len(B) \in Nat \ {0} /\ Head(B) = B[1]
        /\ DOMAIN C = 1..(Len(B) - 1)
        /\ \A i \in DOMAIN C : i + 1 \in DOMAIN B /\ C[i] = B[i + 1]
    OBVIOUS
  <1>2. /\ Window' = Window
        /\ \A n, x : Issued(n, x)' <=> Issued(n, x)
    BY DEF Window, Issued
  <1>3. \A n \in Window : n \in Nat
    BY WindowIs
  <1> HIDE DEF B, C
  <1>4. PICK n \in Window, x \in 0..Mark : Issued(n, x) /\ B[1] = Op(n, x)
    BY <1>1 DEF BufferInv, B
  <1>5. ASSUME NEW i \in DOMAIN B, i # 1, NEW m \in Window, NEW y \in 0..Mark,
               Issued(m, y), B[i] = Op(m, y)
        PROVE  Before(n, x, m, y)
    <2>1. 1 \in DOMAIN B /\ 1 < i
      BY <1>1, <1>5
    <2>2. QED
      BY <1>4, <1>5, <2>1 DEF BufferInv, B
  <1>6. Pending(n, x)
    BY <1>1, <1>4 DEF Pending, B
  <1>7. ASSUME NEW m \in Window, NEW y \in 0..Mark
        PROVE  Pending(m, y)' <=> Pending(m, y) /\ ~(m = n /\ y = x)
    <2>1. ASSUME NEW i \in DOMAIN C, C[i] = Op(m, y)
          PROVE  Pending(m, y) /\ ~(m = n /\ y = x)
      <3>1. i + 1 \in DOMAIN B /\ B[i + 1] = Op(m, y) /\ i + 1 # 1
        BY <1>1, <2>1
      <3>2. Pending(m, y)
        BY <3>1 DEF Pending, B
      <3>3. Before(n, x, m, y)
        BY <1>5, <3>1, <3>2, PendingIssued
      <3>4. QED
        BY <1>3, <3>2, <3>3 DEF Before
    <2>2. ASSUME NEW i \in DOMAIN B, B[i] = Op(m, y), ~(m = n /\ y = x)
          PROVE  Pending(m, y)'
      <3>1. i # 1
        BY <1>4, <2>2, WindowIs, i = 1 => Op(m, y) = Op(n, x)
      <3>2. i - 1 \in DOMAIN C /\ C[i - 1] = Op(m, y)
        BY <1>1, <2>2, <3>1
      <3>3. QED
        BY <3>2 DEF Pending, C
    <2>3. QED
      BY <2>1, <2>2 DEF Pending, B, C
  <1>8. ASSUME NEW m \in Window, NEW y \in 0..Mark, Issued(m, y), Before(m, y, n, x)
        PROVE  Done(m, y)
    <2>1. SUFFICES ASSUME NEW i \in DOMAIN B, B[i] = Op(m, y) PROVE FALSE
      BY <1>8 DEF Done, Pending, B
    <2>2. CASE i = 1
      <3>1. m = n /\ y = x
        BY <1>4, <2>1, <2>2, WindowIs, Op(m, y) = Op(n, x)
      <3>2. QED
        BY <1>3, <1>8, <3>1 DEF Before
    <2>3. CASE i # 1
      <3>1. Before(n, x, m, y)
        BY <1>5, <1>8, <2>1, <2>3
      <3>2. QED
        BY <1>3, <1>8, <3>1 DEF Before
    <2>4. QED
      BY <2>2, <2>3
  <1>9. ASSUME NEW m \in Window, NEW y \in 0..Mark
        PROVE  /\ Done(m, y)' <=> Done(m, y) \/ (m = n /\ y = x)
               /\ Before(n, x, m, y) => ~Done(m, y)
    BY <1>2, <1>4, <1>6, <1>7 DEF Done, BufferInv
  <1>10. \A i \in DOMAIN C : \E m \in Window : \E y \in 0..Mark :
             Issued(m, y) /\ C[i] = Op(m, y)
    <2>1. \A i \in DOMAIN B : \E m \in Window : \E y \in 0..Mark :
              Issued(m, y) /\ B[i] = Op(m, y)
      BY DEF BufferInv, B
    <2>2. QED
      BY <1>1, <2>1
  <1>11. ASSUME NEW i \in DOMAIN C, NEW j \in DOMAIN C, NEW m \in Window, NEW p \in Window,
                NEW y \in 0..Mark, NEW z \in 0..Mark,
                i < j, Issued(m, y), Issued(p, z), C[i] = Op(m, y), C[j] = Op(p, z)
         PROVE  Before(m, y, p, z)
    <2>1. i + 1 \in DOMAIN B /\ j + 1 \in DOMAIN B /\ i + 1 < j + 1
          /\ B[i + 1] = Op(m, y) /\ B[j + 1] = Op(p, z)
      BY <1>1, <1>11
    <2>2. QED
      BY <1>11, <2>1 DEF BufferInv, B
  <1>12. ASSUME NEW m \in Window, NEW p \in Window, NEW y \in 0..Mark, NEW z \in 0..Mark,
                Issued(m, y), Pending(m, y)', Issued(p, z), Before(m, y, p, z)
         PROVE  Pending(p, z)'
    <2>1. Pending(m, y) /\ ~Done(m, y)
      BY <1>7, <1>12 DEF Done
    <2>2. Pending(p, z)
      BY <1>12, <2>1 DEF BufferInv
    <2>3. ~(p = n /\ z = x)
      BY <1>8, <1>12, <2>1
    <2>4. QED
      BY <1>7, <2>2, <2>3
  <1>13. BufferInv'
    BY SMTT(30), <1>2, <1>10, <1>11, <1>12 DEF BufferInv, C
  <1>14. QED
    BY <1>1, <1>4, <1>8, <1>9, <1>13 DEF B

-----------------------------------------------------------------------------
(* Memory.                                                                 *)

(* The flags and the data of a chunk are locations of memory. *)
LEMMA PlacesType ==
    /\ \A n \in Nat \ {0} :
          /\ Written(Slot(n)) \in Locations /\ Data(Slot(n)) \in Locations
          /\ \A r \in Local : Read(Slot(n), r) \in Locations
    /\ \A c \in Chunks :
          /\ Written(c) \in Locations /\ Data(c) \in Locations
          /\ \A r \in Local : Read(c, r) \in Locations
  BY SlotType DEF Locations

(* A chunk that no object has used yet is not the chunk of one. *)
LEMMA UnusedSlot ==
    ASSUME items \in Nat, NEW c \in Chunks, c >= items, NEW n \in 1..items
    PROVE  Slot(n) # c
  <1>1. n \in 1..MaxChunks
    BY DEF Chunks
  <1>2. QED
    BY <1>1, SlotSmall

(* The types that the lemmas below need. *)
LEMMA Types ==
    ASSUME ShmTypeOK
    PROVE  /\ items \in 0..MaxItems /\ items \in Nat /\ sent \in Nat
           /\ DOMAIN mem = Locations
           /\ stores[Writer] \in Seq(Locations \X (0..Torn))
           /\ \A r \in Local : /\ stores[r] \in Seq(Locations \X (0..Torn))
                               /\ Len(stores[r]) \in Nat
                               /\ Count(r) \in Nat
                               /\ Seen(r) \in Int /\ Seen(r) <= Count(r)
                               /\ r \in Readers /\ r \in Nat
           /\ \A r \in Readers : Len(got[r]) \in Nat /\ Len(sock[r]) \in Nat
           /\ Pos \in 1..(Mark + 1)
  <1>1. /\ items \in 0..MaxItems /\ items \in Nat /\ sent \in Nat
        /\ DOMAIN mem = Locations
    BY DEF ShmTypeOK
  <1>2. stores[Writer] \in Seq(Locations \X (0..Torn))
    BY DEF ShmTypeOK, Procs
  <1>3. \A r \in Readers : Len(got[r]) \in Nat /\ Len(sock[r]) \in Nat
    BY DEF ShmTypeOK
  <1>4. Pos \in 1..(Mark + 1)
    BY DEF ShmTypeOK, Pos, Mark
  <1>5. ASSUME NEW r \in Local
        PROVE  /\ stores[r] \in Seq(Locations \X (0..Torn))
               /\ r \in Readers /\ r \in Nat
    <2>1. r \in Procs /\ r \in Readers
      BY DEF Procs, Readers
    <2>2. r \in Nat
      BY DEF Local
    <2>3. QED
      BY <2>1, <2>2 DEF ShmTypeOK
  <1>6. ASSUME NEW r \in Local
        PROVE  /\ Len(stores[r]) \in Nat /\ Count(r) \in Nat
               /\ Seen(r) \in Int /\ Seen(r) <= Count(r)
    <2>1. Len(stores[r]) \in Nat /\ Len(got[r]) \in Nat
      BY <1>3, <1>5
    <2>2. Count(r) \in Nat
      <3>1. CASE rd[r] = "recv"
        BY <2>1, <3>1 DEF Count
      <3>2. CASE rd[r] # "recv"
        BY <2>1, <3>2 DEF Count
      <3>3. QED
        BY <3>1, <3>2
    <2>3. QED
      BY <2>1, <2>2 DEF Seen
  <1>7. QED
    BY <1>1, <1>2, <1>3, <1>4, <1>5, <1>6

(* A store of the writer reaches memory. *)
LEMMA WriterDrains ==
    ASSUME ShmTypeOK, BufferInv, MemInv, stores[Writer] # <<>>,
           items' = items, Pos' = Pos, stores'[Writer] = Tail(stores[Writer]),
           \A r \in Local : Count(r)' = Count(r) /\ Seen(r)' = Seen(r),
           mem' = [mem EXCEPT ![Head(stores[Writer])[1]] = Head(stores[Writer])[2]]
    PROVE  /\ BufferInv' /\ MemInv'
           /\ \A n \in Window : \A x \in 0..Mark : Done(n, x) => Done(n, x)'
           /\ \A l \in {Read(c, r) : c \in Chunks, r \in Local} : mem[l] = 0 => mem'[l] = 0
  <1>1. PICK n \in Window, x \in 0..Mark :
                 /\ Issued(n, x) /\ Head(stores[Writer]) = Op(n, x)
                 /\ \A m \in Window : \A y \in 0..Mark :
                       /\ Done(m, y)' <=> Done(m, y) \/ (m = n /\ y = x)
                       /\ Issued(m, y) /\ Before(m, y, n, x) => Done(m, y)
                       /\ Before(n, x, m, y) => ~Done(m, y)
    BY OldestStore, Types
  <1>2. BufferInv'
    BY OldestStore, Types
  <1>3. Window' = Window /\ \A m \in Window : m \in Nat \ {0} /\ m \in 1..items
    BY Types DEF Window
  <1>4. /\ \A c : Op(n, x)[1] = Written(c) => Slot(n) = c /\ x \in {0, Mark}
        /\ \A c : Op(n, x)[1] = Data(c) => Slot(n) = c /\ x \in {1, 2}
        /\ \A c : \A r \in Local :
                 Op(n, x)[1] = Read(c, r) => Slot(n) = c /\ x = 2 + r
    BY OpPlace
  <1>5. ASSUME NEW l \in Locations
        PROVE  mem'[l] = IF l = Op(n, x)[1] THEN Op(n, x)[2] ELSE mem[l]
    BY <1>1, Types
  <1>6. \A m \in Window : Slot(m) = Slot(n) => m = n
    BY WindowIs, Types
  <1>7. ASSUME NEW m \in Window
        PROVE  /\ Done(m, Mark)' => mem'[Written(Slot(m))] = 1
               /\ Done(m, 0)' /\ ~Done(m, Mark)' => mem'[Written(Slot(m))] = 0
               /\ ~Done(m, 0)' /\ m <= MaxChunks => mem'[Written(Slot(m))] = 0
    <2>1. Written(Slot(m)) \in Locations
      BY <1>3, PlacesType
    <2>2. CASE Written(Slot(m)) = Op(n, x)[1]
      <3>1. m = n /\ x \in {0, Mark}
        BY <1>4, <1>6, <2>2
      <3>2. CASE x = 0
        <4>1. mem'[Written(Slot(m))] = 0
          BY <1>5, <2>1, <2>2, <3>2, OpIs
        <4>2. Before(n, x, m, Mark)
          BY <3>1, <3>2, Numbers DEF Before
        <4>3. ~Done(m, Mark)'
          BY <1>1, <3>1, <3>2, <4>2, Numbers
        <4>4. QED
          BY <4>1, <4>3
      <3>3. CASE x = Mark
        <4>1. mem'[Written(Slot(m))] = 1
          BY <1>5, <2>1, <2>2, <3>3, OpIs
        <4>2. Before(m, 0, n, x) /\ Issued(m, 0)
          BY <1>1, <3>1, <3>3, Numbers, Types DEF Before, Issued
        <4>3. Done(m, 0)' /\ Done(m, Mark)'
          BY <1>1, <3>1, <3>3, <4>2, Numbers
        <4>4. QED
          BY <4>1, <4>3
      <3>4. QED
        BY <3>1, <3>2, <3>3
    <2>3. CASE Written(Slot(m)) # Op(n, x)[1]
      <3>1. ~(m = n /\ x \in {0, Mark})
        BY <2>3, OpIs
      <3>2. /\ Done(m, Mark)' <=> Done(m, Mark)
            /\ Done(m, 0)' <=> Done(m, 0)
        BY <1>1, <3>1, Numbers
      <3>3. QED
        BY <1>5, <2>1, <2>3, <3>2 DEF MemInv, MemWritten
    <2>4. QED
      BY <2>2, <2>3
  <1>8. ASSUME NEW m \in Window, Done(m, IF m \in Big THEN 1 ELSE 2)'
        PROVE  mem'[Data(Slot(m))] = Content(m)
    <2>1. Data(Slot(m)) \in Locations
      BY <1>3, PlacesType
    <2>2. CASE Data(Slot(m)) = Op(n, x)[1]
      <3>1. m = n /\ x \in {1, 2}
        BY <1>4, <1>6, <2>2
      <3>2. CASE m \in Big
        <4>1. x = 1
          BY <1>1, <3>1, <3>2 DEF Issued
        <4>2. QED
          BY <1>5, <2>1, <2>2, <3>1, <3>2, <4>1, OpIs DEF Content
      <3>3. CASE m \notin Big /\ x = 1
        <4>1. Before(n, x, m, 2)
          BY <3>1, <3>3 DEF Before
        <4>2. QED
          BY <1>1, <1>8, <3>1, <3>3, <4>1, Numbers
      <3>4. CASE m \notin Big /\ x = 2
        BY <1>5, <2>1, <2>2, <3>1, <3>4, OpIs DEF Content
      <3>5. QED
        BY <3>1, <3>2, <3>3, <3>4
    <2>3. CASE Data(Slot(m)) # Op(n, x)[1]
      <3>1. ~(m = n /\ x \in {1, 2})
        BY <2>3, OpIs
      <3>2. Done(m, IF m \in Big THEN 1 ELSE 2)
        BY <1>1, <1>8, <3>1, Numbers
      <3>3. QED
        BY <1>5, <2>1, <2>3, <3>2 DEF MemInv, MemData
    <2>4. QED
      BY <2>2, <2>3
  <1>9. ASSUME NEW m \in Window, NEW r \in Local
        PROVE  /\ m <= Count(r) => Done(m, Mark)'
               /\ m <= Seen(r) => mem'[Read(Slot(m), r)] = 1
               /\ m > Seen(r) /\ Done(m, 2 + r)' => mem'[Read(Slot(m), r)] = 0
               /\ m > Seen(r) /\ ~Done(m, 2 + r)' =>
                     mem'[Read(Slot(m), r)] = IF m <= MaxChunks THEN 0 ELSE 1
    <2>1. Read(Slot(m), r) \in Locations /\ 2 + r \in 0..Mark /\ Mark \in 0..Mark
      BY <1>3, PlacesType, Numbers
    <2>2. m <= Count(r) => Done(m, Mark)'
      BY <1>1, <2>1 DEF MemInv, MemRead
    <2>3. CASE Read(Slot(m), r) = Op(n, x)[1]
      <3>1. m = n /\ x = 2 + r
        BY <1>4, <1>6, <2>3
      <3>2. mem'[Read(Slot(m), r)] = 0
        BY <1>5, <2>1, <2>3, <3>1, OpIs
      <3>3. Before(n, x, m, Mark)
        BY <3>1, Numbers DEF Before
      <3>4. ~(m <= Count(r))
        BY <1>1, <2>1, <3>3 DEF MemInv, MemRead
      <3>5. QED
        BY <1>1, <1>3, <2>1, <2>2, <3>1, <3>2, <3>4, Types
    <2>4. CASE Read(Slot(m), r) # Op(n, x)[1]
      <3>1. ~(m = n /\ x = 2 + r)
        BY <2>4, OpIs
      <3>2. Done(m, 2 + r)' <=> Done(m, 2 + r)
        BY <1>1, <2>1, <3>1
      <3>3. QED
        BY <1>5, <2>1, <2>2, <2>4, <3>2 DEF MemInv, MemRead
    <2>5. QED
      BY <2>3, <2>4
  <1>10. ASSUME NEW c \in Chunks, c >= items
         PROVE  /\ mem'[Written(c)] = 0
                /\ \A r \in Local : mem'[Read(c, r)] = 0
    <2>1. Slot(n) # c
      BY <1>3, <1>10, UnusedSlot, Types
    <2>2. QED
      BY <1>4, <1>5, <1>10, <2>1, PlacesType DEF MemInv, MemUnused
  <1>11. MemInv'
    BY <1>3, <1>7, <1>8, <1>9, <1>10 DEF MemInv, MemWritten, MemData, MemRead, MemUnused
  <1>12. ASSUME NEW c \in Chunks, NEW r \in Local, mem[Read(c, r)] = 0
         PROVE  mem'[Read(c, r)] = 0
    <2>1. Read(c, r) = Op(n, x)[1] => x = 2 + r
      BY <1>4
    <2>2. ASSUME Read(c, r) = Op(n, x)[1] PROVE Op(n, x)[2] = 0
      <3>1. Op(n, 2 + r) = <<Read(Slot(n), r), 0>>
        BY OpIs
      <3>2. QED
        BY <2>1, <2>2, <3>1
    <2>3. QED
      BY <1>5, <1>12, <2>2, PlacesType
  <1>13. QED
    BY <1>1, <1>2, <1>11, <1>12

(* Memory is as it was, and so is what is done of the window. *)
LEMMA SameMemory ==
    ASSUME MemInv, mem' = mem, items' = items,
           \A n \in Window : \A x \in 0..Mark : Done(n, x)' <=> Done(n, x),
           \A r \in Local : Count(r)' = Count(r) /\ Seen(r)' = Seen(r)
    PROVE  MemInv'
  <1>1. Window' = Window
    BY DEF Window
  <1>2. 0 \in 0..Mark /\ 1 \in 0..Mark /\ 2 \in 0..Mark /\ Mark \in 0..Mark
        /\ \A r \in Local : 2 + r \in 0..Mark
    BY Numbers
  <1>3. MemWritten'
    BY <1>1, <1>2 DEF MemInv, MemWritten
  <1>4. MemData'
    BY <1>1, <1>2 DEF MemInv, MemData
  <1>5. MemRead'
    BY <1>1, <1>2 DEF MemInv, MemRead
  <1>6. MemUnused'
    BY DEF MemInv, MemUnused
  <1>7. QED
    BY <1>3, <1>4, <1>5, <1>6 DEF MemInv

(* A step of the writer leaves the readers where they are. *)
LEMMA SameReaders ==
    ASSUME ShmTypeOK, ReaderInv, UNCHANGED <<rd, ridx, obj, got>>,
           \A r \in Local : stores'[r] = stores[r],
           sent' \in Nat, sent' >= sent, items' \in Nat, items' >= items,
           \A r \in Local : Seen(r) + MaxChunks >= items',
           \A c \in Chunks : \A r \in Local : mem[Read(c, r)] = 0 => mem'[Read(c, r)] = 0,
           \A n \in Window' : Done(n, Mark) /\ n <= items => Done(n, Mark)'
    PROVE  ReaderInv' /\ \A r \in Local : Count(r)' = Count(r) /\ Seen(r)' = Seen(r)
  <1>1. \A r \in Local : Count(r)' = Count(r) /\ Seen(r)' = Seen(r)
    BY DEF Count, Seen
  <1>2. ASSUME NEW r \in Local
        PROVE  /\ Count(r) <= sent'
               /\ Len(stores[r]) <= Count(r)
               /\ Seen(r) + MaxChunks >= items'
               /\ ridx[r] = Slot(Count(r) + 1)
               /\ \A i \in DOMAIN stores[r] : stores[r][i] = <<Read(Slot(Seen(r) + i), r), 1>>
               /\ rd[r] = "recv" => Count(r) \in Big
               /\ rd[r] \in {"unread", "acquired", "read"} =>
                     /\ mem'[Read(ridx[r], r)] = 0
                     /\ Count(r) < items' \/ Count(r) < MaxChunks
               /\ rd[r] \in {"acquired", "read"} =>
                     Count(r) < items' /\ Done(Count(r) + 1, Mark)'
               /\ rd[r] = "read" => obj[r] = Content(Count(r) + 1)
    <2>1. Count(r) \in Nat /\ Seen(r) \in Int /\ Seen(r) <= Count(r)
          /\ items \in Nat /\ sent \in Nat /\ ridx[r] \in Chunks
      BY Types DEF ShmTypeOK
    <2>2. Count(r) < items => Count(r) + 1 \in Window' /\ Count(r) + 1 <= items
      BY <2>1 DEF Window
    <2>3. /\ Count(r) <= sent' /\ Len(stores[r]) <= Count(r)
          /\ Seen(r) + MaxChunks >= items' /\ ridx[r] = Slot(Count(r) + 1)
          /\ \A i \in DOMAIN stores[r] : stores[r][i] = <<Read(Slot(Seen(r) + i), r), 1>>
          /\ rd[r] = "recv" => Count(r) \in Big
          /\ rd[r] = "read" => obj[r] = Content(Count(r) + 1)
      BY <2>1 DEF ReaderInv, ReaderIs
    <2>4. rd[r] \in {"unread", "acquired", "read"} =>
              /\ mem'[Read(ridx[r], r)] = 0
              /\ Count(r) < items' \/ Count(r) < MaxChunks
      BY <2>1 DEF ReaderInv, ReaderIs
    <2>5. rd[r] \in {"acquired", "read"} =>
              Count(r) < items' /\ Done(Count(r) + 1, Mark)'
      <3> SUFFICES ASSUME rd[r] \in {"acquired", "read"}
                   PROVE  Count(r) < items' /\ Done(Count(r) + 1, Mark)'
        OBVIOUS
      <3>1. Count(r) < items /\ Done(Count(r) + 1, Mark)
        BY DEF ReaderInv, ReaderIs
      <3>2. PICK k \in Window' : k = Count(r) + 1
        BY <2>1, <2>2, <3>1
      <3>3. Done(k, Mark)'
        BY <2>2, <3>1, <3>2
      <3>4. k = (Count(r) + 1)'
        BY <1>1, <3>2
      <3>5. QED
        BY <2>1, <3>1, <3>3, <3>4
    <2>6. QED
      BY <2>3, <2>4, <2>5
  <1>3. ReaderInv'
    BY <1>1, <1>2 DEF ReaderInv, ReaderIs
  <1>4. QED
    BY <1>1, <1>3

(* A store of the writer into the chunk it has acquired. *)
LEMMA BusyStore ==
    ASSUME ShmTypeOK, WriterInv, BufferInv, MemInv, ReaderInv, Busy,
           items' = items, Pos \in 0..Mark, ~(Pos = 2 /\ items \in Big),
           Pos' \in Nat, Pos' > Pos,
           \A x \in 0..Mark : Pos < x /\ x < Pos' => x = 2 /\ items \in Big,
           stores' = [stores EXCEPT ![Writer] = Append(@, Op(items, Pos))],
           UNCHANGED <<mem, rd, ridx, obj, got>>, sent' \in Nat, sent' >= sent
    PROVE  BufferInv' /\ MemInv' /\ ReaderInv'
  <1>1. items \in Window /\ Window' = Window
    BY Types DEF WriterInv, Window
  <1>2. /\ stores'[Writer] = Append(stores[Writer], Op(items, Pos))
        /\ \A r \in Local : stores'[r] = stores[r]
    BY DEF ShmTypeOK, Procs, Writer, Local
  <1>3. \A n \in Window' : \A x \in 0..Mark :
            Issued(n, x)' <=> (n \in Window /\ Issued(n, x)) \/ (n = items /\ x = Pos)
    BY <1>1, Types DEF Issued
  <1>4. \A n \in Window : \A x \in 0..Mark : Issued(n, x) => Before(n, x, items, Pos)
    BY <1>1, Types DEF Issued, Before, Window
  <1>5. /\ BufferInv'
        /\ \A n \in Window' : \A x \in 0..Mark :
                 Done(n, x)' <=> n \in Window /\ Done(n, x)
    <2> DEFINE N0 == items
               X0 == Pos
    <2>1. /\ items \in 0..MaxItems /\ items' \in 0..MaxItems
          /\ stores[Writer] \in Seq(Locations \X (0..Torn))
          /\ N0 \in Window' /\ X0 \in 0..Mark
          /\ stores'[Writer] = Append(stores[Writer], Op(N0, X0))
          /\ Window' \subseteq Window \cup {N0}
          /\ \A n \in Window' : \A x \in 0..Mark :
               Issued(n, x)' <=> (n \in Window /\ Issued(n, x)) \/ (n = N0 /\ x = X0)
          /\ \A n \in Window : \A x \in 0..Mark : Issued(n, x) => Before(n, x, N0, X0)
          /\ \A n \in Window \ Window' : \A x \in 0..Mark : Issued(n, x) => ~Pending(n, x)
      BY <1>1, <1>2, <1>3, <1>4, Types
    <2> HIDE DEF N0, X0
    <2>2. QED
      BY <2>1, NextStore
  <1>6. /\ ReaderInv'
        /\ \A r \in Local : Count(r)' = Count(r) /\ Seen(r)' = Seen(r)
    <2>1. \A r \in Local : Seen(r) + MaxChunks >= items'
      BY DEF ReaderInv, ReaderIs
    <2>2. QED
      BY <1>1, <1>2, <1>5, <2>1, SameReaders, Types, Numbers
  <1>7. MemInv'
    BY <1>1, <1>5, <1>6, SameMemory
  <1>8. QED
    BY <1>5, <1>6, <1>7

-----------------------------------------------------------------------------
(* Loads, and the writer that takes a chunk again.                         *)

(* A process sees its own last store to a location ... *)
LEMMA LoadOwn ==
    ASSUME NEW p, NEW l, DOMAIN stores[p] \subseteq Nat, NEW i \in DOMAIN stores[p],
           stores[p][i][1] = l, \A j \in DOMAIN stores[p] : stores[p][j][1] = l => j <= i
    PROVE  Load(p, l) = stores[p][i][2]
  <1> DEFINE mine == {j \in DOMAIN stores[p] : stores[p][j][1] = l}
             k == CHOOSE j \in mine : \A h \in mine : h <= j
  <1>1. i \in mine /\ \A h \in mine : h <= i
    OBVIOUS
  <1>2. k \in mine /\ \A h \in mine : h <= k
    BY <1>1
  <1>3. k = i
    <2>1. k <= i /\ i <= k /\ k \in Nat /\ i \in Nat
      BY <1>1, <1>2
    <2> HIDE DEF k
    <2>2. QED
      BY <2>1
  <1>4. mine # {} /\ Load(p, l) = stores[p][k][2]
    BY <1>1 DEF Load
  <1>5. QED
    BY <1>3, <1>4

(* ... and memory where it has none. *)
LEMMA LoadMemory ==
    ASSUME NEW p, NEW l, \A j \in DOMAIN stores[p] : stores[p][j][1] # l
    PROVE  Load(p, l) = mem[l]
  BY DEF Load

(* What the writer loads of a chunk whose object it has finished. *)
LEMMA WriterLoads ==
    ASSUME ShmTypeOK, BufferInv, MemInv, NEW p \in Window,
           \A x \in 0..Mark : ~(x = 2 /\ p \in Big) => Issued(p, x)
    PROVE  /\ Load(Writer, Written(Slot(p))) = 1
           /\ \A r \in Local : Load(Writer, Read(Slot(p), r)) = 1 => p <= Seen(r)
  <1> DEFINE B == stores[Writer]
  <1>1. DOMAIN B = 1..Len(B) /\ Len(B) \in Nat /\ DOMAIN B \subseteq Nat
    BY Types
  <1>2. p \in Nat /\ Mark \in 0..Mark /\ 0 \in 0..Mark /\ Issued(p, 0) /\ Issued(p, Mark)
        /\ \A r \in Local : 2 + r \in 0..Mark /\ Issued(p, 2 + r)
    BY Numbers DEF Window
  <1> HIDE DEF B
  <1>3. ASSUME NEW j \in DOMAIN B, NEW l, B[j][1] = l
        PROVE  /\ l = Written(Slot(p)) => B[j] = Op(p, 0) \/ B[j] = Op(p, Mark)
               /\ \A r \in Local : l = Read(Slot(p), r) => B[j] = Op(p, 2 + r)
    <2>1. PICK m \in Window, y \in 0..Mark : B[j] = Op(m, y)
      BY DEF BufferInv, B
    <2>2. ASSUME l = Written(Slot(p)) PROVE m = p /\ y \in {0, Mark}
      <3>1. Op(m, y)[1] = Written(Slot(p))
        BY <1>3, <2>1, <2>2
      <3>2. Slot(m) = Slot(p) /\ y \in {0, Mark}
        BY ONLY <3>1, OpPlace, y \in 0..Mark
      <3>3. QED
        BY <3>2, WindowIs, Types
    <2>3. ASSUME NEW r \in Local, l = Read(Slot(p), r) PROVE m = p /\ y = 2 + r
      <3>1. Op(m, y)[1] = Read(Slot(p), r)
        BY <1>3, <2>1, <2>3
      <3>2. Slot(m) = Slot(p) /\ y = 2 + r
        BY ONLY <3>1, OpPlace, y \in 0..Mark, r \in Local
      <3>3. QED
        BY <3>2, WindowIs, Types
    <2>4. QED
      BY <2>1, <2>2, <2>3
  <1>4. Load(Writer, Written(Slot(p))) = 1
    <2>1. CASE Pending(p, Mark)
      <3>1. PICK i \in DOMAIN B : B[i] = Op(p, Mark)
        BY <2>1 DEF Pending, B
      <3>2. B[i][1] = Written(Slot(p)) /\ B[i][2] = 1
        BY <3>1, OpIs
      <3>3. ASSUME NEW j \in DOMAIN B, B[j][1] = Written(Slot(p)), j > i PROVE FALSE
        <4>1. PICK y \in {0, Mark} : B[j] = Op(p, y)
          BY <1>3, <3>3
        <4>2. Before(p, Mark, p, y)
          BY <1>1, <1>2, <3>1, <3>3, <4>1 DEF BufferInv, B
        <4>3. QED
          BY <1>2, <4>1, <4>2, Numbers DEF Before
      <3>4. \A j \in DOMAIN B : B[j][1] = Written(Slot(p)) => j <= i
        BY <1>1, <3>3
      <3>5. QED
        BY <1>1, <3>2, <3>4, LoadOwn DEF B
    <2>2. CASE ~Pending(p, Mark)
      <3>1. Done(p, Mark) /\ mem[Written(Slot(p))] = 1
        BY <1>2, <2>2 DEF Done, MemInv, MemWritten
      <3>2. ~Pending(p, 0)
        BY <1>2, <2>2, Numbers DEF BufferInv, Before
      <3>3. ASSUME NEW j \in DOMAIN B PROVE B[j][1] # Written(Slot(p))
        BY <1>3, <2>2, <3>2 DEF Pending, B
      <3>4. QED
        BY <3>1, <3>3, LoadMemory DEF B
    <2>3. QED
      BY <2>1, <2>2
  <1>5. ASSUME NEW r \in Local, Load(Writer, Read(Slot(p), r)) = 1
        PROVE  p <= Seen(r)
    <2>1. ~Pending(p, 2 + r)
      <3> SUFFICES ASSUME Pending(p, 2 + r) PROVE FALSE
        OBVIOUS
      <3>1. PICK i \in DOMAIN B : B[i] = Op(p, 2 + r)
        BY DEF Pending, B
      <3>2. B[i][1] = Read(Slot(p), r) /\ B[i][2] = 0
        BY <3>1, OpIs
      <3>3. ASSUME NEW j \in DOMAIN B, B[j][1] = Read(Slot(p), r), j > i PROVE FALSE
        <4>1. B[j] = Op(p, 2 + r)
          BY <1>3, <3>3
        <4>2. Before(p, 2 + r, p, 2 + r)
          BY <1>1, <1>2, <3>1, <3>3, <4>1 DEF BufferInv, B
        <4>3. QED
          BY <1>2, <4>2 DEF Before
      <3>4. \A j \in DOMAIN B : B[j][1] = Read(Slot(p), r) => j <= i
        BY <1>1, <3>3
      <3>5. Load(Writer, Read(Slot(p), r)) = 0
        BY <1>1, <3>2, <3>4, LoadOwn DEF B
      <3>6. QED
        BY <1>5, <3>5
    <2>2. \A j \in DOMAIN B : B[j][1] # Read(Slot(p), r)
      BY <1>3, <2>1 DEF Pending, B
    <2>3. mem[Read(Slot(p), r)] = 1
      BY <1>5, <2>2, LoadMemory DEF B
    <2>4. Done(p, 2 + r)
      BY <1>2, <2>1 DEF Done
    <2>5. QED
      BY SMTT(30), <1>2, <2>3, <2>4, Types DEF MemInv, MemRead
  <1>6. QED
    BY <1>4, <1>5

(* The writer begins an object: the one that was in its chunk is read by   *)
(* all, so that nothing of it is pending or looked at any more.            *)
LEMMA Acquires ==
    ASSUME ShmTypeOK, WriterInv, BufferInv, MemInv, ReaderInv, AcquireWrite
    PROVE  BufferInv' /\ MemInv' /\ ReaderInv'
  <1>n. PICK n0 \in Nat \ {0} : n0 = items + 1
    BY Types
  <1>p. PICK p \in Int : p = n0 - MaxChunks
    OBVIOUS
  <1>1. /\ w = "idle" /\ w' = "fill" /\ items' = n0 /\ items < MaxItems
        /\ widx = Slot(n0) /\ sent' = sent /\ sent = items
        /\ UNCHANGED <<mem, rd, ridx, obj, got>>
    BY <1>n DEF AcquireWrite, WriterInv, Busy, readerVars
  <1>2. /\ items \in 0..MaxItems /\ n0 \in 1..MaxItems /\ items \in Nat /\ n0 \in Nat \ {0}
        /\ Pos = Mark + 1 /\ Pos' = 1
    BY <1>1, <1>n, Types DEF Pos
  <1>3. /\ stores'[Writer] = Append(stores[Writer], Op(n0, 0))
        /\ \A r \in Local : stores'[r] = stores[r]
    <2>1. stores' = [stores EXCEPT ![Writer] = Append(@, <<Written(widx), 0>>)]
      BY DEF AcquireWrite, Store
    <2>2. Op(n0, 0) = <<Written(widx), 0>>
      BY <1>1, OpIs
    <2>3. QED
      BY <2>1, <2>2 DEF ShmTypeOK, Procs, Writer, Local
  <1>4. \A m \in Window : \A x \in 0..Mark : Issued(m, x) <=> ~(x = 2 /\ m \in Big)
    BY <1>2, Numbers DEF Issued
  <1>5. ASSUME n0 > MaxChunks
        PROVE  /\ p \in Window /\ Slot(p) = Slot(n0)
               /\ \A r \in Local : p <= Seen(r)
               /\ \A x \in 0..Mark : ~Pending(p, x)
    <2>1. p \in Window /\ p \in Nat \ {0}
      BY <1>n, <1>p, <1>2, <1>5 DEF Window
    <2>2. Slot(p) = Slot(n0)
      <3>1. n0 = p + MaxChunks
        BY <1>p
      <3>2. QED
        BY <2>1, <3>1, SlotCycle
    <2>3. \A x \in 0..Mark : ~(x = 2 /\ p \in Big) => Issued(p, x)
      BY <1>4, <2>1
    <2>4. /\ Load(Writer, Written(widx)) = 1
          /\ \A r \in Local : Load(Writer, Read(widx, r)) = 1 => p <= Seen(r)
      BY <1>1, <2>1, <2>2, <2>3, WriterLoads
    <2>5. ReadCount = NLocal
      BY <2>4 DEF AcquireWrite
    <2>6. {r \in Local : Load(Writer, Read(widx, r)) = 1} = Local
      <3> DEFINE R == {r \in Local : Load(Writer, Read(widx, r)) = 1}
      <3>1. IsFiniteSet(Local) /\ Cardinality(Local) = NLocal
        <4>1. Cardinality(1..NLocal) = NLocal /\ IsFiniteSet(1..NLocal)
          <5>1. \A a, b \in Int : IsFiniteSet(a..b)
                    /\ Cardinality(a..b) = IF a > b THEN 0 ELSE b - a + 1
            BY FS_Interval
          <5>2. QED
            BY <5>1
        <4>2. QED
          BY <4>1 DEF Local
      <3>2. R \subseteq Local /\ Cardinality(R) = NLocal
        BY <2>5 DEF ReadCount
      <3>3. R = Local
        BY <3>1, <3>2, FS_Subset
      <3>4. QED
        BY <3>3
    <2>7. \A r \in Local : p <= Seen(r)
      BY <2>4, <2>6
    <2>8. Done(p, Mark)
      <3>1. PICK r : r \in Local
        BY DEF Local
      <3>2. p <= Count(r)
        BY <2>1, <2>7, <3>1, Types
      <3>3. QED
        BY <2>1, <3>1, <3>2 DEF MemInv, MemRead
    <2>9. ASSUME NEW x \in 0..Mark, Pending(p, x) PROVE FALSE
      <3>1. ~Pending(p, Mark) /\ Issued(p, Mark)
        BY <2>8 DEF Done
      <3>2. Issued(p, x)
        BY <1>2, <2>1, <2>9, PendingIssued
      <3>3. x # Mark => Before(p, x, p, Mark)
        BY <2>1, Numbers DEF Before
      <3>4. QED
        BY <2>1, <2>9, <3>1, <3>2, <3>3, Numbers DEF BufferInv
    <2>10. QED
      BY <2>1, <2>2, <2>7, <2>9
  <1>6. /\ n0 \in Window' /\ n0 \notin Window
        /\ Window' \subseteq Window \cup {n0}
        /\ \A m \in Window \ Window' : m = p /\ n0 > MaxChunks
    BY <1>n, <1>p, <1>1, <1>2 DEF Window
  <1>7. \A m \in Window' : \A x \in 0..Mark :
            Issued(m, x)' <=> (m \in Window /\ Issued(m, x)) \/ (m = n0 /\ x = 0)
    <2>1. \A m \in Window' : m = n0 \/ (m \in Window /\ m # n0)
      BY <1>6
    <2>2. \A x \in 0..Mark : Issued(n0, x)' <=> x = 0
      BY <1>1, <1>2, Numbers DEF Issued
    <2>3. \A m \in Window : m # n0 => \A x \in 0..Mark : Issued(m, x)' <=> ~(x = 2 /\ m \in Big)
      BY <1>1, <1>2 DEF Issued
    <2>4. QED
      BY <1>4, <1>6, <2>1, <2>2, <2>3
  <1>8. \A m \in Window : m \in Nat /\ m < n0
    BY <1>n, <1>2 DEF Window
  <1>9. \A m \in Window : \A x \in 0..Mark : Issued(m, x) => Before(m, x, n0, 0)
    BY <1>8 DEF Before
  <1>10. /\ BufferInv'
         /\ \A m \in Window' : \A x \in 0..Mark :
                 Done(m, x)' <=> m \in Window /\ Done(m, x)
    <2>1. \A m \in Window \ Window' : \A x \in 0..Mark : Issued(m, x) => ~Pending(m, x)
      BY <1>5, <1>6
    <2>2. items \in 0..MaxItems /\ items' \in 0..MaxItems /\ 0 \in 0..Mark
          /\ stores[Writer] \in Seq(Locations \X (0..Torn))
      BY <1>1, <1>2, Types, Numbers
    <2>3. QED
      BY <1>3, <1>6, <1>7, <1>9, <2>1, <2>2, NextStore
  <1>11. \A r \in Local : Seen(r) + MaxChunks >= n0
    <2>1. CASE n0 > MaxChunks
      BY <1>2, <1>5, <2>1, <1>p, Types
    <2>2. CASE n0 <= MaxChunks
      <3>1. \A r \in Local : Seen(r) >= 0
        BY Types DEF ReaderInv, ReaderIs, Seen
      <3>2. QED
        BY <1>2, <2>2, <3>1, Types
    <2>3. QED
      BY <1>2, <2>1, <2>2
  <1>12. /\ ReaderInv'
         /\ \A r \in Local : Count(r)' = Count(r) /\ Seen(r)' = Seen(r)
    <2>1. \A m \in Window' : Done(m, Mark) /\ m <= items => Done(m, Mark)'
      <3>1. \A m \in Window' : m <= items => m \in Window
        BY <1>n, <1>2, <1>6
      <3>2. QED
        BY <1>10, <3>1, Numbers
    <2>2. sent' \in Nat /\ sent' >= sent /\ items' \in Nat /\ items' >= items
      BY <1>1, <1>2, <1>n, Types
    <2>3. QED
      BY <1>1, <1>3, <1>11, <2>1, <2>2, SameReaders
  <1>13. MemInv'
    <2>1. \A m \in Window' : m = n0 \/ m \in Window
      BY <1>6
    <2>2. 0 \in 0..Mark /\ 1 \in 0..Mark /\ 2 \in 0..Mark /\ Mark \in 0..Mark
          /\ \A r \in Local : 2 + r \in 0..Mark
      BY Numbers
    <2>3. \A x \in 0..Mark : ~Done(n0, x)'
      BY <1>6, <1>10
    <2>4. n0 <= MaxChunks => Slot(n0) \in Chunks /\ Slot(n0) >= items
      BY <1>2, SlotSmall, SlotType, <1>n
    <2>5. ASSUME NEW r \in Local
          PROVE  /\ n0 > Count(r) /\ n0 > Seen(r)
                 /\ n0 > MaxChunks => mem[Read(Slot(n0), r)] = 1
      <3>1. Count(r) <= items /\ Seen(r) <= Count(r) /\ Count(r) \in Nat /\ Seen(r) \in Int
        BY <1>1, Types DEF ReaderInv, ReaderIs
      <3>2. ASSUME n0 > MaxChunks PROVE mem[Read(Slot(n0), r)] = 1
        <4>1. p \in Window /\ p <= Seen(r) /\ Slot(p) = Slot(n0)
          BY <1>5, <3>2
        <4>2. mem[Read(Slot(p), r)] = 1
          BY <4>1 DEF MemInv, MemRead
        <4>3. QED
          BY <4>1, <4>2
      <3>3. QED
        BY <1>2, <3>1, <3>2, <1>n
    <2>6. MemWritten'
      <3>1. ASSUME NEW m \in Window'
            PROVE  /\ Done(m, Mark)' => mem[Written(Slot(m))] = 1
                   /\ Done(m, 0)' /\ ~Done(m, Mark)' => mem[Written(Slot(m))] = 0
                   /\ ~Done(m, 0)' /\ m <= MaxChunks => mem[Written(Slot(m))] = 0
        <4>1. CASE m = n0
          BY <2>2, <2>3, <2>4, <4>1 DEF MemInv, MemUnused
        <4>2. CASE m \in Window
          BY <1>10, <2>2, <4>2 DEF MemInv, MemWritten
        <4>3. QED
          BY <2>1, <4>1, <4>2
      <3>2. QED
        BY <1>1, <3>1 DEF MemWritten
    <2>7. MemData'
      <3>1. ASSUME NEW m \in Window', Done(m, IF m \in Big THEN 1 ELSE 2)'
            PROVE  mem[Data(Slot(m))] = Content(m)
        <4>1. m \in Window /\ Done(m, IF m \in Big THEN 1 ELSE 2)
          BY <1>10, <2>2, <3>1
        <4>2. QED
          BY <4>1 DEF MemInv, MemData
      <3>2. QED
        BY <1>1, <3>1 DEF MemData
    <2>8. MemRead'
      <3>1. ASSUME NEW m \in Window', NEW r \in Local
            PROVE  /\ m <= Count(r) => Done(m, Mark)'
                   /\ m <= Seen(r) => mem[Read(Slot(m), r)] = 1
                   /\ m > Seen(r) /\ Done(m, 2 + r)' => mem[Read(Slot(m), r)] = 0
                   /\ m > Seen(r) /\ ~Done(m, 2 + r)' =>
                         mem[Read(Slot(m), r)] = IF m <= MaxChunks THEN 0 ELSE 1
        <4>1. CASE m = n0
          <5>1. Count(r) \in Nat /\ Seen(r) \in Int /\ n0 \in Nat
            BY <1>2, Types
          <5>2. ~(n0 <= Count(r)) /\ ~(n0 <= Seen(r))
            BY <5>1, <2>5
          <5>3. n0 <= MaxChunks => mem[Read(Slot(n0), r)] = 0
            BY <2>4 DEF MemInv, MemUnused
          <5>4. n0 <= MaxChunks \/ n0 > MaxChunks
            BY <5>1
          <5>5. QED
            BY <2>2, <2>3, <2>5, <4>1, <5>2, <5>3, <5>4
        <4>2. CASE m \in Window
          BY <1>10, <2>2, <4>2 DEF MemInv, MemRead
        <4>3. QED
          BY <2>1, <4>1, <4>2
      <3>2. QED
        BY <1>1, <1>12, <3>1 DEF MemRead
    <2>9. MemUnused'
      BY <1>1, <1>2, <1>n DEF MemInv, MemUnused, Chunks
    <2>10. QED
      BY <2>6, <2>7, <2>8, <2>9 DEF MemInv
  <1>14. QED
    BY <1>10, <1>12, <1>13

-----------------------------------------------------------------------------
(* What a reader loads, and its steps.                                     *)

(* The objects whose mark is in the reader's own buffer. *)
LEMMA OwnMarks ==
    ASSUME ShmTypeOK, WriterInv, ReaderInv, NEW r \in Local
    PROVE  /\ Seen(r) \in Nat /\ Count(r) \in Nat /\ Count(r) = Seen(r) + Len(stores[r])
           /\ sent <= items /\ Count(r) <= items /\ Count(r) <= Seen(r) + MaxChunks
           /\ DOMAIN stores[r] = 1..Len(stores[r]) /\ Len(stores[r]) \in Nat
           /\ \A i \in 1..Len(stores[r]) :
                 stores[r][i] = <<Read(Slot(Seen(r) + i), r), 1>>
           /\ \A i, j \in 1..Len(stores[r]) :
                 stores[r][i][1] = stores[r][j][1] => i = j
  <1>1. /\ Seen(r) \in Nat /\ Count(r) \in Nat /\ Count(r) = Seen(r) + Len(stores[r])
        /\ DOMAIN stores[r] = 1..Len(stores[r]) /\ Len(stores[r]) \in Nat
    BY SMTT(30), Types DEF ReaderInv, ReaderIs, Seen
  <1>2. sent <= items
    BY Types DEF WriterInv
  <1>3. Count(r) <= items /\ Count(r) <= Seen(r) + MaxChunks
    BY <1>1, <1>2, Types DEF ReaderInv, ReaderIs
  <1>4. \A i \in 1..Len(stores[r]) : stores[r][i] = <<Read(Slot(Seen(r) + i), r), 1>>
    BY <1>1 DEF ReaderInv, ReaderIs
  <1>5. ASSUME NEW i \in 1..Len(stores[r]), NEW j \in 1..Len(stores[r]),
               stores[r][i][1] = stores[r][j][1]
        PROVE  i = j
    <2>1. Slot(Seen(r) + i) = Slot(Seen(r) + j)
      BY <1>4, <1>5, Places
    <2>2. PICK n \in Nat \ {0}, m \in Nat \ {0} : n = Seen(r) + i /\ m = Seen(r) + j
      BY <1>1
    <2>3. Near(n, m)
      BY SMTT(30), <1>1, <1>3, <2>2 DEF Near
    <2>4. n = m
      BY <2>1, <2>2, <2>3, SlotSame
    <2>5. QED
      BY <1>1, <2>2, <2>4
  <1>6. QED
    BY <1>1, <1>2, <1>3, <1>4, <1>5

(* A reader sees of the others' flags and of the data what memory holds; a *)
(* 0 in its own flag is in memory, and the chunk is not the one of an      *)
(* object it has read.                                                     *)
LEMMA ReaderLoads ==
    ASSUME ShmTypeOK, WriterInv, MemInv, ReaderInv, NEW r \in Local
    PROVE  /\ \A c : Load(r, Written(c)) = mem[Written(c)] /\ Load(r, Data(c)) = mem[Data(c)]
           /\ Load(r, Read(ridx[r], r)) = 0 =>
                 /\ mem[Read(ridx[r], r)] = 0
                 /\ Count(r) < items \/ Count(r) < MaxChunks
  <1> DEFINE l == Read(ridx[r], r)
  <1>1. ASSUME NEW c
        PROVE  Load(r, Written(c)) = mem[Written(c)] /\ Load(r, Data(c)) = mem[Data(c)]
    <2>1. \A i \in DOMAIN stores[r] :
             stores[r][i][1] # Written(c) /\ stores[r][i][1] # Data(c)
      <3>1. ASSUME NEW i \in 1..Len(stores[r])
            PROVE  stores[r][i][1] # Written(c) /\ stores[r][i][1] # Data(c)
        <4>1. stores[r][i] = <<Read(Slot(Seen(r) + i), r), 1>>
          BY OwnMarks
        <4>2. QED
          BY <4>1, Places
      <3>2. QED
        BY <3>1, OwnMarks
    <2>2. QED
      BY <2>1, LoadMemory
  <1>2. ASSUME Load(r, l) = 0
        PROVE  mem[l] = 0 /\ (Count(r) < items \/ Count(r) < MaxChunks)
    <2>1. ASSUME NEW i \in DOMAIN stores[r], stores[r][i][1] = l PROVE FALSE
      <3>1. \A j \in DOMAIN stores[r] : stores[r][j][1] = l => j <= i
        <4>1. i \in 1..Len(stores[r]) /\ DOMAIN stores[r] = 1..Len(stores[r])
          BY <2>1, OwnMarks
        <4>2. \A j \in 1..Len(stores[r]) : stores[r][j][1] = stores[r][i][1] => j = i
          BY <4>1, OwnMarks
        <4>3. QED
          BY <2>1, <4>1, <4>2
      <3>2. DOMAIN stores[r] \subseteq Nat /\ stores[r][i][2] = 1
        <4>1. DOMAIN stores[r] = 1..Len(stores[r])
          BY OwnMarks
        <4>2. stores[r][i] = <<Read(Slot(Seen(r) + i), r), 1>>
          BY <2>1, <4>1, OwnMarks
        <4>3. QED
          BY <4>1, <4>2
      <3>3. Load(r, l) = 1
        BY <2>1, <3>1, <3>2, LoadOwn
      <3>4. QED
        BY <1>2, <3>3
    <2>2. mem[l] = 0
      BY <1>2, <2>1, LoadMemory
    <2>3. ASSUME ~(Count(r) < items \/ Count(r) < MaxChunks) PROVE FALSE
      <3>1. Count(r) = items /\ items >= MaxChunks /\ items \in Nat
        BY <2>3, OwnMarks, Types
      <3>2. PICK q \in Nat \ {0} : q = items + 1 - MaxChunks
        BY <3>1
      <3>3. q \in Window
        BY <3>1, <3>2 DEF Window
      <3>4. Slot(q) = ridx[r]
        <4>1. q + MaxChunks = Count(r) + 1
          BY <3>1, <3>2
        <4>2. Slot(q + MaxChunks) = Slot(q)
          BY SlotCycle
        <4>3. QED
          BY <4>1, <4>2 DEF ReaderInv, ReaderIs
      <3>5. CASE q <= Seen(r)
        BY <2>2, <3>3, <3>4, <3>5 DEF MemInv, MemRead
      <3>6. CASE q > Seen(r)
        <4>1. PICK i \in Nat : i = q - Seen(r)
          BY <3>6, OwnMarks
        <4>2. i \in 1..Len(stores[r]) /\ Seen(r) + i = q
          BY <3>1, <3>2, <3>6, <4>1, OwnMarks
        <4>3. stores[r][i] = <<Read(Slot(q), r), 1>> /\ i \in DOMAIN stores[r]
          BY <4>2, OwnMarks
        <4>4. QED
          BY <2>1, <3>4, <4>3
      <3>7. QED
        BY <3>2, <3>5, <3>6, OwnMarks
    <2>4. QED
      BY <2>2, <2>3
  <1>3. QED
    BY <1>1, <1>2

(* A written flag that a reader sees after its own flag was 0 is that of   *)
(* the object it reads next.                                               *)
LEMMA SeesWritten ==
    ASSUME ShmTypeOK, WriterInv, BufferInv, MemInv, ReaderInv, NEW r \in Local,
           rd[r] = "unread", mem[Written(ridx[r])] = 1
    PROVE  Count(r) < items /\ Done(Count(r) + 1, Mark)
  <1>1. /\ ridx[r] = Slot(Count(r) + 1) /\ ridx[r] \in Chunks
        /\ mem[Read(ridx[r], r)] = 0
        /\ Count(r) < items \/ Count(r) < MaxChunks
        /\ Seen(r) + MaxChunks >= items
    BY DEF ReaderInv, ReaderIs, ShmTypeOK
  <1>2. PICK n \in Nat \ {0} : n = Count(r) + 1
    BY OwnMarks
  <1>3. Count(r) < items
    <2>1. ASSUME ~(Count(r) < items) PROVE FALSE
      <3>1. n \in 1..MaxChunks /\ n - 1 >= items
        BY <1>1, <1>2, <2>1, OwnMarks, Types
      <3>2. ridx[r] = n - 1
        BY <1>1, <1>2, <3>1, SlotSmall
      <3>3. QED
        BY <1>1, <3>1, <3>2 DEF MemInv, MemUnused
    <2>2. QED
      BY <2>1
  <1>4. n \in Window /\ n > Seen(r)
    BY <1>1, <1>2, <1>3, OwnMarks, Types DEF Window
  <1>5. ASSUME ~Done(n, Mark) PROVE FALSE
    <2>1. ~Done(n, 0) /\ n > MaxChunks
      <3>1. mem[Written(Slot(n))] = 1
        BY <1>1, <1>2
      <3>2. /\ Done(n, 0) /\ ~Done(n, Mark) => mem[Written(Slot(n))] = 0
            /\ ~Done(n, 0) /\ n <= MaxChunks => mem[Written(Slot(n))] = 0
        BY <1>4 DEF MemInv, MemWritten
      <3>3. ~Done(n, 0) /\ ~(n <= MaxChunks)
        BY <3>1, <3>2, <1>5
      <3>4. QED
        BY <3>3, <1>2
    <2>2. Issued(n, 0) /\ Pending(n, 0)
      <3>1. 0 \in 0..Mark /\ 0 < Pos
        BY Types, Numbers
      <3>2. QED
        BY <2>1, <3>1 DEF Done, Issued
    <2>3. 2 + r \in 0..Mark /\ Before(n, 0, n, 2 + r)
      BY Numbers DEF Before
    <2>4. ~Done(n, 2 + r)
      BY <1>4, <2>2, <2>3, Numbers DEF BufferInv, Done
    <2>5. mem[Read(Slot(n), r)] = 1
      BY <1>4, <2>1, <2>4 DEF MemInv, MemRead
    <2>6. QED
      BY <1>1, <1>2, <2>5
  <1>6. QED
    BY <1>2, <1>3, <1>5

(* What is in a chunk whose mark is in memory. *)
LEMMA SeesContent ==
    ASSUME ShmTypeOK, BufferInv, MemInv, NEW n \in Window, Done(n, Mark)
    PROVE  mem[Data(Slot(n))] = Content(n)
  <1>1. PICK x \in 1..2 : x = IF n \in Big THEN 1 ELSE 2
    OBVIOUS
  <1>2. Issued(n, x) /\ Before(n, x, n, Mark) /\ x \in 0..Mark /\ Mark \in 0..Mark
    BY <1>1, Types, Numbers DEF Done, Issued, Before
  <1>3. Done(n, x)
    BY <1>2 DEF Done, BufferInv
  <1>4. QED
    BY <1>1, <1>3 DEF MemInv, MemData

(* A reader that a step does not concern. *)
LEMMA OtherReader ==
    ASSUME ReaderInv, NEW s \in Local, items' = items, sent' = sent,
           stores'[s] = stores[s], rd'[s] = rd[s], ridx'[s] = ridx[s], obj'[s] = obj[s],
           got'[s] = got[s], mem'[Read(ridx[s], s)] = mem[Read(ridx[s], s)],
           \A n, x : Done(n, x)' <=> Done(n, x)
    PROVE  ReaderIs(s)' /\ Count(s)' = Count(s) /\ Seen(s)' = Seen(s)
  <1>1. Count(s)' = Count(s) /\ Seen(s)' = Seen(s)
    BY DEF Count, Seen
  <1>2. \A n : n = Count(s) + 1 => (Done(n, Mark)' <=> Done(n, Mark))
    OBVIOUS
  <1>3. Done(Count(s) + 1, Mark)' <=> Done(Count(s) + 1, Mark)
    BY <1>1
  <1>4. ReaderIs(s)
    BY DEF ReaderInv
  <1>5. ReaderIs(s)'
    BY <1>1, <1>3, <1>4 DEF ReaderIs
  <1>6. QED
    BY <1>1, <1>5

(* A reader's mark reaches memory. *)
LEMMA ReaderDrains ==
    ASSUME ShmTypeOK, WriterInv, BufferInv, MemInv, ReaderInv, NEW r \in Local, Drain(r)
    PROVE  BufferInv' /\ MemInv' /\ ReaderInv'
  <1>1. PICK p \in Nat \ {0} : p = Seen(r) + 1
    BY OwnMarks
  <1>2. /\ stores[r] # <<>> /\ items' = items /\ sent' = sent /\ w' = w /\ wflag' = wflag
        /\ mem' = [mem EXCEPT ![Head(stores[r])[1]] = Head(stores[r])[2]]
        /\ stores' = [stores EXCEPT ![r] = Tail(@)]
        /\ UNCHANGED <<rd, ridx, obj, got>>
    BY DEF Drain, writerVars, readerVars
  <1>3. /\ DOMAIN stores[r] = 1..Len(stores[r]) /\ Len(stores[r]) \in Nat \ {0}
        /\ Head(stores[r]) = stores[r][1]
    BY <1>2, Types
  <1>4. Head(stores[r]) = <<Read(Slot(p), r), 1>>
    <2>1. stores[r][1] = <<Read(Slot(Seen(r) + 1), r), 1>>
      BY <1>3, OwnMarks
    <2>2. QED
      BY <1>1, <1>3, <2>1
  <1>5. p <= Count(r) /\ p <= items /\ p \in Window /\ p \in 1..items
    <2>1. /\ Seen(r) \in Nat /\ Count(r) = Seen(r) + Len(stores[r])
          /\ Count(r) <= items /\ items \in Nat
          /\ Seen(r) + MaxChunks >= items
      BY OwnMarks, Types DEF ReaderInv, ReaderIs
    <2>2. p <= Count(r) /\ p <= items /\ p + MaxChunks > items
      BY <1>1, <1>3, <2>1
    <2>3. QED
      BY <2>1, <2>2 DEF Window
  <1>6. /\ \A l \in Locations : mem'[l] = IF l = Read(Slot(p), r) THEN 1 ELSE mem[l]
        /\ stores'[r] = Tail(stores[r]) /\ stores'[Writer] = stores[Writer]
        /\ \A s \in Local : s # r => stores'[s] = stores[s]
    <2>1. r \in Procs /\ Writer \in Procs /\ Writer # r /\ \A s \in Local : s \in Procs
      BY DEF Procs, Local, Writer
    <2>2. DOMAIN stores = Procs /\ DOMAIN mem = Locations
      BY DEF ShmTypeOK
    <2>3. QED
      BY <1>2, <1>4, <2>1, <2>2
  <1>7. /\ Count(r)' = Count(r) /\ Seen(r)' = p
    <2>1. Len(stores'[r]) = Len(stores[r]) - 1
      BY <1>3, <1>6, Types
    <2>2. Count(r)' = Count(r)
      BY <1>2 DEF Count
    <2>3. QED
      BY <1>1, <1>3, <2>1, <2>2, OwnMarks DEF Seen
  <1>8. \A s \in Local : s # r => Count(s)' = Count(s) /\ Seen(s)' = Seen(s)
    BY <1>2, <1>6 DEF Count, Seen
  <1>9. /\ BufferInv' /\ Window' = Window
        /\ \A n, x : Done(n, x)' <=> Done(n, x)
    <2>1. Pos' = Pos
      BY <1>2 DEF Pos
    <2>2. QED
      BY <1>2, <1>6, <2>1, SameBuffer
  <1>10. \A n \in Window : n \in Nat \ {0} /\ Near(n, p) /\ (Slot(n) = Slot(p) => n = p)
    BY <1>5, WindowIs, Types
  <1>11. MemInv'
    <2>1. MemWritten'
      <3>1. \A n \in Window : mem'[Written(Slot(n))] = mem[Written(Slot(n))]
        BY <1>6, <1>10, Places, PlacesType
      <3>2. QED
        BY <1>9, <3>1 DEF MemInv, MemWritten
    <2>2. MemData'
      <3>1. \A n \in Window : mem'[Data(Slot(n))] = mem[Data(Slot(n))]
        BY <1>6, <1>10, Places, PlacesType
      <3>2. QED
        BY <1>9, <3>1 DEF MemInv, MemData
    <2>3. MemRead'
      <3>1. ASSUME NEW n \in Window, NEW s \in Local
            PROVE  /\ n <= Count(s)' => Done(n, Mark)
                   /\ n <= Seen(s)' => mem'[Read(Slot(n), s)] = 1
                   /\ n > Seen(s)' /\ Done(n, 2 + s) => mem'[Read(Slot(n), s)] = 0
                   /\ n > Seen(s)' /\ ~Done(n, 2 + s) =>
                         mem'[Read(Slot(n), s)] = IF n <= MaxChunks THEN 0 ELSE 1
        <4>1. Read(Slot(n), s) \in Locations /\ n \in Nat
          BY <1>10, PlacesType
        <4>2. CASE s = r /\ n = p
          <5>1. mem'[Read(Slot(n), s)] = 1 /\ Seen(s)' = n /\ Count(s)' = Count(r)
            BY <1>6, <1>7, <4>1, <4>2
          <5>2. Done(p, Mark)
            BY <1>5 DEF MemInv, MemRead
          <5>3. QED
            BY <4>1, <4>2, <5>1, <5>2
        <4>3. CASE s = r /\ n # p
          <5>1. mem'[Read(Slot(n), s)] = mem[Read(Slot(n), s)]
            BY <1>6, <1>10, <4>1, <4>3, Places
          <5>2. (n <= Seen(s)' <=> n <= Seen(s)) /\ (n > Seen(s)' <=> n > Seen(s))
            BY <1>1, <1>7, <4>1, <4>3, OwnMarks
          <5>3. Count(s)' = Count(s)
            BY <1>7, <4>3
          <5>4. QED
            BY <5>1, <5>2, <5>3 DEF MemInv, MemRead
        <4>4. CASE s # r
          <5>1. mem'[Read(Slot(n), s)] = mem[Read(Slot(n), s)]
            BY <1>6, <4>1, <4>4, Places
          <5>2. Count(s)' = Count(s) /\ Seen(s)' = Seen(s)
            BY <1>8, <4>4
          <5>3. QED
            BY <5>1, <5>2 DEF MemInv, MemRead
        <4>5. QED
          BY <4>2, <4>3, <4>4
      <3>2. QED
        BY <1>9, <3>1 DEF MemRead
    <2>4. MemUnused'
      <3>1. ASSUME NEW c \in Chunks, c >= items
            PROVE  /\ mem'[Written(c)] = mem[Written(c)]
                   /\ \A s \in Local : mem'[Read(c, s)] = mem[Read(c, s)]
        <4>1. Slot(p) # c
          BY <1>5, <3>1, UnusedSlot, Types
        <4>2. QED
          BY <1>6, <4>1, Places, PlacesType
      <3>2. QED
        BY <1>2, <3>1 DEF MemInv, MemUnused
    <2>5. QED
      BY <2>1, <2>2, <2>3, <2>4 DEF MemInv
  <1>12. ASSUME NEW s \in Local, s # r PROVE ReaderIs(s)'
    <2>1. Read(ridx[s], s) \in Locations /\ Read(ridx[s], s) # Read(Slot(p), r)
      BY <1>12, Places, PlacesType DEF ShmTypeOK
    <2>2. QED
      BY <1>2, <1>6, <1>9, <1>12, <2>1, OtherReader
  <1>13. ReaderIs(r)'
    <2>1. ReaderIs(r) /\ Count(r) \in Nat /\ ridx[r] \in Chunks
      BY OwnMarks DEF ReaderInv, ShmTypeOK
    <2>2. Len(stores'[r]) <= Count(r) /\ p + MaxChunks >= items
      <3>1. Len(stores'[r]) = Len(stores[r]) - 1
        BY <1>3, <1>6, Types
      <3>2. Seen(r) \in Nat /\ Seen(r) + MaxChunks >= items /\ Len(stores[r]) <= Count(r)
            /\ items \in Nat
        BY <2>1, OwnMarks, Types DEF ReaderIs
      <3>3. QED
        BY <1>1, <1>3, <2>1, <3>1, <3>2
    <2>3. ASSUME NEW i \in DOMAIN stores'[r]
          PROVE  stores'[r][i] = <<Read(Slot(p + i), r), 1>>
      <3>1. i \in Nat /\ i + 1 \in 1..Len(stores[r]) /\ stores'[r][i] = stores[r][i + 1]
        <4>1. stores[r] \in Seq(Locations \X (0..Torn))
          BY Types
        <4>2. QED
          BY <1>3, <1>6, <2>3, <4>1
      <3>2. stores[r][i + 1] = <<Read(Slot(Seen(r) + (i + 1)), r), 1>>
        BY <3>1, OwnMarks
      <3>3. Seen(r) + (i + 1) = p + i
        BY <1>1, <3>1, OwnMarks
      <3>4. QED
        BY <3>1, <3>2, <3>3
    <2>4. rd[r] \in {"unread", "acquired", "read"} => mem'[Read(ridx[r], r)] = 0
      <3> SUFFICES ASSUME rd[r] \in {"unread", "acquired", "read"}
                   PROVE  mem'[Read(ridx[r], r)] = 0
        OBVIOUS
      <3>1. PICK n \in Nat \ {0} : n = Count(r) + 1
        BY <2>1
      <3>2. Near(n, p) /\ n # p
        <4>1. items \in Nat /\ (Count(r) < items \/ Count(r) < MaxChunks)
              /\ p + MaxChunks > items
          BY <1>5, <2>1, Types DEF ReaderIs, Window
        <4>2. QED
          BY <1>5, <2>1, <3>1, <4>1 DEF Near
      <3>3. ridx[r] = Slot(n) /\ Slot(n) # Slot(p)
        BY <2>1, <3>1, <3>2, SlotSame DEF ReaderIs
      <3>4. QED
        BY <1>6, <2>1, <3>3, Places, PlacesType DEF ReaderIs
    <2>5. Done(Count(r) + 1, Mark)' <=> Done(Count(r) + 1, Mark)
      <3>1. \A n : n = Count(r) + 1 => (Done(n, Mark)' <=> Done(n, Mark))
        BY <1>9
      <3>2. QED
        BY <1>7, <3>1
    <2>6. QED
      BY <1>2, <1>7, <2>1, <2>2, <2>3, <2>4, <2>5 DEF ReaderIs
  <1>14. ReaderInv'
    BY <1>12, <1>13 DEF ReaderInv
  <1>15. QED
    BY <1>9, <1>11, <1>14

(* A step of one reader that leaves memory alone. *)
LEMMA OneReader ==
    ASSUME BufferInv, MemInv, ReaderInv, NEW r \in Local,
           mem' = mem, items' = items, sent' = sent, w' = w, wflag' = wflag,
           stores'[Writer] = stores[Writer],
           \A s \in Local : s # r =>
              /\ stores'[s] = stores[s] /\ rd'[s] = rd[s] /\ ridx'[s] = ridx[s]
              /\ obj'[s] = obj[s] /\ got'[s] = got[s],
           Seen(r)' = Seen(r), \A n \in Window : n <= Count(r)' => Done(n, Mark)
    PROVE  /\ BufferInv' /\ MemInv'
           /\ \A n, x : Done(n, x)' <=> Done(n, x)
           /\ ReaderIs(r)' => ReaderInv'
  <1>1. Pos' = Pos
    BY DEF Pos
  <1>2. /\ BufferInv' /\ Window' = Window
        /\ \A n, x : Done(n, x)' <=> Done(n, x)
    BY <1>1, SameBuffer
  <1>3. ASSUME NEW s \in Local, s # r
        PROVE  ReaderIs(s)' /\ Count(s)' = Count(s) /\ Seen(s)' = Seen(s)
    BY <1>2, <1>3, OtherReader
  <1>4. MemWritten' /\ MemData' /\ MemUnused'
    BY <1>2 DEF MemInv, MemWritten, MemData, MemUnused
  <1>5. MemRead'
    <2>1. ASSUME NEW n \in Window, NEW s \in Local
          PROVE  /\ n <= Count(s)' => Done(n, Mark)
                 /\ n <= Seen(s)' => mem[Read(Slot(n), s)] = 1
                 /\ n > Seen(s)' /\ Done(n, 2 + s) => mem[Read(Slot(n), s)] = 0
                 /\ n > Seen(s)' /\ ~Done(n, 2 + s) =>
                       mem[Read(Slot(n), s)] = IF n <= MaxChunks THEN 0 ELSE 1
      BY <1>3 DEF MemInv, MemRead
    <2>2. QED
      BY <1>2, <2>1 DEF MemRead
  <1>6. QED
    BY <1>2, <1>3, <1>4, <1>5 DEF MemInv, ReaderInv

(* Looking at a flag or into the chunk. *)
LEMMA Looks ==
    ASSUME ShmTypeOK, WriterInv, BufferInv, MemInv, ReaderInv, NEW r \in Local,
           CheckRead(r) \/ CheckWritten(r) \/ ReadChunk(r)
    PROVE  BufferInv' /\ MemInv' /\ ReaderInv'
  <1>1. /\ UNCHANGED <<mem, stores, w, wflag, items, ridx, got, sent>>
        /\ r \in DOMAIN rd /\ r \in DOMAIN obj
        /\ rd[r] # "recv" /\ rd'[r] # "recv"
        /\ \A s \in Local : s # r => rd'[s] = rd[s] /\ obj'[s] = obj[s]
    BY DEF CheckRead, CheckWritten, ReadChunk, writerVars, ShmTypeOK, Readers
  <1>2. Count(r)' = Count(r) /\ Seen(r)' = Seen(r)
    BY <1>1 DEF Count, Seen
  <1>3. /\ BufferInv' /\ MemInv'
        /\ \A n, x : Done(n, x)' <=> Done(n, x)
        /\ ReaderIs(r)' => ReaderInv'
    <2>1. \A n \in Window : n <= Count(r)' => Done(n, Mark)
      BY <1>2 DEF MemInv, MemRead
    <2>2. QED
      BY <1>1, <1>2, <2>1, OneReader
  <1>4. PICK n \in Nat \ {0} : n = Count(r) + 1
    BY OwnMarks
  <1>5. Done(Count(r) + 1, Mark)' <=> Done(n, Mark)
    <2>1. n = (Count(r) + 1)'
      BY <1>2, <1>4
    <2>2. Done(n, Mark)' <=> Done(n, Mark)
      BY <1>3
    <2>3. QED
      BY <2>1, <2>2
  <1>6. ReaderIs(r) /\ ridx[r] = Slot(n)
    BY <1>4 DEF ReaderInv, ReaderIs
  <1>7. CASE CheckRead(r)
    <2>1. rd'[r] = "unread" /\ Load(r, Read(ridx[r], r)) = 0
      BY <1>1, <1>7 DEF CheckRead
    <2>2. mem[Read(ridx[r], r)] = 0 /\ (Count(r) < items \/ Count(r) < MaxChunks)
      BY <2>1, ReaderLoads
    <2>3. ReaderIs(r)'
      BY <1>1, <1>2, <1>6, <2>1, <2>2 DEF ReaderIs
    <2>4. QED
      BY <1>3, <2>3
  <1>8. CASE CheckWritten(r)
    <2>1. rd[r] = "unread"
          /\ rd'[r] = IF Load(r, Written(ridx[r])) = 1 THEN "acquired" ELSE "idle"
      BY <1>1, <1>8 DEF CheckWritten
    <2>2. rd'[r] = "idle" \/ (rd'[r] = "acquired" /\ mem[Written(ridx[r])] = 1)
      BY <2>1, ReaderLoads
    <2>3. CASE rd'[r] = "idle"
      <3>1. ReaderIs(r)'
        BY <1>1, <1>2, <1>6, <2>3 DEF ReaderIs
      <3>2. QED
        BY <1>3, <3>1
    <2>4. CASE rd'[r] = "acquired" /\ mem[Written(ridx[r])] = 1
      <3>1. Count(r) < items /\ Done(Count(r) + 1, Mark)
        BY <2>1, <2>4, SeesWritten
      <3>2. Done(n, Mark)
        BY <1>4, <3>1
      <3>3. ReaderIs(r)'
        BY <1>1, <1>2, <1>5, <1>6, <2>1, <2>4, <3>1, <3>2 DEF ReaderIs
      <3>4. QED
        BY <1>3, <3>3
    <2>5. QED
      BY <2>2, <2>3, <2>4
  <1>9. CASE ReadChunk(r)
    <2>1. rd[r] = "acquired" /\ rd'[r] = "read" /\ obj'[r] = Load(r, Data(ridx[r]))
      BY <1>1, <1>9 DEF ReadChunk
    <2>2. Count(r) < items /\ Done(Count(r) + 1, Mark) /\ Seen(r) + MaxChunks >= items
      BY <1>6, <2>1 DEF ReaderIs
    <2>3. n \in Window /\ Done(n, Mark)
      <3>1. /\ items \in Nat /\ Seen(r) \in Nat /\ Count(r) \in Nat /\ Seen(r) <= Count(r)
        BY OwnMarks, Types
      <3>2. QED
        BY <1>4, <2>2, <3>1 DEF Window
    <2>4. obj'[r] = Content(n)
      BY <1>6, <2>1, <2>3, ReaderLoads, SeesContent
    <2>5. Content(n) = Content(Count(r) + 1)
      BY <1>4
    <2>6. ReaderIs(r)'
      BY <1>1, <1>2, <1>5, <1>6, <2>1, <2>2, <2>3, <2>4, <2>5 DEF ReaderIs, Content
    <2>7. QED
      BY <1>3, <2>6
  <1>10. QED
    BY <1>7, <1>8, <1>9

(* What a reader that marks an object has found in the chunk. *)
LEMMA Found ==
    ASSUME ShmTypeOK, WriterInv, MemInv, ReaderInv, NEW r \in Local, rd[r] = "read"
    PROVE  /\ Count(r) = Len(got[r]) /\ Count(r) + 1 \in Window /\ Count(r) + 1 <= sent
           /\ Done(Count(r) + 1, Mark)
           /\ obj[r] = IF Count(r) + 1 \in Big THEN Overflow ELSE Count(r) + 1
           /\ obj[r] = Overflow <=> Count(r) + 1 \in Big
  <1>1. /\ Count(r) < items /\ Done(Count(r) + 1, Mark)
        /\ obj[r] = Content(Count(r) + 1) /\ Seen(r) + MaxChunks >= items
    BY DEF ReaderInv, ReaderIs
  <1>2. Len(got[r]) \in Nat /\ Count(r) = Len(got[r])
    BY Types DEF Count
  <1>3. items \in 0..MaxItems /\ Seen(r) <= Count(r) /\ Seen(r) \in Nat /\ sent \in Nat
    BY Types, OwnMarks
  <1>4. PICK n \in Nat \ {0} : n = Count(r) + 1
    BY <1>2
  <1>5. n \in Window /\ n \in 1..MaxItems
    BY <1>1, <1>2, <1>3, <1>4 DEF Window
  <1>6. n <= sent
    <2>1. Issued(n, Mark)
      BY <1>1, <1>4 DEF Done
    <2>2. CASE n = items
      <3>1. Mark < Pos
        BY <2>1, <2>2 DEF Issued
      <3>2. ~Busy
        BY <3>1, Numbers DEF Pos, Busy, WriterInv, ShmTypeOK, Mark
      <3>3. QED
        BY <2>2, <3>2 DEF WriterInv
    <2>3. CASE n < items
      BY <1>3, <2>3 DEF WriterInv
    <2>4. QED
      BY <1>1, <1>2, <1>3, <1>4, <2>2, <2>3
  <1>7. obj[r] = (IF n \in Big THEN Overflow ELSE n) /\ (obj[r] = Overflow <=> n \in Big)
    BY <1>1, <1>4, <1>5 DEF Content, Overflow
  <1>8. QED
    BY <1>1, <1>2, <1>4, <1>5, <1>6, <1>7

(* A reader marks an object. *)
LEMMA Marks ==
    ASSUME ShmTypeOK, WriterInv, BufferInv, MemInv, ReaderInv, NEW r \in Local, MarkRead(r)
    PROVE  BufferInv' /\ MemInv' /\ ReaderInv'
  <1>1. /\ UNCHANGED <<mem, w, wflag, items, obj, sent>> /\ rd[r] = "read"
        /\ stores' = [stores EXCEPT ![r] = Append(@, <<Read(ridx[r], r), 1>>)]
        /\ ridx' = [ridx EXCEPT ![r] = (@ + 1) % MaxChunks]
    BY DEF MarkRead, Store, writerVars
  <1>2. /\ \A s \in Local : s # r =>
              /\ stores'[s] = stores[s] /\ rd'[s] = rd[s] /\ ridx'[s] = ridx[s]
              /\ obj'[s] = obj[s] /\ got'[s] = got[s]
        /\ stores'[Writer] = stores[Writer]
        /\ stores'[r] = Append(stores[r], <<Read(ridx[r], r), 1>>)
        /\ ridx'[r] = (ridx[r] + 1) % MaxChunks
    <2>1. r \in Procs /\ Writer # r /\ Writer \in Procs /\ \A s \in Local : s \in Procs
      BY DEF Procs, Local, Writer
    <2>2. DOMAIN stores = Procs /\ DOMAIN ridx = Local
      BY DEF ShmTypeOK
    <2>3. ASSUME NEW s \in Local, s # r PROVE rd'[s] = rd[s] /\ got'[s] = got[s]
      <3>1. s \in DOMAIN rd /\ s \in DOMAIN got
        BY DEF ShmTypeOK, Readers
      <3>2. QED
        BY <2>3, <3>1 DEF MarkRead
    <2>4. QED
      BY <1>1, <2>1, <2>2, <2>3
  <1>3. PICK n \in Nat \ {0} : n = Count(r) + 1
    BY OwnMarks
  <1>4. /\ Count(r) = Len(got[r]) /\ n \in Window /\ n <= sent /\ Done(n, Mark)
        /\ obj[r] = Overflow <=> n \in Big
    BY <1>1, <1>3, Found
  <1>5. Count(r)' = n /\ ((rd'[r] = "recv" /\ n \in Big) \/ rd'[r] = "idle")
    <2>1. r \in DOMAIN rd /\ r \in DOMAIN got /\ got[r] \in Seq(1..MaxItems)
      BY DEF ShmTypeOK, Readers
    <2>2. CASE obj[r] = Overflow
      <3>1. rd'[r] = "recv" /\ got' = got
        BY <2>1, <2>2 DEF MarkRead
      <3>2. QED
        BY <1>3, <1>4, <2>2, <3>1 DEF Count
    <2>3. CASE obj[r] # Overflow
      <3>1. rd'[r] = "idle" /\ got'[r] = Append(got[r], obj[r])
        BY <2>1, <2>3 DEF MarkRead
      <3>2. Len(got'[r]) = Len(got[r]) + 1
        BY <2>1, <3>1
      <3>3. Count(r)' = Len(got'[r]) + 0
        BY <3>1 DEF Count
      <3>4. QED
        BY <1>3, <1>4, <3>1, <3>2, <3>3, OwnMarks
    <2>4. QED
      BY <2>2, <2>3
  <1>6. /\ Len(stores'[r]) = Len(stores[r]) + 1
        /\ DOMAIN stores'[r] = 1..(Len(stores[r]) + 1)
        /\ \A i \in 1..Len(stores[r]) : stores'[r][i] = stores[r][i]
        /\ stores'[r][Len(stores[r]) + 1] = <<Read(ridx[r], r), 1>>
    BY <1>2, Types
  <1>7. Seen(r)' = Seen(r)
    <2>1. Seen(r)' = n - Len(stores'[r])
      BY <1>5 DEF Seen
    <2>2. /\ Count(r) = Seen(r) + Len(stores[r])
          /\ Seen(r) \in Nat /\ Len(stores[r]) \in Nat
      BY OwnMarks
    <2>3. QED
      BY <1>3, <1>6, <2>1, <2>2
  <1>8. /\ BufferInv' /\ MemInv'
        /\ ReaderIs(r)' => ReaderInv'
    <2>1. ASSUME NEW m \in Window, m <= Count(r)' PROVE Done(m, Mark)
      <3>1. m = n \/ m <= Count(r)
        <4>1. m \in Nat /\ Count(r) \in Nat
          BY OwnMarks, WindowIs, Types
        <4>2. QED
          BY <1>3, <1>5, <2>1, <4>1
      <3>2. QED
        BY <1>4, <3>1 DEF MemInv, MemRead
    <2>2. QED
      BY <1>1, <1>2, <1>7, <2>1, OneReader
  <1>9. ReaderIs(r)'
    <2>1. ReaderIs(r) /\ n + 1 \in Nat \ {0}
      BY DEF ReaderInv
    <2>2. Len(stores'[r]) <= n
      BY <1>3, <1>6, <2>1, OwnMarks DEF ReaderIs
    <2>3. ridx[r] = Slot(n) /\ ridx'[r] = Slot(n + 1)
      BY <1>2, <1>3, <2>1, SlotNext DEF ReaderIs
    <2>4. ASSUME NEW i \in DOMAIN stores'[r]
          PROVE  stores'[r][i] = <<Read(Slot(Seen(r) + i), r), 1>>
      <3>1. CASE i \in 1..Len(stores[r])
        BY <1>6, <3>1, OwnMarks
      <3>2. CASE i = Len(stores[r]) + 1
        <4>1. Seen(r) + i = n
          <5>1. /\ Count(r) = Seen(r) + Len(stores[r])
                /\ Seen(r) \in Nat /\ Len(stores[r]) \in Nat
            BY OwnMarks
          <5>2. QED
            BY <1>3, <3>2, <5>1
        <4>2. QED
          BY <1>6, <2>3, <3>2, <4>1
      <3>3. QED
        <4>1. Len(stores[r]) \in Nat /\ i \in 1..(Len(stores[r]) + 1)
          BY <1>6, <2>4, Types
        <4>2. i \in 1..Len(stores[r]) \/ i = Len(stores[r]) + 1
          BY <4>1
        <4>3. QED
          BY <3>1, <3>2, <4>2
    <2>5. QED
      BY <1>1, <1>4, <1>5, <1>7, <2>1, <2>2, <2>3, <2>4 DEF ReaderIs
  <1>10. QED
    BY <1>8, <1>9

(* A reader turns to its socket, or back from it. *)
LEMMA Sockets ==
    ASSUME ShmTypeOK, WriterInv, BufferInv, MemInv, ReaderInv, NEW r \in Readers,
           ReadReady(r) \/ Receive(r) \/ Subscribe(r)
    PROVE  BufferInv' /\ MemInv' /\ ReaderInv'
  <1>1. /\ UNCHANGED <<mem, stores, w, wflag, items, ridx, obj, sent>>
        /\ \A s \in Local : s # r => rd'[s] = rd[s] /\ got'[s] = got[s]
    <2>1. \A s \in Local : s \in DOMAIN rd /\ s \in DOMAIN got
      BY DEF ShmTypeOK, Readers
    <2>2. QED
      BY <2>1 DEF ReadReady, Receive, Subscribe, writerVars, readerVars
  <1>2. CASE r \in Local
    <2>1. /\ r \in DOMAIN rd /\ r \in DOMAIN got /\ got[r] \in Seq(1..MaxItems)
          /\ sock[r] \in Seq(0..MaxItems)
      BY DEF ShmTypeOK
    <2>2. Count(r)' = Count(r) /\ (rd'[r] = rd[r] \/ rd'[r] = "idle")
      <3>1. CASE Receive(r)
        <4>1. rd[r] = "recv" /\ rd'[r] = "idle" /\ got'[r] = Append(got[r], Head(sock[r]))
          BY <1>2, <2>1, <3>1 DEF Receive
        <4>2. Len(got'[r]) = Len(got[r]) + 1 /\ Len(got[r]) \in Nat
          BY <2>1, <4>1
        <4>3. Count(r)' = Len(got'[r]) + 0 /\ Count(r) = Len(got[r]) + 1
          BY <4>1 DEF Count
        <4>4. QED
          BY <4>1, <4>2, <4>3
      <3>2. CASE ReadReady(r)
        BY <2>1, <3>2 DEF ReadReady, Count
      <3>3. CASE Subscribe(r)
        BY <3>3 DEF Subscribe, readerVars, Count
      <3>4. QED
        BY <3>1, <3>2, <3>3
    <2>3. Seen(r)' = Seen(r)
      BY <1>1, <2>2 DEF Seen
    <2>4. /\ BufferInv' /\ MemInv'
          /\ \A n, x : Done(n, x)' <=> Done(n, x)
          /\ ReaderIs(r)' => ReaderInv'
      <3>1. \A n \in Window : n <= Count(r)' => Done(n, Mark)
        BY <1>2, <2>2 DEF MemInv, MemRead
      <3>2. QED
        BY <1>1, <1>2, <2>3, <3>1, OneReader
    <2>5. ReaderIs(r)'
      <3>1. Done(Count(r) + 1, Mark)' <=> Done(Count(r) + 1, Mark)
        <4>1. \A n : n = Count(r) + 1 => (Done(n, Mark)' <=> Done(n, Mark))
          BY <2>4
        <4>2. QED
          BY <2>2, <4>1
      <3>2. ReaderIs(r)
        BY <1>2 DEF ReaderInv
      <3>3. QED
        BY <1>1, <2>2, <2>3, <3>1, <3>2 DEF ReaderIs
    <2>6. QED
      BY <2>4, <2>5
  <1>3. CASE r \notin Local
    <2>1. PICK s : s \in Local
      BY DEF Local
    <2>2. \A t \in Local : rd'[t] = rd[t] /\ got'[t] = got[t]
      BY <1>1, <1>3
    <2>3. Count(s)' = Count(s) /\ Seen(s)' = Seen(s)
      BY <1>1, <2>1, <2>2 DEF Count, Seen
    <2>4. /\ BufferInv' /\ MemInv'
          /\ \A n, x : Done(n, x)' <=> Done(n, x)
          /\ ReaderIs(s)' => ReaderInv'
      <3>1. \A n \in Window : n <= Count(s)' => Done(n, Mark)
        BY <2>1, <2>3 DEF MemInv, MemRead
      <3>2. QED
        BY <1>1, <2>1, <2>2, <2>3, <3>1, OneReader
    <2>5. ReaderIs(s)'
      BY <1>1, <2>1, <2>2, <2>4, OtherReader
    <2>6. QED
      BY <2>4, <2>5
  <1>4. QED
    BY <1>2, <1>3

-----------------------------------------------------------------------------
(* The steps of the writer. *)

(* Filling the chunk, resetting the flags and marking it. *)
LEMMA WriterSteps ==
    ASSUME ShmTypeOK, WriterInv, BufferInv, MemInv, ReaderInv,
           Fill \/ Filled \/ ResetFlag \/ MarkWritten
    PROVE  BufferInv' /\ MemInv' /\ ReaderInv'
  <1>1. /\ items' = items /\ UNCHANGED <<mem, rd, ridx, obj, got>> /\ Busy
        /\ sent' \in Nat /\ sent' >= sent
    BY DEF Fill, Filled, ResetFlag, MarkWritten, readerVars, Busy, ShmTypeOK
  <1>2. widx = Slot(items) /\ Mark = NLocal + 3 /\ Mark \in Nat /\ wflag \in 1..(NLocal + 1)
    BY <1>1 DEF WriterInv, Mark, ShmTypeOK
  <1>3. /\ Pos \in 0..Mark /\ ~(Pos = 2 /\ items \in Big)
        /\ Pos' \in Nat /\ Pos' > Pos
        /\ \A x \in 0..Mark : Pos < x /\ x < Pos' => x = 2 /\ items \in Big
        /\ stores' = [stores EXCEPT ![Writer] = Append(@, Op(items, Pos))]
    <2>1. CASE Fill
      <3>1. /\ w = "fill" /\ wflag' = 1
            /\ w' = IF items \in Big THEN "reset" ELSE "half"
            /\ stores' = [stores EXCEPT ![Writer] =
                   Append(@, <<Data(widx), IF items \in Big THEN Overflow ELSE Torn>>)]
        BY <2>1 DEF Fill, Store
      <3>2. Pos = 1 /\ Pos' = IF items \in Big THEN 3 ELSE 2
        BY <3>1 DEF Pos
      <3>3. Op(items, Pos) = <<Data(widx), IF items \in Big THEN Overflow ELSE Torn>>
        BY <1>2, <3>2, OpIs
      <3>4. /\ Pos \in 0..Mark /\ ~(Pos = 2 /\ items \in Big)
            /\ Pos' \in Nat /\ Pos' > Pos
            /\ \A x \in 0..Mark : Pos < x /\ x < Pos' => x = 2 /\ items \in Big
        BY <1>2, <3>1, <3>2
      <3>5. QED
        BY <3>1, <3>3, <3>4
    <2>2. CASE Filled
      <3>1. /\ w = "half" /\ w' = "reset" /\ wflag' = wflag
            /\ stores' = [stores EXCEPT ![Writer] = Append(@, <<Data(widx), items>>)]
        BY <2>2 DEF Filled, Store
      <3>2. Pos = 2 /\ Pos' = 3 /\ items \notin Big
        BY <3>1 DEF Pos, WriterInv
      <3>3. Op(items, Pos) = <<Data(widx), items>>
        BY <1>2, <3>2, OpIs
      <3>4. /\ Pos \in 0..Mark /\ ~(Pos = 2 /\ items \in Big)
            /\ Pos' \in Nat /\ Pos' > Pos
            /\ \A x \in 0..Mark : Pos < x /\ x < Pos' => x = 2 /\ items \in Big
        BY <1>2, <3>1, <3>2
      <3>5. QED
        BY <3>1, <3>3, <3>4
    <2>3. CASE ResetFlag
      <3>1. /\ w = "reset" /\ wflag <= NLocal /\ wflag' = wflag + 1
            /\ w' = IF wflag = NLocal THEN "mark" ELSE "reset"
            /\ stores' = [stores EXCEPT ![Writer] = Append(@, <<Read(widx, wflag), 0>>)]
        BY <2>3 DEF ResetFlag, Store
      <3>2. Pos = 2 + wflag /\ Pos' = 3 + wflag /\ wflag \in Local
        BY <1>2, <3>1 DEF Pos, Mark, Local
      <3>3. Op(items, Pos) = <<Read(widx, wflag), 0>>
        BY <1>2, <3>2, OpIs
      <3>4. /\ Pos \in 0..Mark /\ ~(Pos = 2 /\ items \in Big)
            /\ Pos' \in Nat /\ Pos' > Pos
            /\ \A x \in 0..Mark : Pos < x /\ x < Pos' => x = 2 /\ items \in Big
        BY <1>2, <3>1, <3>2
      <3>5. QED
        BY <3>1, <3>3, <3>4
    <2>4. CASE MarkWritten
      <3>1. /\ w = "mark"
            /\ stores' = [stores EXCEPT ![Writer] = Append(@, <<Written(widx), 1>>)]
            /\ w' \in {"publish", "remote", "idle"}
        BY <2>4 DEF MarkWritten, Store, AfterChunk
      <3>2. Pos = Mark /\ Pos' = Mark + 1
        BY <3>1 DEF Pos
      <3>3. Op(items, Pos) = <<Written(widx), 1>>
        BY <1>2, <3>2, OpIs
      <3>4. /\ Pos \in 0..Mark /\ ~(Pos = 2 /\ items \in Big)
            /\ Pos' \in Nat /\ Pos' > Pos
            /\ \A x \in 0..Mark : Pos < x /\ x < Pos' => x = 2 /\ items \in Big
        BY <1>2, <3>1, <3>2
      <3>5. QED
        BY <3>1, <3>3, <3>4
    <2>5. QED
      BY <2>1, <2>2, <2>3, <2>4
  <1>4. QED
    BY <1>1, <1>3, BusyStore

(* Publishing touches neither the chunks nor the flags. *)
LEMMA Publishes ==
    ASSUME ShmTypeOK, WriterInv, BufferInv, MemInv, ReaderInv,
           LocalsReady \/ RemotesReady \/ Publish \/ SendRemote
    PROVE  BufferInv' /\ MemInv' /\ ReaderInv'
  <1>1. /\ UNCHANGED <<mem, stores, items, rd, ridx, obj, got, sent>>
        /\ Pos = Mark + 1 /\ Pos' = Mark + 1
    BY DEF LocalsReady, RemotesReady, Publish, SendRemote, AfterChunk, readerVars, Pos
  <1>2. PICK s : s \in Local
    BY DEF Local
  <1>3. /\ BufferInv' /\ Window' = Window
        /\ \A n, x : Done(n, x)' <=> Done(n, x)
    BY <1>1, SameBuffer
  <1>4. \A r \in Local : ReaderIs(r)' /\ Count(r)' = Count(r) /\ Seen(r)' = Seen(r)
    BY <1>1, <1>3, OtherReader
  <1>5. MemInv'
    BY <1>1, <1>3, <1>4, SameMemory
  <1>6. QED
    BY <1>3, <1>4, <1>5 DEF ReaderInv

(* WriterInv is kept by every step. *)
LEMMA WriterKept ==
    ASSUME ShmTypeOK, WriterInv, [ShmNext]_shmVars
    PROVE  WriterInv'
  <1>1. CASE LocalsReady \/ RemotesReady
    BY <1>1 DEF LocalsReady, RemotesReady, WriterInv, Busy
  <1>2. CASE AcquireWrite
    BY <1>2 DEF AcquireWrite, WriterInv, Busy, ShmTypeOK
  <1>3. CASE Fill \/ Filled
    BY <1>3 DEF Fill, Filled, WriterInv, Busy
  <1>4. CASE ResetFlag
    BY <1>4 DEF ResetFlag, WriterInv, Busy, ShmTypeOK
  <1>5. CASE MarkWritten
    <2>1. /\ w = "mark" /\ w' = IF items \in Big THEN "publish" ELSE AfterChunk
          /\ widx' = (widx + 1) % MaxChunks /\ sent' = sent + 1 /\ items' = items
      BY <1>5 DEF MarkWritten
    <2>2. PICK n \in Nat \ {0} : n = sent + 1
      BY DEF ShmTypeOK
    <2>3. widx = Slot(n) /\ items = n
      BY <2>1, <2>2 DEF WriterInv, Busy
    <2>4. widx' = Slot(n + 1)
      BY <2>1, <2>3, SlotNext
    <2>5. widx' = Slot(sent' + 1)
      BY <2>1, <2>2, <2>4
    <2>6. QED
      BY <2>1, <2>2, <2>3, <2>5 DEF WriterInv, Busy, AfterChunk
  <1>6. CASE Publish \/ SendRemote
    BY <1>6 DEF Publish, SendRemote, WriterInv, Busy, AfterChunk, ShmTypeOK
  <1>7. ASSUME UNCHANGED <<w, wflag, widx, items, sent>> PROVE WriterInv'
    BY <1>7 DEF WriterInv, Busy
  <1>8. ASSUME NEW r \in Readers, Subscribe(r) \/ ReadReady(r) \/ Receive(r)
        PROVE  UNCHANGED <<w, wflag, widx, items, sent>>
    BY <1>8 DEF Subscribe, ReadReady, Receive, writerVars
  <1>9. ASSUME NEW r \in Local, Dequeuing(r)
        PROVE  UNCHANGED <<w, wflag, widx, items, sent>>
    BY <1>9 DEF Dequeuing, CheckRead, CheckWritten, ReadChunk, MarkRead, writerVars
  <1>10. ASSUME NEW p \in Procs, Drain(p)
         PROVE  UNCHANGED <<w, wflag, widx, items, sent>>
    BY <1>10 DEF Drain, writerVars
  <1>11. CASE UNCHANGED shmVars
    BY <1>7, <1>11 DEF shmVars, writerVars
  <1>12. QED
    BY <1>1, <1>2, <1>3, <1>4, <1>5, <1>6, <1>7, <1>8, <1>9, <1>10, <1>11
       DEF ShmNext, Connecting, Enqueuing

-----------------------------------------------------------------------------
(* The sockets. *)

(* The types that the lemmas about sockets need. *)
LEMMA ArrivedIs ==
    ASSUME ShmTypeOK, WriterInv, NEW r \in Readers
    PROVE  /\ Arrived(r) \in Nat /\ Arrived(r) <= sent /\ sent <= items
           /\ sent \in Nat /\ items \in 0..MaxItems
           /\ Off(r) \in 0..1 /\ (Off(r) = 1 <=> rd[r] = "connect")
           /\ w \in {"connect", "remotes"} => Arrived(r) = 0 /\ items = 0
           /\ sock[r] \in Seq(0..MaxItems) /\ Len(sock[r]) \in Nat
           /\ got[r] \in Seq(1..MaxItems) /\ Len(got[r]) \in Nat
  <1>1. /\ sent \in Nat /\ items \in 0..MaxItems
        /\ sock[r] \in Seq(0..MaxItems) /\ got[r] \in Seq(1..MaxItems)
    BY DEF ShmTypeOK
  <1>2. Len(sock[r]) \in Nat /\ Len(got[r]) \in Nat
    BY <1>1
  <1>3. Off(r) \in 0..1 /\ (Off(r) = 1 <=> rd[r] = "connect")
    BY DEF Off
  <1>4. CASE Busy
    BY <1>1, <1>2, <1>3, <1>4 DEF Arrived, WriterInv, Busy
  <1>5. CASE ~Busy
    BY <1>1, <1>2, <1>3, <1>5 DEF Arrived, WriterInv
  <1>6. QED
    BY <1>4, <1>5

(* A step that leaves a reader and its socket alone; a local reader may    *)
(* have been given an object that is not large.                            *)
LEMMA LocalSame ==
    ASSUME ShmTypeOK, WriterInv, NEW r \in Local, LocalSock(r),
           sock'[r] = sock[r], w' = "connect" <=> w = "connect",
           rd'[r] = "connect" <=> rd[r] = "connect", subscribed \subseteq subscribed',
           Arrived(r)' \in Nat, Arrived(r)' = Arrived(r)
               \/ (Arrived(r)' = Arrived(r) + 1 /\ Arrived(r)' \notin Big),
           Len(got'[r]) = Len(got[r])
               \/ (Len(got'[r]) = Len(got[r]) + 1 /\ Len(got'[r]) \notin Big),
           Len(got'[r]) <= Arrived(r)' \/ w = "connect"
    PROVE  LocalSock(r)'
  <1>1. r \in Readers
    BY Types
  <1>2. CASE w = "connect"
    BY <1>2 DEF LocalSock
  <1>3. CASE w # "connect"
    <2>1. Off(r)' = Off(r)
      BY DEF Off
    <2>2. PICK g \in Nat, a \in Nat : g = Len(got[r]) /\ a = Arrived(r)
      BY <1>1, ArrivedIs
    <2>3. PICK h \in Nat : h = Len(got'[r])
      BY <2>2
    <2>4. PICK e \in Nat : e = Arrived(r)'
      OBVIOUS
    <2>5. /\ (h = g \/ (h = g + 1 /\ h \notin Big)) /\ h <= e
          /\ (e = a \/ (e = a + 1 /\ e \notin Big))
      BY <1>3, <2>2, <2>3, <2>4
    <2>6. \A b \in Big : b \in Nat /\ (h < b <=> g < b /\ b # h) /\ (b <= e <=> b <= a)
      BY <2>5
    <2>7. /\ sock[r] \in Seq(0..MaxItems) /\ Len(sock[r]) \in Nat
          /\ \A i \in (1 + Off(r))..Len(sock[r]) : i \in 1..Len(sock[r])
      BY <1>1, ArrivedIs
    <2>8. \A i \in (1 + Off(r))..Len(sock[r]) :
              /\ sock[r][i] \in Big
              /\ h < sock[r][i]
              /\ sock[r][i] + (Len(sock[r]) - i) <= e
      <3> SUFFICES ASSUME NEW i \in (1 + Off(r))..Len(sock[r])
                   PROVE  /\ sock[r][i] \in Big
                          /\ h < sock[r][i]
                          /\ sock[r][i] + (Len(sock[r]) - i) <= e
        OBVIOUS
      <3>1. /\ sock[r][i] \in Big /\ g < sock[r][i]
            /\ sock[r][i] + (Len(sock[r]) - i) <= a
        BY <1>3, <2>2 DEF LocalSock
      <3>2. i \in Nat /\ Len(sock[r]) \in Nat /\ sock[r][i] \in Nat
        BY <2>7, <3>1
      <3>3. QED
        BY <2>5, <2>6, <3>1, <3>2
    <2>9. \A b \in Big : h < b /\ b <= e =>
              \E i \in (1 + Off(r))..Len(sock[r]) : sock[r][i] = b
      BY <1>3, <2>2, <2>6 DEF LocalSock
    <2>10. QED
      BY <1>3, <2>1, <2>3, <2>4, <2>5, <2>8, <2>9 DEF LocalSock
  <1>4. QED
    BY <1>2, <1>3

(* The same for a remote reader. *)
LEMMA RemoteSame ==
    ASSUME NEW r \in Remote, RemoteSock(r),
           sock'[r] = sock[r],
           w' \in {"connect", "remotes"} <=> w \in {"connect", "remotes"},
           rd'[r] = rd[r], subscribed \subseteq subscribed',
           Arrived(r)' = Arrived(r), got'[r] = got[r]
    PROVE  RemoteSock(r)'
  <1>1. Off(r)' = Off(r)
    BY DEF Off
  <1>2. QED
    BY <1>1 DEF RemoteSock

(* A large object reaches a local reader's socket. *)
LEMMA LocalPublished ==
    ASSUME ShmTypeOK, WriterInv, NEW r \in Local, LocalSock(r), Publish
    PROVE  LocalSock(r)'
  <1>1. /\ w = "publish" /\ w' \in {"remote", "idle"} /\ items' = items
        /\ r \in subscribed /\ r \in Readers /\ r \notin Remote
        /\ UNCHANGED <<rd, got, subscribed>>
    BY Types DEF Publish, AfterChunk, readerVars, LocalSock, Local, Remote
  <1>2. sock'[r] = Append(sock[r], items)
    BY <1>1 DEF Publish, Published
  <1>3. /\ Arrived(r) = items - 1 /\ Arrived(r)' = items /\ Off(r)' = Off(r)
        /\ items \in Big /\ items \in Nat
    BY <1>1, Types DEF Arrived, Busy, Off, WriterInv
  <1>4. PICK g \in Nat, L \in Nat : g = Len(got[r]) /\ L = Len(sock[r])
    BY <1>1, ArrivedIs
  <1>5. /\ Len(sock'[r]) = L + 1 /\ sock'[r][L + 1] = items
        /\ \A i \in 1..L : sock'[r][i] = sock[r][i]
    BY <1>1, <1>2, <1>4, ArrivedIs
  <1>6. PICK o \in 0..1 : o = Off(r)
    BY <1>1, ArrivedIs
  <1>7. /\ g <= items - 1
        /\ \A i \in (1 + o)..L :
              /\ sock[r][i] \in Big /\ g < sock[r][i]
              /\ sock[r][i] + (L - i) <= items - 1
        /\ \A i, j \in (1 + o)..L : i < j => sock[r][i] < sock[r][j]
        /\ \A b \in Big : g < b /\ b <= items - 1 =>
              \E i \in (1 + o)..L : sock[r][i] = b
        /\ rd[r] = "connect" => sock[r] # <<>>
    BY <1>1, <1>3, <1>4, <1>6 DEF LocalSock
  <1>8. \A i \in (1 + o)..(L + 1) : i = L + 1 \/ (i \in (1 + o)..L /\ i \in 1..L)
    OBVIOUS
  <1>9. \A b \in Big : b \in Nat
    OBVIOUS
  <1>10. \A i \in (1 + o)..(L + 1) :
              /\ sock'[r][i] \in Big
              /\ g < sock'[r][i]
              /\ sock'[r][i] + (L + 1 - i) <= items
    <2> SUFFICES ASSUME NEW i \in (1 + o)..(L + 1)
                 PROVE  /\ sock'[r][i] \in Big
                        /\ g < sock'[r][i]
                        /\ sock'[r][i] + (L + 1 - i) <= items
      OBVIOUS
    <2>1. CASE i = L + 1
      BY <1>3, <1>5, <1>7, <2>1
    <2>2. CASE i \in (1 + o)..L /\ i \in 1..L
      <3>1. /\ sock'[r][i] = sock[r][i] /\ sock[r][i] \in Big /\ g < sock[r][i]
            /\ sock[r][i] + (L - i) <= items - 1
        BY <1>5, <1>7, <2>2
      <3>2. sock[r][i] \in Nat
        BY <1>9, <3>1
      <3>3. QED
        BY <1>3, <3>1, <3>2
    <2>3. QED
      BY <1>8, <2>1, <2>2
  <1>11. \A i, j \in (1 + o)..(L + 1) : i < j => sock'[r][i] < sock'[r][j]
    <2> SUFFICES ASSUME NEW i \in (1 + o)..(L + 1), NEW j \in (1 + o)..(L + 1), i < j
                 PROVE  sock'[r][i] < sock'[r][j]
      OBVIOUS
    <2>1. i \in (1 + o)..L /\ i \in 1..L
      OBVIOUS
    <2>2. CASE j = L + 1
      <3>1. /\ sock'[r][i] = sock[r][i] /\ sock[r][i] \in Big
            /\ sock[r][i] + (L - i) <= items - 1
        BY <1>5, <1>7, <2>1
      <3>2. sock[r][i] \in Nat
        BY <1>9, <3>1
      <3>3. QED
        BY <1>3, <1>5, <2>1, <2>2, <3>1, <3>2
    <2>3. CASE j \in (1 + o)..L /\ j \in 1..L
      BY <1>5, <1>7, <2>1, <2>3
    <2>4. QED
      BY <1>8, <2>2, <2>3
  <1>12. \A b \in Big : g < b /\ b <= items =>
              \E i \in (1 + o)..(L + 1) : sock'[r][i] = b
    <2> SUFFICES ASSUME NEW b \in Big, g < b, b <= items
                 PROVE  \E i \in (1 + o)..(L + 1) : sock'[r][i] = b
      OBVIOUS
    <2>1. CASE b = items
      <3>1. L + 1 \in (1 + o)..(L + 1)
        <4>1. o = 1 => L > 0
          <5>1. sock[r] \in Seq(0..MaxItems) /\ (o = 1 => rd[r] = "connect")
            BY <1>1, <1>6, ArrivedIs
          <5>2. QED
            BY <1>4, <1>7, <5>1
        <4>2. QED
          BY <4>1
      <3>2. QED
        BY <1>5, <2>1, <3>1
    <2>2. CASE b # items
      <3>1. PICK i \in (1 + o)..L : sock[r][i] = b
        <4>1. b \in Nat /\ b <= items - 1
          BY <1>3, <1>9, <2>2
        <4>2. QED
          BY <1>7, <4>1
      <3>2. i \in 1..L /\ i \in (1 + o)..(L + 1)
        OBVIOUS
      <3>3. QED
        BY <1>5, <3>1, <3>2
    <2>3. QED
      BY <2>1, <2>2
  <1>13. sock'[r] # <<>>
    BY <1>5
  <1>14. QED
    BY <1>1, <1>3, <1>4, <1>5, <1>6, <1>7, <1>10, <1>11, <1>12, <1>13 DEF LocalSock

(* The message at the head of a local reader's socket is the large object  *)
(* that it waits for.                                                      *)
LEMMA LocalHead ==
    ASSUME ShmTypeOK, WriterInv, ReaderInv, NEW r \in Local, LocalSock(r),
           rd[r] = "recv", sock[r] # <<>>
    PROVE  /\ w # "connect" /\ Len(sock[r]) \in Nat \ {0} /\ Off(r) = 0
           /\ sock[r][1] = Len(got[r]) + 1 /\ Head(sock[r]) = Len(got[r]) + 1
           /\ Len(got[r]) + 1 \in Big /\ Len(got[r]) + 1 <= Arrived(r)
  <1>1. r \in Readers
    BY Types
  <1>2. /\ w # "connect" /\ Len(sock[r]) \in Nat \ {0} /\ Off(r) = 0
        /\ Len(got[r]) \in Nat /\ Head(sock[r]) = sock[r][1]
    BY <1>1, ArrivedIs DEF LocalSock, Off
  <1>3. PICK g \in Nat : g = Len(got[r])
    BY <1>2
  <1>4. Count(r) = g + 1 /\ g + 1 \in Big /\ g + 1 <= sent
    BY <1>1, <1>3, ArrivedIs DEF Count, ReaderInv, ReaderIs
  <1>5. /\ sock[r][1] \in Big /\ g < sock[r][1]
        /\ sock[r][1] + (Len(sock[r]) - 1) <= Arrived(r)
    BY <1>2, <1>3 DEF LocalSock
  <1>6. g + 1 <= Arrived(r) /\ sock[r][1] \in Nat /\ Arrived(r) \in Nat
    BY <1>1, <1>2, <1>5, ArrivedIs
  <1>7. PICK i \in 1..Len(sock[r]) : sock[r][i] = g + 1
    <2>1. (1 + Off(r))..Len(sock[r]) = 1..Len(sock[r])
      BY <1>2
    <2>2. Len(got[r]) < g + 1 /\ g + 1 <= Arrived(r)
      BY <1>3, <1>6
    <2>3. \E i \in (1 + Off(r))..Len(sock[r]) : sock[r][i] = g + 1
      BY <1>2, <1>4, <2>2 DEF LocalSock
    <2>4. QED
      BY <2>1, <2>3
  <1>8. i = 1
    <2>1. 1 < i => sock[r][1] < sock[r][i]
      BY <1>2, <1>7 DEF LocalSock
    <2>2. QED
      BY <1>2, <1>3, <1>5, <1>6, <1>7, <2>1
  <1>9. QED
    BY <1>2, <1>3, <1>4, <1>6, <1>7, <1>8

(* A local reader takes the head of its socket: READY, or an object. *)
LEMMA LocalTakes ==
    ASSUME ShmTypeOK, WriterInv, ReaderInv, NEW r \in Local, LocalSock(r),
           SockInv, ReadReady(r) \/ Receive(r)
    PROVE  LocalSock(r)'
  <1>1. /\ sock[r] # <<>> /\ sock'[r] = Tail(sock[r]) /\ w' = w /\ items' = items
        /\ subscribed' = subscribed /\ rd'[r] = "idle" /\ r \in Readers /\ r \notin Remote
    <2>1. r \in Readers /\ r \notin Remote
      BY DEF Local, Remote, Readers
    <2>2. r \in DOMAIN rd /\ r \in DOMAIN sock
      BY <2>1 DEF ShmTypeOK
    <2>3. QED
      BY <2>1, <2>2 DEF ReadReady, Receive, writerVars
  <1>2. PICK g \in Nat, L \in Nat \ {0}, a \in Nat :
             g = Len(got[r]) /\ L = Len(sock[r]) /\ a = Arrived(r)
    <2>1. /\ sock[r] \in Seq(0..MaxItems) /\ Len(sock[r]) \in Nat
          /\ Len(got[r]) \in Nat /\ Arrived(r) \in Nat
      BY <1>1, ArrivedIs
    <2>2. Len(sock[r]) # 0
      BY <1>1, <2>1
    <2>3. QED
      BY <2>1, <2>2
  <1>3. /\ Arrived(r)' = a /\ Off(r)' = 0 /\ w # "connect"
    <2>1. Arrived(r)' = a
      BY <1>1, <1>2 DEF Arrived, Busy
    <2>2. QED
      BY <1>1, <2>1 DEF Off, LocalSock
  <1>4. /\ Len(sock'[r]) = L - 1
        /\ \A i \in 1..(L - 1) : sock'[r][i] = sock[r][i + 1]
    BY <1>1, <1>2, ArrivedIs
  <1>5. PICK o \in 0..1 : o = Off(r)
    BY <1>1, ArrivedIs
  <1>6. PICK h \in Nat : h = Len(got'[r])
    <2>1. got'[r] = got[r] \/ got'[r] = Append(got[r], Head(sock[r]))
      BY <1>1 DEF ReadReady, Receive, ShmTypeOK
    <2>2. Len(got'[r]) \in Nat
      BY <1>1, <2>1, ArrivedIs
    <2>3. QED
      BY <2>2
  <1>7. /\ h <= a
        /\ \A i \in 2..L : /\ sock[r][i] \in Big /\ h < sock[r][i]
                           /\ sock[r][i] + (L - i) <= a
        /\ \A i, j \in 2..L : i < j => sock[r][i] < sock[r][j]
        /\ \A b \in Big : h < b /\ b <= a => \E i \in 2..L : sock[r][i] = b
    <2>1. /\ g <= a
          /\ \A i \in (1 + o)..L :
                /\ sock[r][i] \in Big /\ g < sock[r][i]
                /\ sock[r][i] + (L - i) <= a
          /\ \A i, j \in (1 + o)..L : i < j => sock[r][i] < sock[r][j]
          /\ \A b \in Big : g < b /\ b <= a =>
                \E i \in (1 + o)..L : sock[r][i] = b
      BY <1>2, <1>3, <1>5 DEF LocalSock
    <2>2. CASE ReadReady(r)
      <3>1. got'[r] = got[r] /\ o = 1
        BY <1>1, <1>5, <2>2 DEF ReadReady, Off
      <3>2. h = g
        BY <1>2, <1>6, <3>1
      <3>3. (1 + o)..L = 2..L
        BY <3>1
      <3>4. QED
        BY <2>1, <3>2, <3>3
    <2>3. CASE Receive(r)
      <3>1. rd[r] = "recv" /\ got'[r] = Append(got[r], Head(sock[r])) /\ o = 0
        BY <1>1, <1>5, <2>3 DEF Receive, ShmTypeOK, Off
      <3>2. h = g + 1
        BY <1>1, <1>2, <1>6, <3>1, ArrivedIs
      <3>3. sock[r][1] = g + 1 /\ g + 1 <= a
        BY <1>1, <1>2, <3>1, LocalHead
      <3>4. \A i \in 2..L : i \in (1 + o)..L /\ 1 \in (1 + o)..L /\ 1 < i
        BY <3>1
      <3>5. \A i \in 2..L : /\ sock[r][i] \in Big /\ h < sock[r][i]
                            /\ sock[r][i] + (L - i) <= a
        BY <2>1, <3>2, <3>3, <3>4
      <3>6. \A b \in Big : h < b /\ b <= a => \E i \in 2..L : sock[r][i] = b
        <4> SUFFICES ASSUME NEW b \in Big, h < b, b <= a
                     PROVE  \E i \in 2..L : sock[r][i] = b
          OBVIOUS
        <4>1. b \in Nat
          OBVIOUS
        <4>2. g < b /\ b # g + 1
          BY <3>2, <4>1
        <4>3. PICK i \in (1 + o)..L : sock[r][i] = b
          BY <2>1, <4>2
        <4>4. i # 1
          BY <3>3, <4>2, <4>3
        <4>5. QED
          BY <3>1, <4>3, <4>4
      <3>7. QED
        BY <2>1, <3>2, <3>3, <3>4, <3>5, <3>6
    <2>4. QED
      BY <2>2, <2>3
  <1>8. \A i \in 1..(L - 1) : /\ sock'[r][i] \in Big /\ h < sock'[r][i]
                              /\ sock'[r][i] + (L - 1 - i) <= a
    <2> SUFFICES ASSUME NEW i \in 1..(L - 1)
                 PROVE  /\ sock'[r][i] \in Big /\ h < sock'[r][i]
                        /\ sock'[r][i] + (L - 1 - i) <= a
      OBVIOUS
    <2>1. i + 1 \in 2..L
      OBVIOUS
    <2>2. /\ sock[r][i + 1] \in Big /\ h < sock[r][i + 1]
          /\ sock[r][i + 1] + (L - (i + 1)) <= a
      BY <1>7, <2>1
    <2>3. sock[r][i + 1] \in Nat
      <3>1. \A b \in Big : b \in Nat
        OBVIOUS
      <3>2. QED
        BY <2>2, <3>1
    <2>4. QED
      BY SMTT(30), <1>4, <2>2, <2>3
  <1>9. \A i, j \in 1..(L - 1) : i < j => sock'[r][i] < sock'[r][j]
    <2> SUFFICES ASSUME NEW i \in 1..(L - 1), NEW j \in 1..(L - 1), i < j
                 PROVE  sock'[r][i] < sock'[r][j]
      OBVIOUS
    <2>1. i + 1 \in 2..L /\ j + 1 \in 2..L /\ i + 1 < j + 1
      OBVIOUS
    <2>2. sock[r][i + 1] < sock[r][j + 1]
      BY <1>7, <2>1
    <2>3. QED
      BY <1>4, <2>2
  <1>10. \A b \in Big : h < b /\ b <= a => \E i \in 1..(L - 1) : sock'[r][i] = b
    <2> SUFFICES ASSUME NEW b \in Big, h < b, b <= a
                 PROVE  \E i \in 1..(L - 1) : sock'[r][i] = b
      OBVIOUS
    <2>1. PICK i \in 2..L : sock[r][i] = b
      BY <1>7
    <2>2. i - 1 \in 1..(L - 1) /\ (i - 1) + 1 = i
      OBVIOUS
    <2>3. QED
      BY <1>4, <2>1, <2>2
  <1>11. r \in subscribed'
    BY <1>1, <1>3 DEF LocalSock
  <1>12. QED
    BY <1>1, <1>3, <1>4, <1>6, <1>7, <1>8, <1>9, <1>10, <1>11 DEF LocalSock

(* A remote reader takes the head of its socket: READY, or the next object. *)
LEMMA RemoteTakes ==
    ASSUME ShmTypeOK, WriterInv, NEW r \in Remote, SockInv,
           ReadReady(r) \/ Receive(r)
    PROVE  /\ RemoteSock(r)'
           /\ Receive(r) => /\ Head(sock[r]) = Len(got[r]) + 1
                            /\ Len(got[r]) + 1 <= Arrived(r)
  <1>1. /\ sock[r] # <<>> /\ sock'[r] = Tail(sock[r]) /\ w' = w /\ items' = items
        /\ subscribed' = subscribed /\ rd'[r] = "idle" /\ r \in Readers /\ r \notin Local
    <2>1. r \in Readers /\ r \notin Local
      BY DEF Local, Remote, Readers
    <2>2. r \in DOMAIN rd /\ r \in DOMAIN sock
      BY <2>1 DEF ShmTypeOK
    <2>3. QED
      BY <2>1, <2>2 DEF ReadReady, Receive, writerVars
  <1>2. PICK g \in Nat, L \in Nat \ {0}, a \in Nat :
             g = Len(got[r]) /\ L = Len(sock[r]) /\ a = Arrived(r)
    <2>1. /\ sock[r] \in Seq(0..MaxItems) /\ Len(sock[r]) \in Nat
          /\ Len(got[r]) \in Nat /\ Arrived(r) \in Nat
      BY <1>1, ArrivedIs
    <2>2. Len(sock[r]) # 0
      BY <1>1, <2>1
    <2>3. QED
      BY <2>1, <2>2
  <1>3. Arrived(r)' = a /\ Off(r)' = 0
    <2>1. Arrived(r)' = a
      BY <1>1, <1>2 DEF Arrived, Busy
    <2>2. QED
      BY <1>1, <2>1 DEF Off
  <1>4. /\ Len(sock'[r]) = L - 1
        /\ \A i \in 1..(L - 1) : sock'[r][i] = sock[r][i + 1]
    BY <1>1, <1>2, ArrivedIs
  <1>5. PICK o \in 0..1 : o = Off(r)
    BY <1>1, ArrivedIs
  <1>6. /\ w \notin {"connect", "remotes"} /\ r \in subscribed
        /\ L = o + a - g
        /\ \A i \in (1 + o)..L : sock[r][i] = g + i - o
    BY <1>1, <1>2, <1>5 DEF SockInv, RemoteSock
  <1>7. CASE ReadReady(r)
    <2>1. o = 1 /\ got'[r] = got[r]
      BY <1>1, <1>5, <1>7 DEF ReadReady, Off
    <2>2. \A i \in 1..(L - 1) : sock'[r][i] = g + i
      <3> SUFFICES ASSUME NEW i \in 1..(L - 1) PROVE sock'[r][i] = g + i
        OBVIOUS
      <3>1. i + 1 \in (1 + o)..L
        BY <2>1
      <3>2. sock[r][i + 1] = g + (i + 1) - o
        BY <1>6, <3>1
      <3>3. QED
        BY <1>4, <2>1, <3>2
    <2>3. RemoteSock(r)'
      BY <1>1, <1>2, <1>3, <1>4, <1>6, <2>1, <2>2 DEF RemoteSock
    <2>4. ~Receive(r)
      BY <1>1, <1>7 DEF ReadReady, Receive
    <2>5. QED
      BY <2>3, <2>4
  <1>8. CASE Receive(r)
    <2>1. o = 0 /\ got'[r] = Append(got[r], Head(sock[r]))
      BY <1>1, <1>5, <1>8 DEF Receive, Off, ShmTypeOK
    <2>2. Len(got'[r]) = g + 1
      BY <1>1, <1>2, <2>1, ArrivedIs
    <2>3. Head(sock[r]) = g + 1 /\ g + 1 <= a
      <3>1. Head(sock[r]) = sock[r][1]
        BY <1>1, <1>2, ArrivedIs
      <3>2. QED
        BY <1>2, <1>6, <2>1, <3>1
    <2>4. \A i \in 1..(L - 1) : sock'[r][i] = (g + 1) + i
      <3> SUFFICES ASSUME NEW i \in 1..(L - 1) PROVE sock'[r][i] = (g + 1) + i
        OBVIOUS
      <3>1. i + 1 \in (1 + o)..L
        BY <2>1
      <3>2. sock[r][i + 1] = g + (i + 1) - o
        BY <1>6, <3>1
      <3>3. QED
        BY <1>4, <2>1, <3>2
    <2>5. RemoteSock(r)'
      <3>1. Len(sock'[r]) = 0 + a - Len(got'[r])
        BY <1>4, <1>6, <2>1, <2>2
      <3>2. \A i \in (1 + 0)..Len(sock'[r]) : sock'[r][i] = Len(got'[r]) + i - 0
        BY <1>4, <2>2, <2>4
      <3>3. QED
        BY <1>1, <1>3, <1>6, <3>1, <3>2 DEF RemoteSock
    <2>6. QED
      BY <1>2, <2>3, <2>5
  <1>9. QED
    BY <1>7, <1>8

(* Remote sockets: READY, and one object more. *)
LEMMA RemotePublished ==
    ASSUME ShmTypeOK, WriterInv, NEW r \in Remote, SockInv, RemotesReady \/ SendRemote
    PROVE  RemoteSock(r)'
  <1>1. /\ r \in Readers /\ r \notin Local /\ w' = "idle" /\ items' = items
        /\ UNCHANGED <<rd, got, subscribed>> /\ r \in subscribed
        /\ w \in {"remotes", "remote"}
    BY DEF RemotesReady, SendRemote, readerVars, Remote, Local, Readers, SockInv, RemoteSock
  <1>2. PICK g \in Nat, L \in Nat, o \in 0..1 :
             g = Len(got[r]) /\ L = Len(sock[r]) /\ o = Off(r)
    BY <1>1, ArrivedIs
  <1>3. Off(r)' = o /\ Arrived(r)' = items
    BY <1>1, <1>2 DEF Off, Arrived, Busy
  <1>4. CASE RemotesReady
    <2>1. w = "remotes" /\ sock[r] = <<>> /\ rd[r] = "connect" /\ items = 0
      BY <1>1, <1>4 DEF RemotesReady, SockInv, RemoteSock, WriterInv
    <2>2. sock'[r] = Append(sock[r], READY) /\ got[r] = <<>>
      BY <1>1, <1>4, <2>1 DEF RemotesReady, Published, SockInv
    <2>3. Len(sock'[r]) = 1 /\ Len(got[r]) = 0 /\ o = 1
      BY <1>2, <2>1, <2>2 DEF Off
    <2>4. QED
      BY <1>1, <1>3, <2>1, <2>3 DEF RemoteSock
  <1>5. CASE SendRemote
    <2>1. w = "remote" /\ sock'[r] = Append(sock[r], items) /\ items \in Nat \ {0}
      BY <1>1, <1>5, Types DEF SendRemote, Published, WriterInv
    <2>2. Arrived(r) = items - 1
      BY <2>1 DEF Arrived, Busy
    <2>3. /\ L = o + (items - 1) - g
          /\ \A i \in (1 + o)..L : sock[r][i] = g + i - o
          /\ rd[r] \in {"connect", "idle"}
      BY <1>2, <2>1, <2>2 DEF SockInv, RemoteSock
    <2>4. /\ Len(sock'[r]) = L + 1 /\ sock'[r][L + 1] = items
          /\ \A i \in 1..L : sock'[r][i] = sock[r][i]
      BY <1>1, <1>2, <2>1, ArrivedIs
    <2>5. \A i \in (1 + o)..(L + 1) : sock'[r][i] = g + i - o
      <3> SUFFICES ASSUME NEW i \in (1 + o)..(L + 1) PROVE sock'[r][i] = g + i - o
        OBVIOUS
      <3>1. CASE i = L + 1
        BY <2>1, <2>3, <2>4, <3>1
      <3>2. CASE i \in (1 + o)..L
        BY <2>3, <2>4, <3>2
      <3>3. QED
        BY <3>1, <3>2
    <2>6. Len(sock'[r]) = o + items - g
      BY <2>1, <2>3, <2>4
    <2>7. QED
      BY <1>1, <1>2, <1>3, <2>3, <2>4, <2>5, <2>6 DEF RemoteSock
  <1>6. QED
    BY <1>4, <1>5

(* Steps that leave the sockets alone. *)
LEMMA QuietSockets ==
    ASSUME ShmTypeOK, WriterInv, MemInv, ReaderInv, SockInv, WriterInv', ShmTypeOK',
           \/ AcquireWrite \/ Fill \/ Filled \/ ResetFlag \/ MarkWritten
           \/ (\E r \in Readers : Subscribe(r)) \/ (\E r \in Local : Dequeuing(r))
           \/ (\E p \in Procs : Drain(p)) \/ UNCHANGED shmVars
    PROVE  SockInv'
  <1>1. /\ sock' = sock /\ subscribed \subseteq subscribed'
        /\ w' = "connect" <=> w = "connect"
        /\ w' \in {"connect", "remotes"} <=> w \in {"connect", "remotes"}
        /\ \A s \in Readers : rd'[s] = "connect" <=> rd[s] = "connect"
        /\ \A s \in Remote : rd'[s] = rd[s] /\ got'[s] = got[s]
        /\ \A s \in Readers : rd[s] = "connect" => got'[s] = got[s]
    <2>1. ASSUME NEW r \in Local, Dequeuing(r)
          PROVE  /\ sock' = sock /\ subscribed' = subscribed /\ w' = w
                 /\ rd[r] # "connect" /\ rd'[r] # "connect"
                 /\ \A s \in Readers : s # r => rd'[s] = rd[s] /\ got'[s] = got[s]
      <3>1. r \in DOMAIN rd /\ DOMAIN rd = Readers /\ DOMAIN got = Readers
        BY DEF ShmTypeOK, Readers
      <3>2. QED
        BY <2>1, <3>1 DEF Dequeuing, CheckRead, CheckWritten, ReadChunk, MarkRead, writerVars
    <2>2. \A s \in Remote : s \in Readers /\ s \notin Local
      BY DEF Remote, Local, Readers
    <2>3. CASE \E r \in Local : Dequeuing(r)
      <3>1. PICK r \in Local : Dequeuing(r)
        BY <2>3
      <3>2. QED
        BY <2>1, <2>2, <3>1
    <2>4. CASE \E p \in Procs : Drain(p)
      BY <2>4 DEF Drain, writerVars, readerVars
    <2>5. CASE \E r \in Readers : Subscribe(r)
      BY <2>5 DEF Subscribe, writerVars, readerVars
    <2>6. CASE AcquireWrite \/ Fill \/ Filled \/ ResetFlag \/ MarkWritten
      BY <2>6 DEF AcquireWrite, Fill, Filled, ResetFlag, MarkWritten, AfterChunk, readerVars
    <2>7. CASE UNCHANGED shmVars
      BY <2>7 DEF shmVars, writerVars, readerVars
    <2>8. QED
      BY <2>3, <2>4, <2>5, <2>6, <2>7
  <1>2. ASSUME NEW s \in Readers
        PROVE  /\ Arrived(s)' = Arrived(s)
                  \/ (s \in Local /\ Arrived(s)' = Arrived(s) + 1 /\ Arrived(s)' \notin Big)
               /\ ~MarkWritten => Arrived(s)' = Arrived(s)
    <2>1. CASE AcquireWrite
      BY <2>1, Types DEF AcquireWrite, Arrived, Busy
    <2>2. CASE Fill \/ Filled
      BY <2>2 DEF Fill, Filled, Arrived, Busy
    <2>3. CASE ResetFlag
      BY <2>3 DEF ResetFlag, Arrived, Busy
    <2>4. CASE MarkWritten
      <3>1. /\ w = "mark" /\ w' = IF items \in Big THEN "publish" ELSE AfterChunk
            /\ items' = items /\ items \in Nat
        BY <2>4, Types DEF MarkWritten
      <3>2. Arrived(s) = items - 1
        BY <3>1 DEF Arrived, Busy
      <3>3. CASE items \in Big
        BY <2>4, <3>1, <3>2, <3>3 DEF Arrived, Busy
      <3>4. CASE items \notin Big /\ s \in Local
        <4>1. s \notin Remote
          BY <3>4 DEF Local, Remote
        <4>2. Arrived(s)' = items
          BY <3>1, <3>4, <4>1 DEF Arrived, Busy, AfterChunk
        <4>3. QED
          BY <2>4, <3>1, <3>2, <3>4, <4>2
      <3>5. CASE items \notin Big /\ s \notin Local
        <4>1. s \in Remote /\ NRemote > 0
          BY <3>5 DEF Readers, Remote
        <4>2. Arrived(s)' = items - 1
          BY <3>1, <3>5, <4>1 DEF Arrived, Busy, AfterChunk
        <4>3. QED
          BY <3>2, <4>2
      <3>6. QED
        BY <3>3, <3>4, <3>5
    <2>5. ASSUME w' = w, items' = items PROVE Arrived(s)' = Arrived(s)
      BY <2>5 DEF Arrived, Busy
    <2>6. CASE (\E r \in Readers : Subscribe(r)) \/ (\E r \in Local : Dequeuing(r))
               \/ (\E p \in Procs : Drain(p)) \/ UNCHANGED shmVars
      <3>1. w' = w /\ items' = items
        BY <2>6 DEF Subscribe, Dequeuing, CheckRead, CheckWritten, ReadChunk, MarkRead,
                    Drain, shmVars, writerVars
      <3>2. QED
        BY <2>5, <3>1
    <2>7. QED
      BY <2>1, <2>2, <2>3, <2>4, <2>6
  <1>3. ASSUME NEW s \in Local
        PROVE  /\ Len(got'[s]) = Len(got[s])
                  \/ (Len(got'[s]) = Len(got[s]) + 1 /\ Len(got'[s]) \notin Big)
               /\ Len(got'[s]) <= Arrived(s)' \/ w = "connect"
    <2>1. s \in Readers /\ s \notin Remote
      BY DEF Readers, Local, Remote
    <2>2. Len(got[s]) \in Nat /\ Arrived(s) \in Nat /\ Arrived(s)' \in Nat
          /\ (Arrived(s)' = Arrived(s) \/ Arrived(s)' = Arrived(s) + 1)
      BY <1>2, <2>1, ArrivedIs
    <2>3. w # "connect" => Len(got[s]) <= Arrived(s)
      BY DEF SockInv, LocalSock
    <2>4. CASE got'[s] = got[s]
      BY <2>2, <2>3, <2>4
    <2>5. CASE got'[s] # got[s]
      <3>1. MarkRead(s) /\ obj[s] # Overflow /\ got'[s] = Append(got[s], obj[s])
        <4>1. ~(AcquireWrite \/ Fill \/ Filled \/ ResetFlag \/ MarkWritten)
              /\ ~(\E r \in Readers : Subscribe(r)) /\ ~(\E p \in Procs : Drain(p))
              /\ ~(UNCHANGED shmVars)
          BY <2>5 DEF AcquireWrite, Fill, Filled, ResetFlag, MarkWritten, Subscribe, Drain, shmVars
        <4>2. PICK r \in Local : Dequeuing(r)
          BY <4>1
        <4>3. MarkRead(r)
          BY <2>5, <4>2 DEF Dequeuing, CheckRead, CheckWritten, ReadChunk
        <4>4. s \in DOMAIN got
          BY <2>1 DEF ShmTypeOK
        <4>5. QED
          BY <2>5, <4>3, <4>4 DEF MarkRead
      <3>2. rd[s] = "read" /\ UNCHANGED <<w, items>>
        BY <3>1 DEF MarkRead, writerVars
      <3>3. PICK n \in Nat : n = Len(got[s]) + 1
        BY <2>2
      <3>4. n \in Window /\ n <= sent /\ n \notin Big
        <4>1. Count(s) + 1 = n
          BY <3>2, <3>3, Found
        <4>2. QED
          BY <3>1, <3>2, <4>1, Found
      <3>5. Len(got'[s]) = n
        BY <2>1, <3>1, <3>3, ArrivedIs
      <3>6. Arrived(s)' = Arrived(s)
        BY <3>2 DEF Arrived, Busy
      <3>7. n <= Arrived(s)
        <4>1. w = "publish" => n # items
          BY <3>4 DEF WriterInv
        <4>2. sent \in Nat /\ items \in Nat
          BY Types
        <4>3. QED
          BY <2>1, <3>4, <4>1, <4>2 DEF Arrived, WriterInv
      <3>8. QED
        BY <3>3, <3>4, <3>5, <3>6, <3>7
    <2>6. QED
      BY <2>4, <2>5
  <1>4. \A s \in Local : LocalSock(s)'
    <2> SUFFICES ASSUME NEW s \in Local PROVE LocalSock(s)'
      OBVIOUS
    <2>1. s \in Readers /\ LocalSock(s)
      BY DEF Readers, SockInv
    <2>2. Arrived(s)' = Arrived(s) \/ (Arrived(s)' = Arrived(s) + 1 /\ Arrived(s)' \notin Big)
      BY <1>2, <2>1
    <2>3. Arrived(s)' \in Nat
      BY <2>1, <2>2, ArrivedIs
    <2>4. sock'[s] = sock[s] /\ (rd'[s] = "connect" <=> rd[s] = "connect")
      BY <1>1, <2>1
    <2>5. QED
      BY <1>1, <1>3, <2>1, <2>2, <2>3, <2>4, LocalSame
  <1>5. \A s \in Remote : RemoteSock(s)'
    <2> SUFFICES ASSUME NEW s \in Remote PROVE RemoteSock(s)'
      OBVIOUS
    <2>1. s \in Readers /\ s \notin Local /\ RemoteSock(s)
      BY DEF Readers, Remote, Local, SockInv
    <2>2. Arrived(s)' = Arrived(s)
      BY <1>2, <2>1
    <2>3. QED
      BY <1>1, <2>1, <2>2, RemoteSame
  <1>6. \A s \in Readers : rd'[s] = "connect" => got'[s] = <<>>
    BY <1>1 DEF SockInv
  <1>7. QED
    BY <1>4, <1>5, <1>6 DEF SockInv

(* Steps of the sockets. *)
LEMMA SocketSteps ==
    ASSUME ShmTypeOK, WriterInv, ReaderInv, SockInv,
           \/ LocalsReady \/ RemotesReady \/ Publish \/ SendRemote
           \/ \E r \in Readers : ReadReady(r) \/ Receive(r)
    PROVE  SockInv'
  <1>1. \A s \in Local : s \in Readers /\ s \notin Remote
    BY DEF Readers, Local, Remote
  <1>2. \A s \in Remote : s \in Readers /\ s \notin Local
    BY DEF Readers, Local, Remote
  <1>3. DOMAIN sock = Readers /\ DOMAIN rd = Readers /\ DOMAIN got = Readers
    BY DEF ShmTypeOK
  <1>4. CASE LocalsReady
    <2>1. /\ w = "connect" /\ w' = "remotes" /\ items' = items /\ items = 0
          /\ Local \subseteq subscribed
          /\ UNCHANGED <<rd, got, subscribed>>
          /\ \A s \in Local : sock'[s] = Append(sock[s], READY)
          /\ \A s \in Remote : sock'[s] = sock[s]
      BY <1>1, <1>2, <1>4 DEF LocalsReady, Published, readerVars, WriterInv
    <2>2. ASSUME NEW s \in Local PROVE LocalSock(s)'
      <3>1. rd[s] = "connect" /\ got[s] = <<>> /\ sock[s] = <<>>
        BY <1>1, <2>1 DEF SockInv, LocalSock
      <3>2. Arrived(s)' = 0 /\ Off(s)' = 1 /\ Len(got[s]) = 0
        BY <1>1, <2>1, <3>1 DEF Arrived, Busy, Off
      <3>3. sock'[s] # <<>> /\ Len(sock'[s]) = 1
        <4>1. sock[s] \in Seq(0..MaxItems) /\ READY \in 0..MaxItems /\ Len(sock[s]) = 0
          BY <1>1, <3>1, ArrivedIs DEF READY
        <4>2. sock'[s] = Append(sock[s], READY)
          BY <2>1
        <4>3. QED
          BY SMTT(30), <4>1, <4>2
      <3>4. \A b \in Big : ~(b <= 0)
        OBVIOUS
      <3>5. QED
        BY <2>1, <3>1, <3>2, <3>3, <3>4 DEF LocalSock
    <2>3. ASSUME NEW s \in Remote PROVE RemoteSock(s)'
      BY <1>2, <2>1 DEF SockInv, RemoteSock
    <2>4. QED
      BY <2>1, <2>2, <2>3 DEF SockInv
  <1>5. CASE RemotesReady \/ SendRemote
    <2>1. /\ w' # "connect" /\ w # "connect" /\ items' = items
          /\ UNCHANGED <<rd, got, subscribed>> /\ w \in {"remotes", "remote"} /\ w' = "idle"
          /\ \A s \in Local : sock'[s] = sock[s]
      BY <1>1, <1>5 DEF RemotesReady, SendRemote, Published, readerVars
    <2>2. ASSUME NEW s \in Local PROVE LocalSock(s)'
      <3>1. Arrived(s)' = Arrived(s) /\ Arrived(s) \in Nat /\ LocalSock(s)
        BY <1>1, <2>1, ArrivedIs DEF Arrived, Busy, SockInv
      <3>2. Len(got[s]) <= Arrived(s)
        BY <2>1, <3>1 DEF LocalSock
      <3>3. QED
        BY <2>1, <3>1, <3>2, LocalSame
    <2>3. \A s \in Remote : RemoteSock(s)'
      BY <1>5, RemotePublished
    <2>4. QED
      BY <2>1, <2>2, <2>3 DEF SockInv
  <1>6. CASE Publish
    <2>1. /\ w = "publish" /\ w' = AfterChunk /\ items' = items
          /\ UNCHANGED <<rd, got, subscribed>>
          /\ \A s \in Remote : sock'[s] = sock[s]
      BY <1>2, <1>6 DEF Publish, Published, readerVars
    <2>2. \A s \in Local : LocalSock(s)'
      BY <1>6, LocalPublished DEF SockInv
    <2>3. ASSUME NEW s \in Remote PROVE RemoteSock(s)'
      <3>1. NRemote > 0
        BY DEF Remote
      <3>2. w' = "remote"
        BY <2>1, <3>1 DEF AfterChunk
      <3>3. Arrived(s)' = Arrived(s) /\ RemoteSock(s)
        BY <2>1, <3>2 DEF Arrived, Busy, SockInv
      <3>4. QED
        BY <2>1, <3>2, <3>3, RemoteSame
    <2>4. QED
      BY <2>1, <2>2, <2>3 DEF SockInv
  <1>7. ASSUME NEW r \in Readers, ReadReady(r) \/ Receive(r) PROVE SockInv'
    <2>1. /\ w' = w /\ items' = items /\ subscribed' = subscribed /\ rd'[r] = "idle"
          /\ \A s \in Readers : s # r => rd'[s] = rd[s] /\ got'[s] = got[s] /\ sock'[s] = sock[s]
      BY <1>3, <1>7 DEF ReadReady, Receive, writerVars
    <2>2. \A s \in Readers : Arrived(s)' = Arrived(s)
      BY <2>1 DEF Arrived, Busy
    <2>3. ASSUME NEW s \in Local PROVE LocalSock(s)'
      <3>1. CASE s = r
        BY <1>7, <3>1, LocalTakes DEF SockInv
      <3>2. CASE s # r
        <4>1. /\ LocalSock(s) /\ Arrived(s)' \in Nat /\ sock'[s] = sock[s] /\ got'[s] = got[s]
              /\ rd'[s] = rd[s] /\ Arrived(s)' = Arrived(s)
          BY <1>1, <2>1, <2>2, <3>2, ArrivedIs DEF SockInv
        <4>2. Len(got[s]) <= Arrived(s) \/ w = "connect"
          BY <4>1 DEF LocalSock
        <4>3. QED
          BY <2>1, <4>1, <4>2, LocalSame
      <3>3. QED
        BY <3>1, <3>2
    <2>4. ASSUME NEW s \in Remote PROVE RemoteSock(s)'
      <3>1. CASE s = r
        BY <1>7, <3>1, RemoteTakes
      <3>2. CASE s # r
        <4>1. RemoteSock(s) /\ sock'[s] = sock[s] /\ got'[s] = got[s] /\ rd'[s] = rd[s]
              /\ Arrived(s)' = Arrived(s)
          BY <1>2, <2>1, <2>2, <3>2 DEF SockInv
        <4>2. QED
          BY <2>1, <4>1, RemoteSame
      <3>3. QED
        BY <3>1, <3>2
    <2>5. \A s \in Readers : rd'[s] = "connect" => got'[s] = <<>>
      BY <2>1 DEF SockInv
    <2>6. QED
      BY <2>3, <2>4, <2>5 DEF SockInv
  <1>8. QED
    BY <1>4, <1>5, <1>6, <1>7

-----------------------------------------------------------------------------
(* The types. *)

(* A store goes to a location. *)
LEMMA StoreType ==
    ASSUME ShmTypeOK, NEW p \in Procs, NEW l \in Locations, NEW v \in 0..Torn, Store(p, l, v)
    PROVE  /\ stores' \in [Procs -> Seq(Locations \X (0..Torn))]
           /\ \A q \in Procs : Len(stores'[q]) <= MaxStores
  <1>1. stores[p] \in Seq(Locations \X (0..Torn)) /\ Len(stores[p]) \in Nat
    BY DEF ShmTypeOK
  <1>2. /\ Len(stores[p]) < MaxStores
        /\ stores' = [stores EXCEPT ![p] = Append(stores[p], <<l, v>>)]
    BY DEF Store
  <1>3. /\ Append(stores[p], <<l, v>>) \in Seq(Locations \X (0..Torn))
        /\ Len(Append(stores[p], <<l, v>>)) = Len(stores[p]) + 1
    BY <1>1
  <1> DEFINE S == Append(stores[p], <<l, v>>)
  <1> HIDE DEF S
  <1>4. QED
    BY <1>1, <1>2, <1>3 DEF ShmTypeOK, S

(* Who has a store buffer. *)
LEMMA ProcsType == Writer \in Procs /\ \A r \in Local : r \in Procs /\ r \in Readers
  BY DEF Procs, Readers

(* The values that stores write are in the range of memory. *)
LEMMA Values ==
    /\ Overflow \in Nat /\ Torn \in Nat /\ MaxItems < Overflow /\ Overflow < Torn
    /\ 0 \in 0..Torn /\ 1 \in 0..Torn /\ Overflow \in 0..Torn /\ Torn \in 0..Torn
    /\ \A n \in 0..MaxItems : n \in 0..Torn
  BY DEF Overflow, Torn

(* Every step keeps the types. *)
LEMMA TypesKept ==
    ASSUME ShmTypeOK, WriterInv, MemInv, ReaderInv, SockInv, [ShmNext]_shmVars
    PROVE  ShmTypeOK'
  <1>1. \A c \in Chunks : /\ Written(c) \in Locations /\ Data(c) \in Locations
                          /\ \A r \in Local : Read(c, r) \in Locations
    BY PlacesType
  <1>2. widx \in Chunks /\ items \in 0..MaxItems /\ (Busy => items \in 1..MaxItems)
    BY DEF ShmTypeOK, WriterInv
  <1>3. \A c \in Chunks : (c + 1) % MaxChunks \in Chunks
    <2>1. \A c \in Chunks : c + 1 \in Nat
      BY DEF Chunks
    <2>2. QED
      BY <2>1, DivMod DEF Chunks
  <1>4. ASSUME NEW S \in SUBSET Readers, NEW m \in 0..MaxItems, Published(S, m)
        PROVE  sock' \in [Readers -> Seq(0..MaxItems)]
    <2>1. ASSUME NEW r \in Readers
          PROVE  (IF r \in S \cap subscribed THEN Append(sock[r], m) ELSE sock[r])
                    \in Seq(0..MaxItems)
      <3>1. sock[r] \in Seq(0..MaxItems)
        BY DEF ShmTypeOK
      <3>2. Append(sock[r], m) \in Seq(0..MaxItems)
        BY <3>1
      <3>3. QED
        BY <3>1, <3>2
    <2>2. QED
      BY <1>4, <2>1 DEF Published
  <1>5. CASE LocalsReady \/ RemotesReady \/ Publish \/ SendRemote
    <2>1. Local \in SUBSET Readers /\ Remote \in SUBSET Readers
          /\ READY \in 0..MaxItems /\ items \in 0..MaxItems
      BY <1>2 DEF Readers, READY
    <2>2. sock' \in [Readers -> Seq(0..MaxItems)]
      BY <1>4, <1>5, <2>1 DEF LocalsReady, RemotesReady, Publish, SendRemote
    <2>3. /\ UNCHANGED <<mem, stores, wflag, widx, items, readerVars, subscribed, got, sent>>
          /\ w' \in {"remotes", "idle", "remote"}
      BY <1>5 DEF LocalsReady, RemotesReady, Publish, SendRemote, AfterChunk
    <2>4. QED
      BY <2>2, <2>3 DEF ShmTypeOK, readerVars
  <1>6. ASSUME NEW r \in Readers, Subscribe(r) PROVE ShmTypeOK'
    BY <1>6 DEF Subscribe, ShmTypeOK, writerVars, readerVars
  <1>7. ASSUME NEW r \in Readers, ReadReady(r) \/ Receive(r) PROVE ShmTypeOK'
    <2>1. /\ sock[r] # <<>> /\ sock' = [sock EXCEPT ![r] = Tail(sock[r])]
          /\ rd' = [rd EXCEPT ![r] = "idle"]
          /\ UNCHANGED <<mem, stores, w, wflag, widx, items, ridx, obj, subscribed, sent>>
          /\ got' = got \/ (Receive(r) /\ got' = [got EXCEPT ![r] = Append(got[r], Head(sock[r]))])
      BY <1>7 DEF ReadReady, Receive, writerVars
    <2>2. Tail(sock[r]) \in Seq(0..MaxItems)
      BY <2>1 DEF ShmTypeOK
    <2>3. sock' \in [Readers -> Seq(0..MaxItems)]
      BY <2>1, <2>2 DEF ShmTypeOK
    <2>4. Receive(r) => Head(sock[r]) \in 1..MaxItems
      <3> SUFFICES ASSUME Receive(r) PROVE Head(sock[r]) \in 1..MaxItems
        OBVIOUS
      <3>1. Len(got[r]) \in Nat /\ Arrived(r) \in Nat /\ Arrived(r) <= MaxItems
        BY ArrivedIs
      <3>2. CASE r \in Local
        <4>1. rd[r] = "recv" /\ LocalSock(r)
          BY <3>2 DEF Receive, SockInv
        <4>2. Head(sock[r]) = Len(got[r]) + 1 /\ Len(got[r]) + 1 \in Big
          BY <2>1, <3>2, <4>1, LocalHead
        <4>3. QED
          BY <4>2
      <3>3. CASE r \in Remote
        BY <3>1, <3>3, RemoteTakes
      <3>4. QED
        BY <3>2, <3>3 DEF Readers
    <2>5. got' \in [Readers -> Seq(1..MaxItems)]
      <3>1. got \in [Readers -> Seq(1..MaxItems)] /\ got[r] \in Seq(1..MaxItems)
        BY DEF ShmTypeOK
      <3>2. Receive(r) => Append(got[r], Head(sock[r])) \in Seq(1..MaxItems)
        BY <2>4, <3>1
      <3>3. QED
        BY <2>1, <3>1, <3>2
    <2>6. QED
      BY <2>1, <2>3, <2>5 DEF ShmTypeOK
  <1>8. CASE AcquireWrite
    <2>1. Store(Writer, Written(widx), 0)
      BY <1>8 DEF AcquireWrite
    <2>2. /\ stores' \in [Procs -> Seq(Locations \X (0..Torn))]
          /\ \A q \in Procs : Len(stores'[q]) <= MaxStores
      BY <1>1, <1>2, <2>1, StoreType, ProcsType, Values
    <2>3. QED
      BY <1>8, <2>2 DEF AcquireWrite, ShmTypeOK, readerVars
  <1>9. CASE Fill
    <2>1. /\ Store(Writer, Data(widx), IF items \in Big THEN Overflow ELSE Torn)
          /\ (IF items \in Big THEN Overflow ELSE Torn) \in 0..Torn
      BY <1>9, Values DEF Fill
    <2>2. /\ stores' \in [Procs -> Seq(Locations \X (0..Torn))]
          /\ \A q \in Procs : Len(stores'[q]) <= MaxStores
      BY <1>1, <1>2, <2>1, StoreType, ProcsType
    <2>3. QED
      BY <1>9, <2>2 DEF Fill, ShmTypeOK, readerVars
  <1>10. CASE Filled
    <2>1. Store(Writer, Data(widx), items) /\ items \in 0..Torn
      BY <1>2, <1>10, Values DEF Filled
    <2>2. /\ stores' \in [Procs -> Seq(Locations \X (0..Torn))]
          /\ \A q \in Procs : Len(stores'[q]) <= MaxStores
      BY <1>1, <1>2, <2>1, StoreType, ProcsType
    <2>3. QED
      BY <1>10, <2>2 DEF Filled, ShmTypeOK, readerVars
  <1>11. CASE ResetFlag
    <2>1. Store(Writer, Read(widx, wflag), 0) /\ wflag \in Local
      BY <1>11 DEF ResetFlag, ShmTypeOK, Local
    <2>2. /\ stores' \in [Procs -> Seq(Locations \X (0..Torn))]
          /\ \A q \in Procs : Len(stores'[q]) <= MaxStores
      BY <1>1, <1>2, <2>1, StoreType, ProcsType, Values
    <2>3. QED
      BY <1>11, <2>2 DEF ResetFlag, ShmTypeOK, readerVars
  <1>12. CASE MarkWritten
    <2>1. Store(Writer, Written(widx), 1) /\ w = "mark"
      BY <1>12 DEF MarkWritten
    <2>2. /\ stores' \in [Procs -> Seq(Locations \X (0..Torn))]
          /\ \A q \in Procs : Len(stores'[q]) <= MaxStores
      BY <1>1, <1>2, <2>1, StoreType, ProcsType, Values
    <2>3. sent' \in 0..MaxItems /\ widx' \in Chunks
      <3>1. sent' = sent + 1 /\ widx' = (widx + 1) % MaxChunks
        BY <1>12 DEF MarkWritten
      <3>2. items = sent + 1 /\ sent \in Nat
        BY <2>1, Types DEF WriterInv, Busy
      <3>3. QED
        BY <1>2, <1>3, <3>1, <3>2
    <2>4. QED
      BY <1>12, <2>2, <2>3 DEF MarkWritten, ShmTypeOK, readerVars, AfterChunk
  <1>13. ASSUME NEW r \in Local, CheckRead(r) \/ CheckWritten(r) PROVE ShmTypeOK'
    BY <1>13 DEF CheckRead, CheckWritten, ShmTypeOK, writerVars
  <1>14. ASSUME NEW r \in Local, ReadChunk(r) PROVE ShmTypeOK'
    <2>1. ridx[r] \in Chunks
      BY DEF ShmTypeOK
    <2>2. Load(r, Data(ridx[r])) \in 0..Torn
      <3>1. Load(r, Data(ridx[r])) = mem[Data(ridx[r])]
        BY ReaderLoads
      <3>2. QED
        BY <1>1, <2>1, <3>1 DEF ShmTypeOK
    <2>3. obj' \in [Local -> 0..Torn]
      BY <1>14, <2>2 DEF ReadChunk, ShmTypeOK
    <2>4. QED
      BY <1>14, <2>3 DEF ReadChunk, ShmTypeOK, writerVars
  <1>15. ASSUME NEW r \in Local, MarkRead(r) PROVE ShmTypeOK'
    <2>1. ridx[r] \in Chunks /\ got[r] \in Seq(1..MaxItems) /\ r \in Readers
      BY ProcsType DEF ShmTypeOK
    <2>2. Store(r, Read(ridx[r], r), 1)
      BY <1>15 DEF MarkRead
    <2>3. /\ stores' \in [Procs -> Seq(Locations \X (0..Torn))]
          /\ \A q \in Procs : Len(stores'[q]) <= MaxStores
      BY <1>1, <2>1, <2>2, StoreType, ProcsType, Values
    <2>4. ridx' \in [Local -> Chunks]
      <3>1. ridx' = [ridx EXCEPT ![r] = (ridx[r] + 1) % MaxChunks]
        BY <1>15 DEF MarkRead
      <3>2. (ridx[r] + 1) % MaxChunks \in Chunks
        BY <1>3, <2>1
      <3>3. QED
        BY <3>1, <3>2 DEF ShmTypeOK
    <2>5. got' \in [Readers -> Seq(1..MaxItems)]
      <3>1. got \in [Readers -> Seq(1..MaxItems)]
        BY DEF ShmTypeOK
      <3>2. CASE obj[r] = Overflow
        BY <1>15, <3>1, <3>2 DEF MarkRead
      <3>3. CASE obj[r] # Overflow
        <4>1. rd[r] = "read" /\ got' = [got EXCEPT ![r] = Append(got[r], obj[r])]
          BY <1>15, <3>3 DEF MarkRead
        <4>2. PICK n \in Window : n = Count(r) + 1
          BY <4>1, Found
        <4>3. obj[r] = n /\ n \in 1..MaxItems
          BY <3>3, <4>1, <4>2, Found, WindowIs, Types
        <4>4. Append(got[r], obj[r]) \in Seq(1..MaxItems)
          BY <2>1, <4>3
        <4>5. QED
          BY <3>1, <4>1, <4>4
      <3>4. QED
        BY <3>2, <3>3
    <2>6. rd' \in [Readers -> {"connect", "idle", "unread", "acquired", "read", "recv"}]
      BY <1>15 DEF MarkRead, ShmTypeOK
    <2>7. QED
      BY <1>15, <2>3, <2>4, <2>5, <2>6 DEF MarkRead, ShmTypeOK, writerVars
  <1>16. ASSUME NEW p \in Procs, Drain(p) PROVE ShmTypeOK'
    <2>1. stores[p] \in Seq(Locations \X (0..Torn)) /\ stores[p] # <<>>
          /\ Len(stores[p]) \in Nat /\ Len(stores[p]) <= MaxStores
      BY <1>16 DEF Drain, ShmTypeOK
    <2>2. /\ Head(stores[p]) \in Locations \X (0..Torn)
          /\ Tail(stores[p]) \in Seq(Locations \X (0..Torn))
          /\ Len(Tail(stores[p])) <= MaxStores
      BY <2>1
    <2>3. mem' \in [Locations -> 0..Torn]
      BY <1>16, <2>2 DEF Drain, ShmTypeOK
    <2>4. stores' = [stores EXCEPT ![p] = Tail(stores[p])]
      BY <1>16 DEF Drain
    <2>5. /\ stores' \in [Procs -> Seq(Locations \X (0..Torn))]
          /\ \A q \in Procs : Len(stores'[q]) <= MaxStores
      <3> DEFINE T == Tail(stores[p])
      <3> HIDE DEF T
      <3>1. QED
        BY <2>2, <2>4 DEF ShmTypeOK, T
    <2>6. QED
      BY <1>16, <2>3, <2>5 DEF Drain, ShmTypeOK, writerVars, readerVars
  <1>17. CASE UNCHANGED shmVars
    BY <1>17 DEF shmVars, writerVars, readerVars, ShmTypeOK
  <1>18. QED
    BY <1>5, <1>6, <1>7, <1>8, <1>9, <1>10, <1>11, <1>12, <1>13, <1>14, <1>15, <1>16, <1>17
       DEF ShmNext, Connecting, Enqueuing, Dequeuing

-----------------------------------------------------------------------------
(* The theorems. *)

(* The invariant holds initially ... *)
LEMMA ShmInitially == ShmInit => ShmInv
  <1> SUFFICES ASSUME ShmInit PROVE ShmInv
    OBVIOUS
  <1> USE DEF ShmInit
  <1>1. /\ items = 0 /\ sent = 0 /\ w = "connect" /\ widx = 0 /\ ~Busy
        /\ stores[Writer] = <<>> /\ \A r \in Local : stores[r] = <<>>
        /\ \A r \in Readers : rd[r] = "connect" /\ got[r] = <<>> /\ sock[r] = <<>>
        /\ \A r \in Local : r \in Readers /\ ridx[r] = 0
        /\ \A l \in Locations : mem[l] = 0
    BY ProcsType DEF Busy
  <1>2. ShmTypeOK
    BY Values DEF ShmTypeOK, Chunks
  <1>3. 0 \in Chunks /\ 1 \in 1..MaxChunks /\ Slot(1) = 0
    BY SlotSmall DEF Chunks
  <1>4. WriterInv
    BY <1>1, <1>3 DEF WriterInv
  <1>5. Window = {} /\ DOMAIN stores[Writer] = {}
    BY <1>1 DEF Window
  <1>6. BufferInv
    BY <1>5 DEF BufferInv
  <1>7. MemInv
    <2>1. MemWritten /\ MemData /\ MemRead
      BY <1>5 DEF MemWritten, MemData, MemRead
    <2>2. MemUnused
      BY <1>1, PlacesType DEF MemUnused
    <2>3. QED
      BY <2>1, <2>2 DEF MemInv
  <1>8. \A r \in Local : Count(r) = 0 /\ Seen(r) = 0 /\ Len(stores[r]) = 0
    <2>1. ASSUME NEW r \in Local
          PROVE  Len(stores[r]) = 0 /\ Len(got[r]) = 0 /\ rd[r] # "recv"
      <3>1. r \in Readers /\ stores[r] = <<>> /\ got[r] = <<>> /\ rd[r] = "connect"
        BY <1>1
      <3>2. QED
        BY <3>1
    <2>2. ASSUME NEW r \in Local PROVE Count(r) = 0
      <3>1. Len(got[r]) = 0 /\ rd[r] # "recv"
        BY <2>1
      <3>2. Count(r) = 0 + 0
        BY ONLY <3>1 DEF Count
      <3>3. QED
        BY <3>2
    <2>3. QED
      BY <2>1, <2>2 DEF Seen
  <1>9. ReaderInv
    BY <1>1, <1>3, <1>8 DEF ReaderInv, ReaderIs
  <1>10. SockInv
    BY <1>1 DEF SockInv, LocalSock, RemoteSock, Remote, Readers
  <1>11. QED
    BY <1>2, <1>4, <1>6, <1>7, <1>9, <1>10 DEF ShmInv

(* The writer's drain. *)
LEMMA WriterDrain ==
    ASSUME ShmTypeOK, WriterInv, BufferInv, MemInv, ReaderInv, Drain(Writer)
    PROVE  BufferInv' /\ MemInv' /\ ReaderInv'
  <1>1. /\ stores[Writer] # <<>> /\ stores' = [stores EXCEPT ![Writer] = Tail(@)]
        /\ mem' = [mem EXCEPT ![Head(stores[Writer])[1]] = Head(stores[Writer])[2]]
        /\ UNCHANGED <<w, wflag, items, sent, rd, ridx, obj, got>>
    BY DEF Drain, writerVars, readerVars
  <1>2. /\ stores'[Writer] = Tail(stores[Writer])
        /\ \A r \in Local : stores'[r] = stores[r]
    BY <1>1, ProcsType DEF ShmTypeOK, Writer, Local
  <1>3. \A r \in Local : Count(r)' = Count(r) /\ Seen(r)' = Seen(r)
    BY <1>1, <1>2 DEF Count, Seen
  <1>4. Pos' = Pos /\ Window' = Window
    BY <1>1 DEF Pos, Window
  <1>5. /\ BufferInv' /\ MemInv'
        /\ \A n \in Window : \A x \in 0..Mark : Done(n, x) => Done(n, x)'
        /\ \A l \in {Read(c, r) : c \in Chunks, r \in Local} : mem[l] = 0 => mem'[l] = 0
    BY <1>1, <1>2, <1>3, <1>4, WriterDrains
  <1>6. \A c \in Chunks : \A r \in Local : mem[Read(c, r)] = 0 => mem'[Read(c, r)] = 0
    BY <1>5
  <1>7. \A n \in Window' : Done(n, Mark) /\ n <= items => Done(n, Mark)'
    BY <1>4, <1>5, Numbers
  <1>8. \A r \in Local : Seen(r) + MaxChunks >= items'
    BY <1>1 DEF ReaderInv, ReaderIs
  <1>9. sent' \in Nat /\ sent' >= sent /\ items' \in Nat /\ items' >= items
    BY <1>1, Types
  <1>10. ReaderInv'
    BY <1>1, <1>2, <1>6, <1>7, <1>8, <1>9, SameReaders
  <1>11. QED
    BY <1>5, <1>10

(* ... and every step keeps it. *)
LEMMA ShmStep == ShmInv /\ [ShmNext]_shmVars => ShmInv'
  <1> SUFFICES ASSUME ShmInv, [ShmNext]_shmVars PROVE ShmInv'
    OBVIOUS
  <1>1. ShmTypeOK /\ WriterInv /\ BufferInv /\ MemInv /\ ReaderInv /\ SockInv
    BY DEF ShmInv
  <1>2. ShmTypeOK' /\ WriterInv'
    BY <1>1, TypesKept, WriterKept
  <1>3. CASE AcquireWrite
    BY <1>1, <1>2, <1>3, Acquires, QuietSockets DEF ShmInv
  <1>4. CASE Fill \/ Filled \/ ResetFlag \/ MarkWritten
    BY <1>1, <1>2, <1>4, WriterSteps, QuietSockets DEF ShmInv
  <1>5. CASE LocalsReady \/ RemotesReady \/ Publish \/ SendRemote
    BY <1>1, <1>2, <1>5, Publishes, SocketSteps DEF ShmInv
  <1>6. ASSUME NEW r \in Readers, ReadReady(r) \/ Receive(r) PROVE ShmInv'
    <2>1. SockInv'
      BY <1>1, <1>6, SocketSteps
    <2>2. QED
      BY <1>1, <1>2, <1>6, <2>1, Sockets DEF ShmInv
  <1>7. ASSUME NEW r \in Readers, Subscribe(r) PROVE ShmInv'
    <2>1. SockInv'
      BY <1>1, <1>2, <1>7, QuietSockets
    <2>2. QED
      BY <1>1, <1>2, <1>7, <2>1, Sockets DEF ShmInv
  <1>8. ASSUME NEW r \in Local, Dequeuing(r) PROVE ShmInv'
    <2>1. SockInv'
      BY <1>1, <1>2, <1>8, QuietSockets
    <2>2. BufferInv' /\ MemInv' /\ ReaderInv'
      BY <1>1, <1>8, Looks, Marks DEF Dequeuing
    <2>3. QED
      BY <1>2, <2>1, <2>2 DEF ShmInv
  <1>9. ASSUME NEW p \in Procs, Drain(p) PROVE ShmInv'
    <2>1. SockInv'
      BY <1>1, <1>2, <1>9, QuietSockets
    <2>2. BufferInv' /\ MemInv' /\ ReaderInv'
      BY <1>1, <1>9, WriterDrain, ReaderDrains DEF Procs
    <2>3. QED
      BY <1>2, <2>1, <2>2 DEF ShmInv
  <1>10. CASE UNCHANGED shmVars
    <2>1. SockInv'
      BY <1>1, <1>2, <1>10, QuietSockets
    <2>2. /\ UNCHANGED <<mem, stores, w, wflag, items, rd, ridx, obj, got, sent>>
      BY <1>10 DEF shmVars, writerVars, readerVars
    <2>3. Pos' = Pos
      BY <2>2 DEF Pos
    <2>4. BufferInv' /\ \A n, x : Done(n, x)' <=> Done(n, x)
      BY <1>1, <2>2, <2>3, SameBuffer
    <2>5. \A r \in Local : ReaderIs(r)' /\ Count(r)' = Count(r) /\ Seen(r)' = Seen(r)
      BY <1>1, <2>2, <2>4, OtherReader
    <2>6. MemInv'
      BY <1>1, <2>2, <2>4, <2>5, SameMemory
    <2>7. QED
      BY <1>2, <2>1, <2>4, <2>5, <2>6 DEF ShmInv, ReaderInv
  <1>11. QED
    BY <1>3, <1>4, <1>5, <1>6, <1>7, <1>8, <1>9, <1>10
       DEF ShmNext, Connecting, Enqueuing

(* The inductive invariant: what the store buffers, the flags and the      *)
(* sockets hold is what the objects that are enqueued and read make of it. *)
THEOREM ShmInvariance == ShmSpec => []ShmInv
  <1>1. ShmInit => ShmInv
    BY ShmInitially
  <1>2. ShmInv /\ [ShmNext]_shmVars => ShmInv'
    BY ShmStep
  <1>3. QED
    BY <1>1, <1>2, PTL DEF ShmSpec

(* The socket of a local reader never holds more than one object above the *)
(* chunks, for any number of readers, chunks and objects: enqueue's        *)
(* acquire_write is what bounds it, there is no high water mark to hit.    *)
LEMMA InvBounds == ShmInv => ShmIsBounded
  <1> SUFFICES ASSUME ShmInv, NEW r \in Local PROVE Len(sock[r]) <= MaxChunks + 1
    BY DEF ShmInv, ShmIsBounded, SocketIsBounded
  <1>1. r \in Readers /\ ShmTypeOK /\ WriterInv /\ ReaderInv /\ SockInv /\ LocalSock(r)
    BY ProcsType DEF ShmInv, SockInv
  <1>2. PICK g \in Nat, L \in Nat, a \in Nat, o \in 0..1 :
             g = Len(got[r]) /\ L = Len(sock[r]) /\ a = Arrived(r) /\ o = Off(r)
    BY <1>1, ArrivedIs
  <1>3. a <= items /\ items \in Nat
    BY <1>1, <1>2, ArrivedIs
  <1>4. CASE w = "connect"
    BY <1>1, <1>4 DEF LocalSock
  <1>5. CASE w # "connect" /\ L <= 1
    BY <1>2, <1>5
  <1>6. CASE w # "connect" /\ L > 1
    <2>1. PICK i \in (1 + o)..L : i = 1 + o
      BY <1>6
    <2>2. /\ sock[r][i] \in Big /\ g < sock[r][i] /\ sock[r][i] + (L - i) <= a
      BY <1>1, <1>2, <1>6, <2>1 DEF LocalSock
    <2>3. sock[r][i] \in Nat
      <3>1. \A b \in Big : b \in Nat
        OBVIOUS
      <3>2. QED
        BY <2>2, <3>1
    <2>4. g + 1 + L - (1 + o) <= items
      BY <1>3, <2>1, <2>2, <2>3
    <2>5. /\ Seen(r) + MaxChunks >= items /\ Seen(r) <= Count(r)
          /\ Seen(r) \in Nat /\ Count(r) \in Nat
      BY <1>1, OwnMarks DEF ReaderInv, ReaderIs
    <2>6. o = 1 => Count(r) = 0
      <3> SUFFICES ASSUME o = 1 PROVE Count(r) = 0
        OBVIOUS
      <3>1. rd[r] = "connect" /\ got[r] = <<>>
        BY <1>1, <1>2 DEF Off, SockInv
      <3>2. QED
        BY <3>1 DEF Count
    <2>7. Count(r) <= g + 1
      <3>1. CASE rd[r] = "recv"
        BY <1>2, <3>1 DEF Count
      <3>2. CASE rd[r] # "recv"
        BY <1>2, <3>2 DEF Count
      <3>3. QED
        BY <3>1, <3>2
    <2>8. items <= Count(r) + MaxChunks
      BY <1>3, <2>5
    <2>9. PICK c \in Nat, k \in Nat : c = Count(r) /\ k = items
      BY <1>3, <2>5
    <2>10. /\ g + 1 + L - (1 + o) <= k /\ k <= c + MaxChunks /\ c <= g + 1
           /\ o = 1 => c = 0
      BY <2>4, <2>6, <2>7, <2>8, <2>9
    <2>11. L <= MaxChunks + 1
      <3>1. CASE o = 0
        BY <2>10, <3>1
      <3>2. CASE o = 1
        BY <2>10, <3>2
      <3>3. QED
        BY <3>1, <3>2
    <2>12. QED
      BY <1>2, <2>11
  <1>7. QED
    BY <1>2, <1>4, <1>5, <1>6

(* What the runs check of the bounds, for every value of the constants. *)
THEOREM ShmBounded == ShmSpec => []ShmIsBounded
  BY ShmInvariance, InvBounds, PTL

(* A step of the flags and sockets is a step of the queue. *)
LEMMA StepOfQueue == ShmInv /\ [ShmNext]_shmVars => [Queue!Next]_Queue!vars
  <1> SUFFICES ASSUME ShmInv, [ShmNext]_shmVars PROVE [Queue!Next]_Queue!vars
    OBVIOUS
  <1>1. ShmTypeOK /\ WriterInv /\ BufferInv /\ MemInv /\ ReaderInv /\ SockInv
    BY DEF ShmInv
  <1>2. DOMAIN got = Readers
    BY <1>1 DEF ShmTypeOK
  <1>3. CASE MarkWritten
    <2>1. w = "mark" /\ sent' = sent + 1 /\ got' = got /\ items = sent + 1
      BY <1>1, <1>3 DEF MarkWritten, WriterInv, Busy
    <2>2. ASSUME NEW r \in Local PROVE sent - Len(got[r]) < MaxChunks + 1
      <3>1. /\ Seen(r) + MaxChunks >= items /\ Seen(r) <= Count(r)
            /\ Seen(r) \in Nat /\ Count(r) \in Nat /\ sent \in Nat
        BY <1>1, OwnMarks, Types DEF ReaderInv, ReaderIs
      <3>2. Len(got[r]) \in Nat
        BY <1>1, ProcsType, Types
      <3>3. Count(r) <= Len(got[r]) + 1
        <4>1. CASE rd[r] = "recv"
          BY <3>2, <4>1 DEF Count
        <4>2. CASE rd[r] # "recv"
          BY <3>2, <4>2 DEF Count
        <4>3. QED
          BY <4>1, <4>2
      <3>4. QED
        BY <2>1, <3>1, <3>2, <3>3
    <2>3. Queue!Enqueue
      BY <2>1, <2>2 DEF Queue!Enqueue
    <2>4. QED
      BY <2>3 DEF Queue!Next
  <1>4. ASSUME NEW r \in Readers, NEW v, Len(got[r]) < sent, v = Len(got[r]) + 1,
               got' = [got EXCEPT ![r] = Append(got[r], v)], sent' = sent
        PROVE  Queue!Next
    BY <1>4 DEF Queue!Next, Queue!Dequeue
  <1>5. ASSUME NEW r \in Local, MarkRead(r) PROVE [Queue!Next]_Queue!vars
    <2>1. CASE obj[r] = Overflow
      BY <1>5, <2>1 DEF MarkRead, Queue!vars
    <2>2. CASE obj[r] # Overflow
      <3>1. rd[r] = "read" /\ sent' = sent /\ got' = [got EXCEPT ![r] = Append(got[r], obj[r])]
        BY <1>5, <2>2 DEF MarkRead
      <3>2. obj[r] = Len(got[r]) + 1 /\ Len(got[r]) + 1 <= sent
        BY <1>1, <2>2, <3>1, Found
      <3>3. r \in Readers /\ Len(got[r]) \in Nat /\ sent \in Nat
        BY <1>1, ProcsType, Types
      <3>4. Len(got[r]) < sent
        BY <3>2, <3>3
      <3>5. QED
        BY <1>4, <3>1, <3>2, <3>3, <3>4
    <2>3. QED
      BY <2>1, <2>2
  <1>6. ASSUME NEW r \in Readers, Receive(r) PROVE Queue!Next
    <2>1. /\ sent' = sent /\ sock[r] # <<>>
          /\ got' = [got EXCEPT ![r] = Append(got[r], Head(sock[r]))]
      BY <1>6 DEF Receive
    <2>2. Head(sock[r]) = Len(got[r]) + 1 /\ Len(got[r]) + 1 <= Arrived(r)
      <3>1. CASE r \in Local
        <4>1. rd[r] = "recv" /\ LocalSock(r)
          BY <1>1, <1>6, <3>1 DEF Receive, SockInv
        <4>2. QED
          BY <1>1, <2>1, <3>1, <4>1, LocalHead
      <3>2. CASE r \in Remote
        BY <1>1, <1>6, <3>2, RemoteTakes
      <3>3. QED
        BY <3>1, <3>2 DEF Readers
    <2>3. Len(got[r]) < sent
      BY <1>1, <2>2, ArrivedIs
    <2>4. QED
      BY <1>4, <2>1, <2>2, <2>3
  <1>7. ASSUME sent' = sent, got' = got PROVE [Queue!Next]_Queue!vars
    BY <1>7 DEF Queue!vars
  <1>8. CASE LocalsReady \/ RemotesReady \/ AcquireWrite \/ Fill \/ Filled \/ ResetFlag
             \/ Publish \/ SendRemote \/ UNCHANGED shmVars
    BY <1>7, <1>8 DEF LocalsReady, RemotesReady, AcquireWrite, Fill, Filled, ResetFlag,
                      Publish, SendRemote, shmVars
  <1>9. ASSUME NEW r \in Readers, Subscribe(r) \/ ReadReady(r) PROVE [Queue!Next]_Queue!vars
    BY <1>7, <1>9 DEF Subscribe, ReadReady
  <1>10. ASSUME NEW r \in Local, CheckRead(r) \/ CheckWritten(r) \/ ReadChunk(r)
         PROVE  [Queue!Next]_Queue!vars
    BY <1>7, <1>10 DEF CheckRead, CheckWritten, ReadChunk
  <1>11. ASSUME NEW p \in Procs, Drain(p) PROVE [Queue!Next]_Queue!vars
    BY <1>7, <1>11 DEF Drain
  <1>12. QED
    BY <1>3, <1>5, <1>6, <1>8, <1>9, <1>10, <1>11
       DEF ShmNext, Connecting, Enqueuing, Dequeuing

(* The ring of byte flags, with stores that reach memory late and nothing  *)
(* locked, and the sockets next to it implement the queue of BroadcastQueue *)
(* for any number of readers on this node and others, chunks and objects:  *)
(* MarkWritten enqueues, MarkRead of a small object and Receive dequeue.   *)
THEOREM ShmImplementsQueue == ShmSpec => IsQueue
  <1>1. ShmInit => Queue!Init
    BY DEF ShmInit, Queue!Init
  <1>2. ShmInv /\ [ShmNext]_shmVars => [Queue!Next]_Queue!vars
    BY StepOfQueue
  <1>3. QED
    BY <1>1, <1>2, ShmInvariance, PTL DEF ShmSpec, IsQueue, Queue!Spec
============================================================================
