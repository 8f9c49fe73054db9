------------------------- MODULE RenderObjectsProofs -------------------------
(***************************************************************************)
(* The life of the Vulkan objects for any number of images: whatever       *)
(* creation fails, parents outlive what was made from them, nothing is     *)
(* destroyed that was not made, a semaphore excepted, and nothing is left. *)
(*                                                                         *)
(* What _init_vulkan makes and _close_vulkan destroys are sequences put    *)
(* together from the sequences of the functions they call.  Each kind of   *)
(* object is given a rank, its place in the sequence; that a sequence has  *)
(* no object twice, is in the order of the ranks, and has the objects of   *)
(* a set and no others (Fits) is shown piece by piece (FitsJoin).          *)
(***************************************************************************)
EXTENDS RenderObjects, NumberFacts, SequenceTheorems

\* What is made or allocated.
Items == Objects \cup (Arrays \X {0})

\* The objects that object o was made from.
Wants(o) == {<<p, 0>> : p \in Parents[o[1]]}

\* What is in the sequence s.
Elems(s) == {s[i] : i \in 1 .. Len(s)}

\* Nothing is in s twice, and the ranks of s go up.
Rises(s, rank) ==
  /\ s \in Seq(Items)
  /\ \A i, j \in 1 .. Len(s) : s[i] = s[j] => i = j
  /\ \A i, j \in 1 .. Len(s) : i < j => rank[s[i]] <= rank[s[j]]

\* It has what is in the set E, whose ranks are from a to b.
Fits(s, rank, a, b, E) ==
  /\ Rises(s, rank)
  /\ Elems(s) = E
  /\ \A o \in E : a <= rank[o] /\ rank[o] <= b

-----------------------------------------------------------------------------
(* What ForEach makes.                                                       *)

\* FlattenSeq is what solves its equation.
LEMMA FlattenIs ==
  ASSUME NEW n \in Nat \ {0}, NEW seqs, Len(seqs) = n, NEW g,
         \A i \in 1 .. n : g[i] = IF i = 1 THEN seqs[i] ELSE g[i - 1] \o seqs[i]
  PROVE  FlattenSeq(seqs) = g[n]
<1> DEFINE h == [i \in 1 .. n |-> g[i]]
           Step(f, i) == IF i = 1 THEN seqs[i] ELSE f[i - 1] \o seqs[i]
           Solves(f) == f = [i \in 1 .. n |-> Step(f, i)]
           flat == CHOOSE f : Solves(f)
<1>1. FlattenSeq(seqs) = flat[n]
  BY DEF FlattenSeq
<1>2. Solves(h)
  <2>1. \A i \in 1 .. n : i # 1 => i - 1 \in 1 .. n /\ h[i - 1] = g[i - 1]
    OBVIOUS
  <2>2. \A i \in 1 .. n : g[i] = Step(h, i)
    BY <2>1
  <2> HIDE DEF Step
  <2> QED BY <2>2
<1>3. Solves(flat)
  <2> HIDE DEF Solves, h
  <2> QED BY <1>2
<1>4. \A i \in 1 .. n : flat[i] = Step(flat, i) /\ g[i] = Step(g, i)
  <2> HIDE DEF flat
  <2> QED BY <1>3
<1> HIDE DEF flat, Solves, h
<1>5. n \in 0 .. n
  OBVIOUS
<1> DEFINE S == {m \in 0 .. n : m = 0 \/ flat[m] = g[m]}
<1>7. 0 \in S
  OBVIOUS
<1>8. ASSUME NEW m \in 0 .. n, m \in S, m < n PROVE m + 1 \in S
  <2>1. m + 1 \in 1 .. n /\ m + 1 \in 0 .. n /\ (m + 1) - 1 = m
    BY <1>8
  <2>2. CASE m = 0
    <3>1. flat[m + 1] = seqs[m + 1] /\ g[m + 1] = seqs[m + 1]
      BY <1>4, <2>1, <2>2
    <3> QED BY <2>1, <3>1
  <2>3. CASE m # 0
    <3>1. m + 1 # 1 /\ flat[m] = g[m]
      BY <1>8, <2>3
    <3>2. flat[m + 1] = flat[m] \o seqs[m + 1] /\ g[m + 1] = g[m] \o seqs[m + 1]
      BY <1>4, <2>1, <3>1
    <3> QED BY <2>1, <3>1, <3>2
  <2> QED BY <2>2, <2>3
<1>9. n \in S
  <2> HIDE DEF S
  <2> QED BY <1>5, <1>7, <1>8, UpTo
<1> QED BY <1>1, <1>9

\* One of a kind for each index: they are in the order of the indices.
LEMMA ForEachOfOne ==
  ASSUME NEW n \in Nat \ {0}, NEW k
  PROVE  ForEach(n, <<k>>) = [i \in 1 .. n |-> <<k, i - 1>>]
<1> DEFINE seqs == [i \in 1 .. n |-> [j \in 1 .. Len(<<k>>) |-> << <<k>>[j], i - 1>>]]
           g == [i \in 1 .. n |-> [j \in 1 .. i |-> <<k, j - 1>>]]
<1>1. Len(seqs) = n
  OBVIOUS
<1>2. \A i \in 1 .. n : seqs[i] = << <<k, i - 1>> >>
  <2> SUFFICES ASSUME NEW i \in 1 .. n
               PROVE  [j \in 1 .. Len(<<k>>) |-> << <<k>>[j], i - 1>>] = << <<k, i - 1>> >>
    OBVIOUS
  <2>1. [j \in 1 .. 1 |-> << <<k>>[j], i - 1>>] = << <<k, i - 1>> >>
    OBVIOUS
  <2> QED BY <2>1
<1>3. ASSUME NEW i \in 1 .. n PROVE g[i] = IF i = 1 THEN seqs[i] ELSE g[i - 1] \o seqs[i]
  <2>1. CASE i = 1
    <3>1. g[1] = << <<k, 0>> >>
      <4>1. [j \in 1 .. 1 |-> <<k, j - 1>>] = << <<k, 0>> >>
        OBVIOUS
      <4> QED BY <4>1
    <3> HIDE DEF g, seqs
    <3> QED BY <1>2, <2>1, <3>1
  <2>2. CASE i # 1
    <3>1. i - 1 \in 1 .. n /\ i - 1 \in Nat
      BY <2>2
    <3>2. g[i - 1] = [j \in 1 .. i - 1 |-> <<k, j - 1>>] /\ g[i] = [j \in 1 .. i |-> <<k, j - 1>>]
      BY <3>1
    <3>3. [j \in 1 .. i - 1 |-> <<k, j - 1>>] \o << <<k, i - 1>> >> = [j \in 1 .. i |-> <<k, j - 1>>]
      <4> DEFINE T == {k} \X Nat
                 s == [j \in 1 .. i - 1 |-> <<k, j - 1>>]
                 t == << <<k, i - 1>> >>
                 u == [j \in 1 .. i |-> <<k, j - 1>>]
      <4>1. s \in Seq(T) /\ Len(s) = i - 1 /\ \A j \in 1 .. i - 1 : s[j] = <<k, j - 1>>
        BY <3>1
      <4>2. t \in Seq(T) /\ Len(t) = 1 /\ t[1] = <<k, i - 1>>
        BY <3>1
      <4>3. u \in Seq(T) /\ Len(u) = i /\ \A j \in 1 .. i : u[j] = <<k, j - 1>>
        BY <3>1
      <4> HIDE DEF T, s, t, u
      <4>4. /\ s \o t \in Seq(T)
            /\ Len(s \o t) = Len(s) + Len(t)
            /\ \A j \in 1 .. Len(s) + Len(t) :
                 (s \o t)[j] = IF j <= Len(s) THEN s[j] ELSE t[j - Len(s)]
        BY <4>1, <4>2, ConcatProperties
      <4>5. ASSUME NEW j \in 1 .. i PROVE (s \o t)[j] = u[j]
        <5>1. j <= i - 1 => (s \o t)[j] = s[j]
          BY <3>1, <4>1, <4>2, <4>4
        <5>2. j = i => (s \o t)[j] = t[1]
          BY <3>1, <4>1, <4>2, <4>4
        <5>3. j <= i - 1 \/ j = i
          BY <3>1
        <5>4. u[j] = <<k, j - 1>>
          BY <4>3
        <5>5. j <= i - 1 => j \in 1 .. i - 1
          BY <3>1
        <5> QED BY <4>1, <4>2, <5>1, <5>2, <5>3, <5>4, <5>5
      <4>6. Len(s \o t) = Len(u)
        BY <3>1, <4>1, <4>2, <4>3, <4>4
      <4>7. s \o t = u
        BY <4>3, <4>4, <4>5, <4>6, SeqEqual
      <4> QED BY <4>7 DEF s, t, u
    <3> HIDE DEF g, seqs
    <3> QED BY <1>2, <2>2, <3>2, <3>3
  <2> QED BY <2>1, <2>2
<1>4. FlattenSeq(seqs) = g[n]
  <2> HIDE DEF g, seqs
  <2> QED BY <1>1, <1>3, FlattenIs
<1>5. ForEach(n, <<k>>) = FlattenSeq(seqs)
  BY DEF ForEach
<1> QED BY <1>4, <1>5

-----------------------------------------------------------------------------
(* What sequences put together have.                                         *)

LEMMA ElemsAre ==
  ASSUME NEW S, NEW s \in Seq(S)
  PROVE  Len(s) \in Nat /\ Elems(s) \in SUBSET S
BY DEF Elems

\* Two sequences, the ranks of the first below those of the second.
LEMMA FitsJoin ==
  ASSUME NEW rank \in [Items -> Nat],
         NEW a \in Nat, NEW b \in Nat, NEW c \in Nat, NEW d \in Nat, b < c, a <= b, c <= d,
         NEW s, NEW t, NEW E, NEW F, Fits(s, rank, a, b, E), Fits(t, rank, c, d, F)
  PROVE  Fits(s \o t, rank, a, d, E \cup F)
<1> DEFINE u == s \o t
<1>1. s \in Seq(Items) /\ t \in Seq(Items)
  BY DEF Fits, Rises
<1>2. Len(s) \in Nat /\ Len(t) \in Nat
  BY <1>1
<1>3. /\ u \in Seq(Items)
      /\ Len(u) = Len(s) + Len(t)
      /\ \A i \in 1 .. Len(s) + Len(t) : u[i] = IF i <= Len(s) THEN s[i] ELSE t[i - Len(s)]
  BY <1>1, ConcatProperties
<1> HIDE DEF u
<1>4. \A i \in 1 .. Len(u) : i <= Len(s) => i \in 1 .. Len(s) /\ u[i] = s[i] /\ u[i] \in E
  BY <1>2, <1>3 DEF Fits, Elems
<1>5. \A i \in 1 .. Len(u) :
        i > Len(s) => i - Len(s) \in 1 .. Len(t) /\ u[i] = t[i - Len(s)] /\ u[i] \in F
  BY <1>2, <1>3 DEF Fits, Elems
<1>6. \A o \in E : rank[o] \in Nat /\ a <= rank[o] /\ rank[o] <= b
  BY <1>1, ElemsAre DEF Fits
<1>7. \A o \in F : rank[o] \in Nat /\ c <= rank[o] /\ rank[o] <= d
  BY <1>1, ElemsAre DEF Fits
<1>8. \A o \in E, p \in F : rank[o] < rank[p]
  BY <1>6, <1>7
<1>9. ASSUME NEW i \in 1 .. Len(u), NEW j \in 1 .. Len(u), u[i] = u[j] PROVE i = j
  <2>1. CASE i <= Len(s) /\ j <= Len(s)
    BY <1>4, <1>9, <2>1 DEF Fits, Rises
  <2>2. CASE i > Len(s) /\ j > Len(s)
    <3>1. i - Len(s) = j - Len(s)
      BY <1>5, <1>9, <2>2 DEF Fits, Rises
    <3> QED BY <1>2, <3>1
  <2>3. CASE (i <= Len(s) /\ j > Len(s)) \/ (i > Len(s) /\ j <= Len(s))
    <3>1. \E o \in E, p \in F : o = p
      BY <1>4, <1>5, <1>9, <2>3
    <3>2. PICK o \in E : o \in F
      BY <3>1
    <3> QED BY <1>6, <1>8, <3>2
  <2> QED BY <1>2, <2>1, <2>2, <2>3
<1>10. ASSUME NEW i \in 1 .. Len(u), NEW j \in 1 .. Len(u), i < j PROVE rank[u[i]] <= rank[u[j]]
  <2>1. CASE j <= Len(s)
    <3>1. i <= Len(s)
      BY <1>2, <1>10, <2>1
    <3> QED BY <1>4, <1>10, <2>1, <3>1 DEF Fits, Rises
  <2>2. CASE i > Len(s)
    <3>1. j > Len(s) /\ i - Len(s) < j - Len(s)
      BY <1>2, <1>10, <2>2
    <3>2. u[i] = t[i - Len(s)] /\ u[j] = t[j - Len(s)]
      BY <1>5, <2>2, <3>1
    <3>3. i - Len(s) \in 1 .. Len(t) /\ j - Len(s) \in 1 .. Len(t)
      BY <1>5, <2>2, <3>1
    <3>4. rank[t[i - Len(s)]] <= rank[t[j - Len(s)]]
      BY <3>1, <3>3 DEF Fits, Rises
    <3> QED BY <3>2, <3>4
  <2>3. CASE i <= Len(s) /\ j > Len(s)
    <3>1. u[i] \in E /\ u[j] \in F
      BY <1>4, <1>5, <2>3
    <3> QED BY <1>6, <1>7, <1>8, <3>1
  <2> QED BY <1>2, <2>1, <2>2, <2>3
<1>11. Elems(u) = E \cup F
  <2>1. ASSUME NEW o \in E PROVE o \in Elems(u)
    <3>1. PICK i \in 1 .. Len(s) : s[i] = o
      BY DEF Fits, Elems
    <3>2. i \in 1 .. Len(u) /\ i <= Len(s)
      BY <1>2, <1>3
    <3> QED BY <1>4, <3>1, <3>2 DEF Elems
  <2>2. ASSUME NEW o \in F PROVE o \in Elems(u)
    <3>1. PICK i \in 1 .. Len(t) : t[i] = o
      BY DEF Fits, Elems
    <3>2. Len(s) + i \in 1 .. Len(u) /\ Len(s) + i > Len(s) /\ (Len(s) + i) - Len(s) = i
      BY <1>2, <1>3
    <3> QED BY <1>5, <3>1, <3>2 DEF Elems
  <2>3. \A i \in 1 .. Len(u) : u[i] \in E \cup F
    BY <1>2, <1>4, <1>5
  <2> QED BY <2>1, <2>2, <2>3 DEF Elems
<1>12. \A o \in E \cup F : a <= rank[o] /\ rank[o] <= d
  BY <1>6, <1>7
<1>13. Rises(u, rank)
  BY <1>3, <1>9, <1>10 DEF Rises
<1> QED BY <1>11, <1>12, <1>13 DEF Fits, u

\* A sequence of one.
LEMMA FitsOne ==
  ASSUME NEW rank \in [Items -> Nat], NEW what, <<what, 0>> \in Items
  PROVE  Fits(One(what), rank, rank[<<what, 0>>], rank[<<what, 0>>], {<<what, 0>>})
<1> DEFINE o == <<what, 0>>
<1>1. One(what) = <<o>>
  BY DEF One
<1> HIDE DEF o
<1>2. <<o>> \in Seq(Items) /\ Len(<<o>>) = 1 /\ <<o>>[1] = o
  BY DEF o
<1>3. Elems(<<o>>) = {o}
  BY <1>2 DEF Elems
<1>4. rank[o] \in Nat
  BY DEF o
<1> QED BY <1>1, <1>2, <1>3, <1>4 DEF Fits, Rises, o

\* The empty sequence.
LEMMA FitsNone ==
  ASSUME NEW rank, NEW a, NEW b
  PROVE  Fits(<<>>, rank, a, b, {})
BY DEF Fits, Rises, Elems

\* One of a kind for each index.
LEMMA FitsEach ==
  ASSUME NEW rank \in [Items -> Nat], NEW n \in Nat \ {0}, NEW k, NEW r \in Nat,
         \A i \in 0 .. n - 1 : <<k, i>> \in Items /\ rank[<<k, i>>] = r
  PROVE  Fits(ForEach(n, <<k>>), rank, r, r, {k} \X (0 .. n - 1))
<1> DEFINE s == [i \in 1 .. n |-> <<k, i - 1>>]
<1>1. ForEach(n, <<k>>) = s
  BY ForEachOfOne
<1>2. \A i \in 1 .. n : i - 1 \in 0 .. n - 1 /\ s[i] = <<k, i - 1>> /\ s[i] \in Items /\ rank[s[i]] = r
  OBVIOUS
<1>3. s \in Seq(Items) /\ Len(s) = n
  BY <1>2
<1>4. \A i, j \in 1 .. n : s[i] = s[j] => i = j
  BY <1>2
<1>5. Elems(s) = {k} \X (0 .. n - 1)
  <2>1. ASSUME NEW i \in 0 .. n - 1 PROVE <<k, i>> \in Elems(s)
    <3>1. i + 1 \in 1 .. n /\ (i + 1) - 1 = i
      OBVIOUS
    <3>2. s[i + 1] = <<k, i>>
      BY <1>2, <3>1
    <3> HIDE DEF s
    <3> QED BY <1>3, <3>1, <3>2 DEF Elems
  <2>2. \A i \in 1 .. n : s[i] \in {k} \X (0 .. n - 1)
    BY <1>2
  <2> HIDE DEF s
  <2>3. Elems(s) \subseteq {k} \X (0 .. n - 1)
    BY <1>3, <2>2 DEF Elems
  <2>4. \A o \in {k} \X (0 .. n - 1) : \E i \in 0 .. n - 1 : o = <<k, i>>
    OBVIOUS
  <2>5. {k} \X (0 .. n - 1) \subseteq Elems(s)
    BY <2>1, <2>4
  <2> QED BY <2>3, <2>5
<1>6. \A o \in {k} \X (0 .. n - 1) : rank[o] = r
  OBVIOUS
<1> HIDE DEF s
<1>7. \A i, j \in 1 .. n : rank[s[i]] <= rank[s[j]]
  BY <1>2
<1>8. Rises(s, rank)
  BY <1>3, <1>4, <1>7 DEF Rises
<1>9. \A o \in {k} \X (0 .. n - 1) : r <= rank[o] /\ rank[o] <= r
  BY <1>6
<1> QED BY <1>1, <1>5, <1>8, <1>9 DEF Fits

-----------------------------------------------------------------------------
(* The order in which objects are made, and the one in which they go.        *)

MakeRank == [o \in Items |->
  CASE o[1] = "instance" -> 1        [] o[1] = "messenger" -> 2
    [] o[1] = "surface" -> 3         [] o[1] = "device" -> 4
    [] o[1] = "gfx_pool" -> 5        [] o[1] = "tsfr_pool" -> 6
    [] o[1] = "comp_pool" -> 7       [] o[1] = "swapchain" -> 8
    [] o[1] = "images" -> 9          [] o[1] = "views" -> 10
    [] o[1] = "view" -> 11           [] o[1] = "image" -> 12
    [] o[1] = "memory" -> 13         [] o[1] = "depth_view" -> 14
    [] o[1] = "renderpass" -> 15     [] o[1] = "framebuffers" -> 16
    [] o[1] = "framebuffer" -> 17    [] o[1] = "cmdbuffers" -> 18
    [] o[1] = "cmdbuf" -> 19         [] o[1] = "images_in_flight" -> 21
    [] OTHER -> 20]

CloseRank == [o \in Items |->
  CASE o[1] = "cmdbuf" -> 2          [] o[1] = "framebuffer" -> 3
    [] o[1] = "renderpass" -> 4      [] o[1] = "view" -> 5
    [] o[1] = "depth_view" -> 6      [] o[1] = "memory" -> 7
    [] o[1] = "image" -> 8           [] o[1] = "swapchain" -> 9
    [] o[1] = "gfx_pool" -> 10       [] o[1] = "tsfr_pool" -> 11
    [] o[1] = "comp_pool" -> 12      [] o[1] = "device" -> 13
    [] o[1] = "messenger" -> 14      [] o[1] = "surface" -> 15
    [] o[1] = "instance" -> 16       [] OTHER -> 1]

\* The objects a renderer with n images has.
PerImage == {"view", "framebuffer", "cmdbuf"}
PerFrame == {"image_sem", "queue_sem", "fence"}
Singles == Kinds \ (PerImage \cup PerFrame)

Renderer(dbg, n) ==
       ((IF dbg THEN Singles ELSE Singles \ {"messenger"}) \X {0})
  \cup (PerImage \X (0 .. n - 1)) \cup (PerFrame \X (0 .. MaxFrames - 1))

LEMMA RanksAreNumbers == MakeRank \in [Items -> Nat] /\ CloseRank \in [Items -> Nat]
BY DEF MakeRank, CloseRank

LEMMA IndicesAre ==
  /\ 0 \in 0 .. MaxImages - 1 \cup 0 .. MaxFrames - 1
  /\ \A n \in 1 .. MaxImages : 0 .. n - 1 \subseteq 0 .. MaxImages - 1 \cup 0 .. MaxFrames - 1
  /\ MaxImages \in Nat
BY RenderAssumption DEF MaxFrames

LEMMA ItemsAre ==
  /\ \A k \in Kinds \cup Arrays : <<k, 0>> \in Items
  /\ \A k \in Kinds : \A n \in 1 .. MaxImages : \A i \in 0 .. n - 1 : <<k, i>> \in Items
  /\ \A k \in Kinds : \A i \in 0 .. MaxFrames - 1 : <<k, i>> \in Items
  /\ \A o \in Objects : o[1] \in Kinds /\ o \in Items
  /\ \A o \in Items : o[1] \in Kinds => o \in Objects
  /\ \A o \in Items : o[1] \in Arrays => o = <<o[1], 0>>
BY IndicesAre DEF Items, Objects, Kinds, Arrays

\* What an object was made from is made before it and goes after it.
LEMMA ParentsBefore ==
  ASSUME NEW o \in Objects, NEW p \in Wants(o)
  PROVE  /\ p \in Singles \X {0} /\ p \in Objects
         /\ p[1] \notin Unchecked \cup {"messenger"}
         /\ MakeRank[p] < MakeRank[o] /\ CloseRank[o] < CloseRank[p]
<1>1. o[1] \in Kinds /\ o \in Items
  BY ItemsAre
<1>2. PICK k \in Parents[o[1]] : p = <<k, 0>>
  BY DEF Wants
<1>3. k \in {"instance", "device", "surface", "swapchain", "image", "gfx_pool"}
  BY <1>1, <1>2 DEF Parents, Kinds
<1>4. k \in Singles /\ <<k, 0>> \in Objects
  BY <1>3, IndicesAre DEF Singles, Kinds, PerImage, PerFrame, Objects
<1>5. /\ o[1] = "instance" => FALSE
      /\ k = "instance" => o[1] \in {"messenger", "surface", "device"}
      /\ k = "surface" => o[1] = "swapchain"
      /\ k = "swapchain" => o[1] = "view"
      /\ k = "image" => o[1] = "depth_view"
      /\ k = "gfx_pool" => o[1] = "cmdbuf"
      /\ k = "device" => o[1] \in {"gfx_pool", "tsfr_pool", "comp_pool", "swapchain", "image",
           "memory", "renderpass", "framebuffer", "image_sem", "queue_sem", "fence"}
  BY <1>1, <1>2 DEF Parents, Kinds
<1>6. p \in Items /\ p[1] = k
  BY <1>2, <1>4, ItemsAre
<1>7. MakeRank[p] < MakeRank[o]
  BY <1>1, <1>3, <1>5, <1>6 DEF MakeRank
<1>8. CloseRank[o] < CloseRank[p]
  BY <1>1, <1>3, <1>5, <1>6 DEF CloseRank
<1> QED BY <1>2, <1>3, <1>4, <1>6, <1>7, <1>8 DEF Unchecked

LEMMA ThreeAndThree ==
  ASSUME NEW x \in Seq(Items), NEW y \in Seq(Items), Len(x) = 3, Len(y) = 3
  PROVE  /\ x \o y \in Seq(Items) /\ Len(x \o y) = 6
         /\ \A j \in 1 .. 3 : (x \o y)[j] = x[j]
         /\ \A j \in 4 .. 6 : (x \o y)[j] = y[j - 3]
<1>1. /\ x \o y \in Seq(Items)
      /\ Len(x \o y) = Len(x) + Len(y)
      /\ \A i \in 1 .. Len(x) + Len(y) :
           (x \o y)[i] = IF i <= Len(x) THEN x[i] ELSE y[i - Len(x)]
  BY ConcatProperties
<1> QED BY <1>1

\* What each frame has: two semaphores and a fence.
LEMMA FitsFrames ==
  ASSUME NEW rank \in [Items -> Nat], NEW r \in Nat,
         \A k \in PerFrame : \A i \in 0 .. MaxFrames - 1 : rank[<<k, i>>] = r
  PROVE  Fits(ForEach(MaxFrames, <<"image_sem", "queue_sem">> \o <<"fence">>), rank, r, r,
              PerFrame \X (0 .. MaxFrames - 1))
<1> DEFINE kinds == <<"image_sem", "queue_sem", "fence">>
           s(i) == [k \in 1 .. 3 |-> <<kinds[k], i>>]
           seqs == [i \in 1 .. MaxFrames |-> s(i - 1)]
           u == s(0) \o s(1)
<1>0. MaxFrames = 2
  BY DEF MaxFrames
<1>1. <<"image_sem", "queue_sem">> \o <<"fence">> = kinds
  <2> DEFINE x == <<"image_sem", "queue_sem">>
             y == <<"fence">>
  <2>1. x \in Seq(PerFrame) /\ y \in Seq(PerFrame) /\ kinds \in Seq(PerFrame)
    BY DEF PerFrame
  <2>2. Len(x) = 2 /\ Len(y) = 1 /\ Len(kinds) = 3
    OBVIOUS
  <2>3. x[1] = kinds[1] /\ x[2] = kinds[2] /\ y[1] = kinds[3]
    OBVIOUS
  <2> HIDE DEF x, y, kinds
  <2>4. /\ x \o y \in Seq(PerFrame)
        /\ Len(x \o y) = Len(x) + Len(y)
        /\ \A i \in 1 .. Len(x) + Len(y) :
             (x \o y)[i] = IF i <= Len(x) THEN x[i] ELSE y[i - Len(x)]
    BY <2>1, ConcatProperties
  <2>5. (x \o y)[1] = x[1] /\ (x \o y)[2] = x[2] /\ (x \o y)[3] = y[1]
    BY <2>2, <2>4
  <2>6. Len(x \o y) = Len(kinds) /\ \A i \in 1 .. Len(x \o y) : (x \o y)[i] = kinds[i]
    BY <2>2, <2>3, <2>4, <2>5
  <2>7. x \o y = kinds
    BY <2>1, <2>4, <2>6, SeqEqual
  <2> QED BY <2>7 DEF x, y
<1>2. /\ Len(kinds) = 3 /\ kinds[1] = "image_sem" /\ kinds[2] = "queue_sem" /\ kinds[3] = "fence"
      /\ \A k \in 1 .. 3 : kinds[k] \in PerFrame
      /\ \A j, k \in 1 .. 3 : kinds[j] = kinds[k] => j = k
  BY DEF PerFrame
<1> HIDE DEF kinds
<1>3. ForEach(MaxFrames, kinds) = FlattenSeq(seqs)
  BY <1>0, <1>2 DEF ForEach
<1>4. FlattenSeq(seqs) = u
  <2> DEFINE g == [i \in 1 .. MaxFrames |-> IF i = 1 THEN s(0) ELSE u]
  <2>1. Len(seqs) = MaxFrames /\ seqs[1] = s(0) /\ seqs[2] = s(1) /\ MaxFrames \in Nat \ {0}
    BY <1>0
  <2>2. g[1] = s(0) /\ g[2] = u
    BY <1>0
  <2> HIDE DEF seqs, s
  <2>3. ASSUME NEW i \in 1 .. MaxFrames
        PROVE  g[i] = IF i = 1 THEN seqs[i] ELSE g[i - 1] \o seqs[i]
    BY <1>0, <2>1
  <2> HIDE DEF g, u
  <2>4. FlattenSeq(seqs) = g[MaxFrames]
    BY <2>1, <2>3, FlattenIs
  <2> QED BY <1>0, <2>2, <2>4
<1>5. ASSUME NEW i \in 0 .. 1
      PROVE  /\ s(i) \in Seq(Items) /\ Len(s(i)) = 3
             /\ \A k \in 1 .. 3 : s(i)[k] = <<kinds[k], i>> /\ <<kinds[k], i>> \in Items
  <2>1. \A k \in 1 .. 3 : <<kinds[k], i>> \in Items
    BY <1>2, ItemsAre DEF MaxFrames, PerFrame, Kinds
  <2> QED BY <2>1
<1>6. /\ u \in Seq(Items) /\ Len(u) = 6
      /\ \A j \in 1 .. 3 : u[j] = s(0)[j]
      /\ \A j \in 4 .. 6 : u[j] = s(1)[j - 3]
  <2>1. 0 \in 0 .. 1 /\ 1 \in 0 .. 1
    OBVIOUS
  <2>2. s(0) \in Seq(Items) /\ Len(s(0)) = 3 /\ s(1) \in Seq(Items) /\ Len(s(1)) = 3
    BY <1>5, <2>1
  <2> HIDE DEF s
  <2> QED BY <2>2, ThreeAndThree
<1>7. \A j \in 1 .. 6 :
        /\ j <= 3 => j \in 1 .. 3 /\ u[j] = <<kinds[j], 0>>
        /\ j > 3 => j - 3 \in 1 .. 3 /\ u[j] = <<kinds[j - 3], 1>>
  BY <1>5, <1>6
<1> HIDE DEF u, s
<1>8. \A i, j \in 1 .. 6 : u[i] = u[j] => i = j
  <2> SUFFICES ASSUME NEW i \in 1 .. 6, NEW j \in 1 .. 6, u[i] = u[j] PROVE i = j
    OBVIOUS
  <2>1. CASE i <= 3 /\ j <= 3
    BY <1>2, <1>7, <2>1
  <2>2. CASE i > 3 /\ j > 3
    <3>1. i - 3 = j - 3
      BY <1>2, <1>7, <2>2
    <3> QED BY <3>1
  <2>3. CASE (i <= 3 /\ j > 3) \/ (i > 3 /\ j <= 3)
    BY <1>7, <2>3
  <2> QED BY <2>1, <2>2, <2>3
<1>9. Elems(u) = PerFrame \X (0 .. MaxFrames - 1)
  <2>1. \A j \in 1 .. 6 : u[j] \in PerFrame \X (0 .. 1)
    <3> SUFFICES ASSUME NEW j \in 1 .. 6 PROVE u[j] \in PerFrame \X (0 .. 1)
      OBVIOUS
    <3>1. CASE j <= 3
      BY <1>2, <1>7, <3>1
    <3>2. CASE j > 3
      <4>1. u[j] = <<kinds[j - 3], 1>> /\ kinds[j - 3] \in PerFrame
        BY <1>2, <1>7, <3>2
      <4> QED BY <4>1
    <3> QED BY <3>1, <3>2
  <2>2. ASSUME NEW o \in PerFrame \X (0 .. 1) PROVE \E j \in 1 .. 6 : u[j] = o
    <3>1. PICK k \in 1 .. 3, i \in 0 .. 1 : o = <<kinds[k], i>>
      BY <1>2 DEF PerFrame
    <3>2. CASE i = 0
      BY <1>7, <3>1, <3>2
    <3>3. CASE i = 1
      <4>1. k + 3 \in 1 .. 6 /\ k + 3 > 3 /\ (k + 3) - 3 = k
        OBVIOUS
      <4> QED BY <1>7, <3>1, <3>3, <4>1
    <3> QED BY <3>2, <3>3
  <2>3. Elems(u) = {u[j] : j \in 1 .. 6}
    BY <1>6 DEF Elems
  <2> QED BY <2>1, <2>2, <2>3 DEF MaxFrames
<1>10. \A o \in PerFrame \X (0 .. MaxFrames - 1) : rank[o] = r
  OBVIOUS
<1>11. \A j \in 1 .. 6 : rank[u[j]] = r
  BY <1>6, <1>9, <1>10 DEF Elems
<1>12. Rises(u, rank)
  BY <1>6, <1>8, <1>11 DEF Rises
<1>13. Fits(u, rank, r, r, PerFrame \X (0 .. MaxFrames - 1))
  BY <1>9, <1>10, <1>12 DEF Fits
<1> QED BY <1>1, <1>3, <1>4, <1>13

-----------------------------------------------------------------------------
(* The pieces of _init_vulkan and of _close_vulkan.                          *)

\* The ranks of what is made once.
LEMMA MakeRanks ==
  /\ MakeRank[<<"instance", 0>>] = 1 /\ MakeRank[<<"messenger", 0>>] = 2
  /\ MakeRank[<<"surface", 0>>] = 3 /\ MakeRank[<<"device", 0>>] = 4
  /\ MakeRank[<<"gfx_pool", 0>>] = 5 /\ MakeRank[<<"tsfr_pool", 0>>] = 6
  /\ MakeRank[<<"comp_pool", 0>>] = 7 /\ MakeRank[<<"swapchain", 0>>] = 8
  /\ MakeRank[<<"images", 0>>] = 9 /\ MakeRank[<<"views", 0>>] = 10
  /\ MakeRank[<<"image", 0>>] = 12 /\ MakeRank[<<"memory", 0>>] = 13
  /\ MakeRank[<<"depth_view", 0>>] = 14 /\ MakeRank[<<"renderpass", 0>>] = 15
  /\ MakeRank[<<"framebuffers", 0>>] = 16 /\ MakeRank[<<"cmdbuffers", 0>>] = 18
  /\ MakeRank[<<"images_in_flight", 0>>] = 21
<1>1. \A k \in Kinds \cup Arrays : <<k, 0>> \in Items
  BY ItemsAre
<1> QED BY <1>1 DEF MakeRank, Kinds, Arrays

LEMMA CloseRanks ==
  /\ CloseRank[<<"renderpass", 0>>] = 4 /\ CloseRank[<<"depth_view", 0>>] = 6
  /\ CloseRank[<<"memory", 0>>] = 7 /\ CloseRank[<<"image", 0>>] = 8
  /\ CloseRank[<<"swapchain", 0>>] = 9 /\ CloseRank[<<"gfx_pool", 0>>] = 10
  /\ CloseRank[<<"tsfr_pool", 0>>] = 11 /\ CloseRank[<<"comp_pool", 0>>] = 12
  /\ CloseRank[<<"device", 0>>] = 13 /\ CloseRank[<<"messenger", 0>>] = 14
  /\ CloseRank[<<"surface", 0>>] = 15 /\ CloseRank[<<"instance", 0>>] = 16
<1>1. \A k \in Kinds \cup Arrays : <<k, 0>> \in Items
  BY ItemsAre
<1> QED BY <1>1 DEF CloseRank, Kinds

\* One of a kind, where its rank is r.
LEMMA FitsAt ==
  ASSUME NEW rank \in [Items -> Nat], NEW what \in Kinds \cup Arrays, NEW r \in Nat,
         rank[<<what, 0>>] = r
  PROVE  Fits(One(what), rank, r, r, {<<what, 0>>})
<1>1. <<what, 0>> \in Items
  BY ItemsAre
<1> QED BY <1>1, FitsOne

\* What there is for each image, in both orders.
LEMMA ImagesFit ==
  ASSUME NEW n \in 1 .. MaxImages
  PROVE  /\ Fits(ForEach(n, <<"view">>), MakeRank, 11, 11, {"view"} \X (0 .. n - 1))
         /\ Fits(ForEach(n, <<"framebuffer">>), MakeRank, 17, 17, {"framebuffer"} \X (0 .. n - 1))
         /\ Fits(ForEach(n, <<"cmdbuf">>), MakeRank, 19, 19, {"cmdbuf"} \X (0 .. n - 1))
         /\ Fits(ForEach(n, <<"view">>), CloseRank, 5, 5, {"view"} \X (0 .. n - 1))
         /\ Fits(ForEach(n, <<"framebuffer">>), CloseRank, 3, 3, {"framebuffer"} \X (0 .. n - 1))
         /\ Fits(ForEach(n, <<"cmdbuf">>), CloseRank, 2, 2, {"cmdbuf"} \X (0 .. n - 1))
<1>1. n \in Nat \ {0}
  BY IndicesAre
<1>2. \A k \in PerImage : \A i \in 0 .. n - 1 : <<k, i>> \in Items
  BY ItemsAre DEF PerImage, Kinds
<1>3. \A i \in 0 .. n - 1 :
        /\ <<"view", i>> \in Items /\ MakeRank[<<"view", i>>] = 11 /\ CloseRank[<<"view", i>>] = 5
        /\ <<"framebuffer", i>> \in Items /\ MakeRank[<<"framebuffer", i>>] = 17
        /\ CloseRank[<<"framebuffer", i>>] = 3
        /\ <<"cmdbuf", i>> \in Items /\ MakeRank[<<"cmdbuf", i>>] = 19
        /\ CloseRank[<<"cmdbuf", i>>] = 2
  BY <1>2 DEF MakeRank, CloseRank, PerImage
<1>4. Fits(ForEach(n, <<"view">>), MakeRank, 11, 11, {"view"} \X (0 .. n - 1))
  BY <1>1, <1>3, FitsEach, RanksAreNumbers
<1>5. Fits(ForEach(n, <<"framebuffer">>), MakeRank, 17, 17, {"framebuffer"} \X (0 .. n - 1))
  BY <1>1, <1>3, FitsEach, RanksAreNumbers
<1>6. Fits(ForEach(n, <<"cmdbuf">>), MakeRank, 19, 19, {"cmdbuf"} \X (0 .. n - 1))
  BY <1>1, <1>3, FitsEach, RanksAreNumbers
<1>7. Fits(ForEach(n, <<"view">>), CloseRank, 5, 5, {"view"} \X (0 .. n - 1))
  BY <1>1, <1>3, FitsEach, RanksAreNumbers
<1>8. Fits(ForEach(n, <<"framebuffer">>), CloseRank, 3, 3, {"framebuffer"} \X (0 .. n - 1))
  BY <1>1, <1>3, FitsEach, RanksAreNumbers
<1>9. Fits(ForEach(n, <<"cmdbuf">>), CloseRank, 2, 2, {"cmdbuf"} \X (0 .. n - 1))
  BY <1>1, <1>3, FitsEach, RanksAreNumbers
<1> QED BY <1>4, <1>5, <1>6, <1>7, <1>8, <1>9

LEMMA FramesFit ==
  /\ Fits(ForEach(MaxFrames, <<"image_sem", "queue_sem">> \o <<"fence">>), MakeRank, 20, 20,
          PerFrame \X (0 .. MaxFrames - 1))
  /\ Fits(ForEach(MaxFrames, <<"image_sem", "queue_sem">> \o <<"fence">>), CloseRank, 1, 1,
          PerFrame \X (0 .. MaxFrames - 1))
<1>1. \A k \in PerFrame : \A i \in 0 .. MaxFrames - 1 : <<k, i>> \in Items
  BY ItemsAre DEF PerFrame, Kinds
<1>2. \A k \in PerFrame : \A i \in 0 .. MaxFrames - 1 :
        MakeRank[<<k, i>>] = 20 /\ CloseRank[<<k, i>>] = 1
  BY <1>1 DEF MakeRank, CloseRank, PerFrame
<1>3. Fits(ForEach(MaxFrames, <<"image_sem", "queue_sem">> \o <<"fence">>), MakeRank, 20, 20,
           PerFrame \X (0 .. MaxFrames - 1))
  BY <1>2, FitsFrames, RanksAreNumbers
<1>4. Fits(ForEach(MaxFrames, <<"image_sem", "queue_sem">> \o <<"fence">>), CloseRank, 1, 1,
           PerFrame \X (0 .. MaxFrames - 1))
  BY <1>2, FitsFrames, RanksAreNumbers
<1> QED BY <1>3, <1>4

-----------------------------------------------------------------------------
(* What _init_vulkan makes, and what _close_vulkan destroys.                 *)

LEMMA ContextFits ==
  ASSUME NEW layers \in BOOLEAN
  PROVE  Fits(create_vkcontext(layers), MakeRank, 1, 2,
              {<<"instance", 0>>} \cup (IF layers THEN {<<"messenger", 0>>} ELSE {}))
<1>1. Fits(One("instance"), MakeRank, 1, 1, {<<"instance", 0>>})
  BY FitsAt, RanksAreNumbers, MakeRanks DEF Kinds
<1>2. Fits(One("messenger"), MakeRank, 2, 2, {<<"messenger", 0>>})
  BY FitsAt, RanksAreNumbers, MakeRanks DEF Kinds
<1>3. Fits(One("instance"), MakeRank, 1, 2, {<<"instance", 0>>})
  BY <1>1, MakeRanks DEF Fits
<1>4. Fits(One("instance") \o One("messenger"), MakeRank, 1, 2,
           {<<"instance", 0>>} \cup {<<"messenger", 0>>})
  BY <1>1, <1>2, FitsJoin, RanksAreNumbers
<1>5. One("instance") \o <<>> = One("instance")
  BY <1>1, ConcatEmptySeq DEF Fits, Rises
<1> QED BY <1>3, <1>4, <1>5 DEF create_vkcontext, _init_vkdebugger

LEMMA DeviceFits ==
  Fits(create_vkdev, MakeRank, 4, 7,
       {<<"device", 0>>} \cup {<<"gfx_pool", 0>>} \cup {<<"tsfr_pool", 0>>} \cup {<<"comp_pool", 0>>})
<1>1. /\ Fits(One("device"), MakeRank, 4, 4, {<<"device", 0>>})
      /\ Fits(One("gfx_pool"), MakeRank, 5, 5, {<<"gfx_pool", 0>>})
      /\ Fits(One("tsfr_pool"), MakeRank, 6, 6, {<<"tsfr_pool", 0>>})
      /\ Fits(One("comp_pool"), MakeRank, 7, 7, {<<"comp_pool", 0>>})
  BY FitsAt, RanksAreNumbers, MakeRanks DEF Kinds
<1>2. Fits(One("device") \o One("gfx_pool"), MakeRank, 4, 5, {<<"device", 0>>} \cup {<<"gfx_pool", 0>>})
  BY <1>1, FitsJoin, RanksAreNumbers
<1>3. Fits(One("device") \o One("gfx_pool") \o One("tsfr_pool"), MakeRank, 4, 6,
           {<<"device", 0>>} \cup {<<"gfx_pool", 0>>} \cup {<<"tsfr_pool", 0>>})
  BY <1>1, <1>2, FitsJoin, RanksAreNumbers
<1>4. Fits(One("device") \o One("gfx_pool") \o One("tsfr_pool") \o One("comp_pool"), MakeRank, 4, 7,
           {<<"device", 0>>} \cup {<<"gfx_pool", 0>>} \cup {<<"tsfr_pool", 0>>} \cup {<<"comp_pool", 0>>})
  BY <1>1, <1>3, FitsJoin, RanksAreNumbers
<1> QED BY <1>4 DEF create_vkdev

LEMMA ImageFits ==
  Fits(create_vkimage, MakeRank, 12, 14,
       {<<"image", 0>>} \cup {<<"memory", 0>>} \cup {<<"depth_view", 0>>})
<1>1. /\ Fits(One("image"), MakeRank, 12, 12, {<<"image", 0>>})
      /\ Fits(One("memory"), MakeRank, 13, 13, {<<"memory", 0>>})
      /\ Fits(One("depth_view"), MakeRank, 14, 14, {<<"depth_view", 0>>})
  BY FitsAt, RanksAreNumbers, MakeRanks DEF Kinds
<1>2. Fits(One("image") \o One("memory"), MakeRank, 12, 13, {<<"image", 0>>} \cup {<<"memory", 0>>})
  BY <1>1, FitsJoin, RanksAreNumbers
<1>3. Fits(One("image") \o One("memory") \o One("depth_view"), MakeRank, 12, 14,
           {<<"image", 0>>} \cup {<<"memory", 0>>} \cup {<<"depth_view", 0>>})
  BY <1>1, <1>2, FitsJoin, RanksAreNumbers
<1> QED BY <1>3 DEF create_vkimage, _create_image_view

LEMMA SwapchainFits ==
  ASSUME NEW n \in 1 .. MaxImages
  PROVE  Fits(create_swapchain(n), MakeRank, 8, 14,
              {<<"swapchain", 0>>} \cup {<<"images", 0>>} \cup {<<"views", 0>>}
                \cup ({"view"} \X (0 .. n - 1))
                \cup ({<<"image", 0>>} \cup {<<"memory", 0>>} \cup {<<"depth_view", 0>>}))
<1> DEFINE V == {"view"} \X (0 .. n - 1)
           I == {<<"image", 0>>} \cup {<<"memory", 0>>} \cup {<<"depth_view", 0>>}
           A == {<<"swapchain", 0>>} \cup {<<"images", 0>>} \cup {<<"views", 0>>}
           arrays == One("swapchain") \o One("images") \o One("views")
           views == ForEach(n, <<"view">>)
<1>1. /\ Fits(One("swapchain"), MakeRank, 8, 8, {<<"swapchain", 0>>})
      /\ Fits(One("images"), MakeRank, 9, 9, {<<"images", 0>>})
      /\ Fits(One("views"), MakeRank, 10, 10, {<<"views", 0>>})
  BY FitsAt, RanksAreNumbers, MakeRanks DEF Kinds, Arrays
<1>2. Fits(views, MakeRank, 11, 11, V)
  BY ImagesFit
<1>3. Fits(create_vkimage, MakeRank, 12, 14, I)
  BY ImageFits
<1> HIDE DEF V, I
<1>4. Fits(One("swapchain") \o One("images"), MakeRank, 8, 9,
           {<<"swapchain", 0>>} \cup {<<"images", 0>>})
  BY <1>1, FitsJoin, RanksAreNumbers
<1>5. Fits(arrays, MakeRank, 8, 10, A)
  BY <1>1, <1>4, FitsJoin, RanksAreNumbers
<1> HIDE DEF arrays, views, A
<1>6. Fits(arrays \o views, MakeRank, 8, 11, A \cup V)
  BY <1>2, <1>5, FitsJoin, RanksAreNumbers
<1>7. Fits(arrays \o views \o create_vkimage, MakeRank, 8, 14, A \cup V \cup I)
  BY <1>3, <1>6, FitsJoin, RanksAreNumbers
<1> QED BY <1>7 DEF create_swapchain, arrays, views, A, V, I

\* For every number of images, _init_vulkan makes each object of a renderer
\* and each array once, in the order of MakeRank.
LEMMA InitFits ==
  ASSUME NEW layers \in BOOLEAN, NEW n \in 1 .. MaxImages
  PROVE  Fits(_init_vulkan(layers, n), MakeRank, 1, 21, Renderer(layers, n) \cup (Arrays \X {0}))
<1> DEFINE C == {<<"instance", 0>>} \cup (IF layers THEN {<<"messenger", 0>>} ELSE {})
           D == {<<"device", 0>>} \cup {<<"gfx_pool", 0>>} \cup {<<"tsfr_pool", 0>>}
                  \cup {<<"comp_pool", 0>>}
           W == {<<"swapchain", 0>>} \cup {<<"images", 0>>} \cup {<<"views", 0>>}
                  \cup ({"view"} \X (0 .. n - 1))
                  \cup ({<<"image", 0>>} \cup {<<"memory", 0>>} \cup {<<"depth_view", 0>>})
           B == {"framebuffer"} \X (0 .. n - 1)
           U == {"cmdbuf"} \X (0 .. n - 1)
           F == PerFrame \X (0 .. MaxFrames - 1)
           frames == ForEach(MaxFrames, <<"image_sem", "queue_sem">> \o <<"fence">>)
           s1 == create_vkcontext(layers) \o One("surface")
           s2 == s1 \o create_vkdev
           s3 == s2 \o create_swapchain(n)
           s4 == s3 \o One("renderpass")
           b == ForEach(n, <<"framebuffer">>)
           u == ForEach(n, <<"cmdbuf">>)
           bs == One("framebuffers") \o b
           us == One("cmdbuffers") \o u
           s5 == s4 \o bs
           s6 == s5 \o us
           s7 == s6 \o frames
           s8 == s7 \o One("images_in_flight")
           E1 == C \cup {<<"surface", 0>>}
           E2 == E1 \cup D
           E3 == E2 \cup W
           E4 == E3 \cup {<<"renderpass", 0>>}
           E5 == E4 \cup ({<<"framebuffers", 0>>} \cup B)
           E6 == E5 \cup ({<<"cmdbuffers", 0>>} \cup U)
           E7 == E6 \cup F
           E8 == E7 \cup {<<"images_in_flight", 0>>}
<1>1. /\ Fits(One("surface"), MakeRank, 3, 3, {<<"surface", 0>>})
      /\ Fits(One("renderpass"), MakeRank, 15, 15, {<<"renderpass", 0>>})
      /\ Fits(One("images_in_flight"), MakeRank, 21, 21, {<<"images_in_flight", 0>>})
  BY FitsAt, RanksAreNumbers, MakeRanks DEF Kinds, Arrays
<1>2. /\ Fits(create_vkcontext(layers), MakeRank, 1, 2, C)
      /\ Fits(create_vkdev, MakeRank, 4, 7, D)
      /\ Fits(create_swapchain(n), MakeRank, 8, 14, W)
  BY ContextFits, DeviceFits, SwapchainFits
<1>3. Fits(frames, MakeRank, 20, 20, F)
  BY FramesFit
<1> HIDE DEF C, D, W, F, frames
<1>4. Fits(bs, MakeRank, 16, 17, {<<"framebuffers", 0>>} \cup B)
  <2>1. Fits(One("framebuffers"), MakeRank, 16, 16, {<<"framebuffers", 0>>})
    BY FitsAt, RanksAreNumbers, MakeRanks DEF Arrays
  <2>2. Fits(b, MakeRank, 17, 17, B)
    BY ImagesFit
  <2> HIDE DEF b, B
  <2> QED BY <2>1, <2>2, FitsJoin, RanksAreNumbers
<1>5. Fits(us, MakeRank, 18, 19, {<<"cmdbuffers", 0>>} \cup U)
  <2>1. Fits(One("cmdbuffers"), MakeRank, 18, 18, {<<"cmdbuffers", 0>>})
    BY FitsAt, RanksAreNumbers, MakeRanks DEF Arrays
  <2>2. Fits(u, MakeRank, 19, 19, U)
    BY ImagesFit
  <2> HIDE DEF u, U
  <2> QED BY <2>1, <2>2, FitsJoin, RanksAreNumbers
<1> HIDE DEF b, u, bs, us, B, U
<1>6. Fits(s1, MakeRank, 1, 3, E1)
  <2>1. Fits(One("surface"), MakeRank, 3, 3, {<<"surface", 0>>})
    BY <1>1
  <2>2. Fits(create_vkcontext(layers), MakeRank, 1, 2, C)
    BY <1>2
  <2> QED BY <2>1, <2>2, FitsJoin, RanksAreNumbers
<1> HIDE DEF s1, E1
<1>7. Fits(s2, MakeRank, 1, 7, E2)
  BY <1>2, <1>6, FitsJoin, RanksAreNumbers
<1> HIDE DEF s2, E2
<1>8. Fits(s3, MakeRank, 1, 14, E3)
  BY <1>2, <1>7, FitsJoin, RanksAreNumbers
<1> HIDE DEF s3, E3
<1>9. Fits(s4, MakeRank, 1, 15, E4)
  BY <1>1, <1>8, FitsJoin, RanksAreNumbers
<1> HIDE DEF s4, E4
<1>10. Fits(s5, MakeRank, 1, 17, E5)
  BY <1>4, <1>9, FitsJoin, RanksAreNumbers
<1> HIDE DEF s5, E5
<1>11. Fits(s6, MakeRank, 1, 19, E6)
  BY <1>5, <1>10, FitsJoin, RanksAreNumbers
<1> HIDE DEF s6, E6
<1>12. Fits(s7, MakeRank, 1, 20, E7)
  BY <1>3, <1>11, FitsJoin, RanksAreNumbers
<1> HIDE DEF s7, E7
<1>13. Fits(s8, MakeRank, 1, 21, E8)
  BY <1>1, <1>12, FitsJoin, RanksAreNumbers
<1>14. _init_vulkan(layers, n) = s8
  BY DEF s1, s2, s3, s4, s5, s6, s7, b, u, bs, us, frames, _init_vulkan, create_vkrendpass, _init_framebuffers,
         create_vkframebuffer, _init_cmdbuffers, create_vkcmdbuffer, create_vkfence
<1>15. E8 = Renderer(layers, n) \cup (Arrays \X {0})
  BY DEF E1, E2, E3, E4, E5, E6, E7, C, D, W, B, U, F, Renderer, Arrays, Singles, PerImage,
         PerFrame, Kinds
<1> HIDE DEF s8, E8
<1> QED BY <1>13, <1>14, <1>15

LEMMA DestroyImageFits ==
  Fits(destroy_vkimage, CloseRank, 6, 8,
       {<<"depth_view", 0>>} \cup {<<"memory", 0>>} \cup {<<"image", 0>>})
<1>1. /\ Fits(One("depth_view"), CloseRank, 6, 6, {<<"depth_view", 0>>})
      /\ Fits(One("memory"), CloseRank, 7, 7, {<<"memory", 0>>})
      /\ Fits(One("image"), CloseRank, 8, 8, {<<"image", 0>>})
  BY FitsAt, RanksAreNumbers, CloseRanks DEF Kinds
<1>2. Fits(One("depth_view") \o One("memory"), CloseRank, 6, 7,
           {<<"depth_view", 0>>} \cup {<<"memory", 0>>})
  BY <1>1, FitsJoin, RanksAreNumbers
<1>3. Fits(One("depth_view") \o One("memory") \o One("image"), CloseRank, 6, 8,
           {<<"depth_view", 0>>} \cup {<<"memory", 0>>} \cup {<<"image", 0>>})
  BY <1>1, <1>2, FitsJoin, RanksAreNumbers
<1> QED BY <1>3 DEF destroy_vkimage

LEMMA DestroySwapchainFits ==
  ASSUME NEW n \in 1 .. MaxImages
  PROVE  Fits(destroy_swapchain(n), CloseRank, 5, 9,
              ({"view"} \X (0 .. n - 1))
                \cup ({<<"depth_view", 0>>} \cup {<<"memory", 0>>} \cup {<<"image", 0>>})
                \cup {<<"swapchain", 0>>})
<1> DEFINE V == {"view"} \X (0 .. n - 1)
           I == {<<"depth_view", 0>>} \cup {<<"memory", 0>>} \cup {<<"image", 0>>}
           views == ForEach(n, <<"view">>)
<1>1. Fits(One("swapchain"), CloseRank, 9, 9, {<<"swapchain", 0>>})
  BY FitsAt, RanksAreNumbers, CloseRanks DEF Kinds
<1>2. Fits(views, CloseRank, 5, 5, V)
  BY ImagesFit
<1>3. Fits(destroy_vkimage, CloseRank, 6, 8, I)
  BY DestroyImageFits
<1> HIDE DEF V, I, views
<1>4. Fits(views \o destroy_vkimage, CloseRank, 5, 8, V \cup I)
  BY <1>2, <1>3, FitsJoin, RanksAreNumbers
<1>5. Fits(views \o destroy_vkimage \o One("swapchain"), CloseRank, 5, 9,
           V \cup I \cup {<<"swapchain", 0>>})
  BY <1>1, <1>4, FitsJoin, RanksAreNumbers
<1> QED BY <1>5 DEF destroy_swapchain, views, V, I

LEMMA DestroyDeviceFits ==
  Fits(destroy_vkdev, CloseRank, 10, 13,
       {<<"gfx_pool", 0>>} \cup {<<"tsfr_pool", 0>>} \cup {<<"comp_pool", 0>>} \cup {<<"device", 0>>})
<1>1. /\ Fits(One("gfx_pool"), CloseRank, 10, 10, {<<"gfx_pool", 0>>})
      /\ Fits(One("tsfr_pool"), CloseRank, 11, 11, {<<"tsfr_pool", 0>>})
      /\ Fits(One("comp_pool"), CloseRank, 12, 12, {<<"comp_pool", 0>>})
      /\ Fits(One("device"), CloseRank, 13, 13, {<<"device", 0>>})
  BY FitsAt, RanksAreNumbers, CloseRanks DEF Kinds
<1>2. Fits(One("gfx_pool") \o One("tsfr_pool"), CloseRank, 10, 11,
           {<<"gfx_pool", 0>>} \cup {<<"tsfr_pool", 0>>})
  BY <1>1, FitsJoin, RanksAreNumbers
<1>3. Fits(One("gfx_pool") \o One("tsfr_pool") \o One("comp_pool"), CloseRank, 10, 12,
           {<<"gfx_pool", 0>>} \cup {<<"tsfr_pool", 0>>} \cup {<<"comp_pool", 0>>})
  BY <1>1, <1>2, FitsJoin, RanksAreNumbers
<1>4. Fits(One("gfx_pool") \o One("tsfr_pool") \o One("comp_pool") \o One("device"), CloseRank, 10, 13,
           {<<"gfx_pool", 0>>} \cup {<<"tsfr_pool", 0>>} \cup {<<"comp_pool", 0>>} \cup {<<"device", 0>>})
  BY <1>1, <1>3, FitsJoin, RanksAreNumbers
<1> QED BY <1>4 DEF destroy_vkdev

LEMMA DestroyContextFits ==
  ASSUME NEW dbg \in BOOLEAN
  PROVE  Fits(destroy_vkcontext(dbg), CloseRank, 14, 16,
              (IF dbg THEN {<<"messenger", 0>>} ELSE {})
                \cup {<<"surface", 0>>} \cup {<<"instance", 0>>})
<1> DEFINE m == IF dbg THEN One("messenger") ELSE <<>>
           M == IF dbg THEN {<<"messenger", 0>>} ELSE {}
<1>1. /\ Fits(One("messenger"), CloseRank, 14, 14, {<<"messenger", 0>>})
      /\ Fits(One("surface"), CloseRank, 15, 15, {<<"surface", 0>>})
      /\ Fits(One("instance"), CloseRank, 16, 16, {<<"instance", 0>>})
  BY FitsAt, RanksAreNumbers, CloseRanks DEF Kinds
<1>2. Fits(m, CloseRank, 14, 14, M)
  BY <1>1, FitsNone
<1> HIDE DEF m, M
<1>3. Fits(m \o One("surface"), CloseRank, 14, 15, M \cup {<<"surface", 0>>})
  BY <1>1, <1>2, FitsJoin, RanksAreNumbers
<1>4. Fits(m \o One("surface") \o One("instance"), CloseRank, 14, 16,
           M \cup {<<"surface", 0>>} \cup {<<"instance", 0>>})
  BY <1>1, <1>3, FitsJoin, RanksAreNumbers
<1> QED BY <1>4 DEF destroy_vkcontext, m, M

\* For every number of images, _close_vulkan destroys each object of a renderer
\* once, in the order of CloseRank.
LEMMA CloseFits ==
  ASSUME NEW dbg \in BOOLEAN, NEW n \in 1 .. MaxImages
  PROVE  Fits(_close_vulkan(dbg, n), CloseRank, 1, 16, Renderer(dbg, n))
<1> DEFINE C == (IF dbg THEN {<<"messenger", 0>>} ELSE {})
                  \cup {<<"surface", 0>>} \cup {<<"instance", 0>>}
           D == {<<"gfx_pool", 0>>} \cup {<<"tsfr_pool", 0>>} \cup {<<"comp_pool", 0>>}
                  \cup {<<"device", 0>>}
           W == ({"view"} \X (0 .. n - 1))
                  \cup ({<<"depth_view", 0>>} \cup {<<"memory", 0>>} \cup {<<"image", 0>>})
                  \cup {<<"swapchain", 0>>}
           B == {"framebuffer"} \X (0 .. n - 1)
           U == {"cmdbuf"} \X (0 .. n - 1)
           F == PerFrame \X (0 .. MaxFrames - 1)
           frames == ForEach(MaxFrames, <<"image_sem", "queue_sem">> \o <<"fence">>)
           s1 == frames \o ForEach(n, <<"cmdbuf">>)
           s2 == s1 \o ForEach(n, <<"framebuffer">>)
           s3 == s2 \o One("renderpass")
           s4 == s3 \o destroy_swapchain(n)
           s5 == s4 \o destroy_vkdev
           s6 == s5 \o destroy_vkcontext(dbg)
           E1 == F \cup U
           E2 == E1 \cup B
           E3 == E2 \cup {<<"renderpass", 0>>}
           E4 == E3 \cup W
           E5 == E4 \cup D
           E6 == E5 \cup C
<1>1. Fits(One("renderpass"), CloseRank, 4, 4, {<<"renderpass", 0>>})
  BY FitsAt, RanksAreNumbers, CloseRanks DEF Kinds
<1>2. /\ Fits(destroy_vkcontext(dbg), CloseRank, 14, 16, C)
      /\ Fits(destroy_vkdev, CloseRank, 10, 13, D)
      /\ Fits(destroy_swapchain(n), CloseRank, 5, 9, W)
  BY DestroyContextFits, DestroyDeviceFits, DestroySwapchainFits
<1>3. /\ Fits(ForEach(n, <<"framebuffer">>), CloseRank, 3, 3, B)
      /\ Fits(ForEach(n, <<"cmdbuf">>), CloseRank, 2, 2, U)
      /\ Fits(frames, CloseRank, 1, 1, F)
  BY ImagesFit, FramesFit
<1> HIDE DEF C, D, W, B, U, F, frames
<1>4. Fits(s1, CloseRank, 1, 2, E1)
  BY <1>3, FitsJoin, RanksAreNumbers
<1> HIDE DEF s1, E1
<1>5. Fits(s2, CloseRank, 1, 3, E2)
  BY <1>3, <1>4, FitsJoin, RanksAreNumbers
<1> HIDE DEF s2, E2
<1>6. Fits(s3, CloseRank, 1, 4, E3)
  BY <1>1, <1>5, FitsJoin, RanksAreNumbers
<1> HIDE DEF s3, E3
<1>7. Fits(s4, CloseRank, 1, 9, E4)
  BY <1>2, <1>6, FitsJoin, RanksAreNumbers
<1> HIDE DEF s4, E4
<1>8. Fits(s5, CloseRank, 1, 13, E5)
  BY <1>2, <1>7, FitsJoin, RanksAreNumbers
<1> HIDE DEF s5, E5
<1>9. Fits(s6, CloseRank, 1, 16, E6)
  BY <1>2, <1>8, FitsJoin, RanksAreNumbers
<1>10. _close_vulkan(dbg, n) = s6
  BY DEF s1, s2, s3, s4, s5, frames, _close_vulkan, destroy_vkrendpass, _destroy_framebuffers,
         destroy_vkframebuffer, _destroy_cmdbuffers, destroy_vkcmdbuffer, destroy_vkfence
<1>11. E6 = Renderer(dbg, n)
  BY DEF E1, E2, E3, E4, E5, C, D, W, B, U, F, Renderer, Singles, PerImage, PerFrame, Kinds
<1> HIDE DEF s6, E6
<1> QED BY <1>9, <1>10, <1>11

-----------------------------------------------------------------------------
(***************************************************************************)
(* The renderer's life.  What is still to make, or to destroy, stays in    *)
(* the order of its ranks (InOrder), which holds whatever the application  *)
(* does; and as long as the setting is not changed (Complete), what there  *)
(* is, what is to be made and what was passed over are together the        *)
(* objects of a renderer.                                                  *)
(***************************************************************************)

InOrder ==
  /\ phase = "init" => Rises(todo, MakeRank)
  /\ phase = "closing" => Rises(todo, CloseRank) /\ Elems(todo) \subseteq Objects
  /\ phase \in {"init", "closing"} => todo # <<>>
  /\ phase # "none" => img_count \in 1 .. MaxImages

\* The freed blocks of the arrays' size go to the first two, which nobody
\* expects to be zeroed.
Recycled ==
  /\ stale = {}
  /\ phase = "none" => spare <= 2
  /\ phase = "init" =>
       /\ <<"images", 0>> \in Elems(todo) => <<"views", 0>> \in Elems(todo) /\ spare <= 2
       /\ <<"images", 0>> \notin Elems(todo) => spare <= 1
       /\ <<"views", 0>> \notin Elems(todo) => spare = 0

Complete ==
  /\ phase = "none" => live = {} /\ unmade = {}
  /\ phase = "init" => live \cup unmade \cup (Elems(todo) \cap Objects) = Renderer(debug, img_count)
  /\ phase = "ready" => live \cup unmade = Renderer(debug, img_count)
  /\ phase = "closing" => live \subseteq Elems(todo) /\ Elems(todo) \subseteq live \cup unmade
  /\ phase = "closed" => live = {}
  /\ \A o \in unmade : o[1] \in Unchecked
  /\ ParentsOutlive

OrderInv == RTypeOK /\ InOrder

\* The first of a rising sequence has the least rank, and the others rise.
LEMMA RisesTail ==
  ASSUME NEW rank \in [Items -> Nat], NEW s, Rises(s, rank), s # <<>>
  PROVE  /\ Rises(Tail(s), rank)
         /\ Head(s) \in Elems(s) /\ Elems(s) \subseteq Items
         /\ Elems(Tail(s)) = Elems(s) \ {Head(s)}
         /\ \A o \in Elems(s) : rank[Head(s)] <= rank[o]
         /\ Tail(s) = <<>> => Elems(s) = {Head(s)}
<1>1. s \in Seq(Items) /\ Len(s) \in Nat \ {0} /\ Head(s) = s[1]
  BY EmptySeq DEF Rises
<1>2. /\ Tail(s) \in Seq(Items)
      /\ Len(Tail(s)) = Len(s) - 1
      /\ \A i \in 1 .. Len(Tail(s)) : Tail(s)[i] = s[i + 1]
  BY <1>1, HeadTailProperties
<1>3. \A i \in 1 .. Len(Tail(s)) : i + 1 \in 1 .. Len(s) /\ i + 1 # 1 /\ Tail(s)[i] = s[i + 1]
  BY <1>1, <1>2
<1>4. Rises(Tail(s), rank)
  <2>1. ASSUME NEW i \in 1 .. Len(Tail(s)), NEW j \in 1 .. Len(Tail(s)), Tail(s)[i] = Tail(s)[j]
        PROVE  i = j
    <3>1. i + 1 = j + 1
      BY <1>3, <2>1 DEF Rises
    <3> QED BY <3>1
  <2>2. ASSUME NEW i \in 1 .. Len(Tail(s)), NEW j \in 1 .. Len(Tail(s)), i < j
        PROVE  rank[Tail(s)[i]] <= rank[Tail(s)[j]]
    <3>1. i + 1 < j + 1 /\ i + 1 \in 1 .. Len(s) /\ j + 1 \in 1 .. Len(s)
      BY <1>3, <2>2
    <3>2. rank[s[i + 1]] <= rank[s[j + 1]]
      BY <3>1 DEF Rises
    <3> QED BY <1>3, <3>2
  <2> QED BY <1>2, <2>1, <2>2 DEF Rises
<1>5. Head(s) \in Elems(s) /\ Elems(s) \subseteq Items
  <2>1. 1 \in 1 .. Len(s)
    BY <1>1
  <2> QED BY <1>1, <2>1 DEF Elems
<1>6. Elems(Tail(s)) = Elems(s) \ {Head(s)}
  <2>1. ASSUME NEW o \in Elems(Tail(s)) PROVE o \in Elems(s) /\ o # Head(s)
    <3>1. PICK i \in 1 .. Len(Tail(s)) : o = Tail(s)[i]
      BY DEF Elems
    <3>2. 1 \in 1 .. Len(s) /\ i + 1 \in 1 .. Len(s) /\ i + 1 # 1 /\ o = s[i + 1]
      BY <1>1, <1>3, <3>1
    <3> QED BY <1>1, <3>2 DEF Elems, Rises
  <2>2. ASSUME NEW o \in Elems(s), o # Head(s) PROVE o \in Elems(Tail(s))
    <3>1. PICK i \in 1 .. Len(s) : o = s[i]
      BY DEF Elems
    <3>2. i # 1 /\ i - 1 \in 1 .. Len(Tail(s)) /\ (i - 1) + 1 = i
      BY <1>1, <1>2, <2>2, <3>1
    <3>3. o = Tail(s)[i - 1]
      BY <1>3, <3>1, <3>2
    <3> QED BY <3>2, <3>3 DEF Elems
  <2> QED BY <2>1, <2>2
<1>7. ASSUME NEW o \in Elems(s) PROVE rank[Head(s)] <= rank[o]
  <2>1. PICK i \in 1 .. Len(s) : o = s[i]
    BY DEF Elems
  <2>2. CASE i = 1
    <3>1. rank[Head(s)] \in Nat
      BY <1>5
    <3> QED BY <1>1, <2>1, <2>2, <3>1
  <2>3. CASE i # 1
    <3>1. 1 < i /\ 1 \in 1 .. Len(s)
      BY <1>1, <2>3
    <3> QED BY <1>1, <2>1, <3>1 DEF Rises
  <2> QED BY <2>2, <2>3
<1>8. Tail(s) = <<>> => Elems(s) = {Head(s)}
  BY <1>5, <1>6 DEF Elems
<1> QED BY <1>4, <1>5, <1>6, <1>7, <1>8

\* What begins: a selection and a closing have something to do.
LEMMA Begins ==
  ASSUME NEW rank, NEW a, NEW b, NEW s, NEW dbg, NEW n, NEW E,
         Fits(s, rank, a, b, Renderer(dbg, n) \cup E)
  PROVE  Rises(s, rank) /\ s # <<>> /\ s \in Seq(Items)
<1>1. <<"instance", 0>> \in Elems(s)
  BY DEF Fits, Renderer, Singles, Kinds, PerImage, PerFrame
<1> QED BY <1>1 DEF Fits, Rises, Elems

LEMMA RendererHasObjects ==
  ASSUME NEW n \in 1 .. MaxImages, NEW dbg
  PROVE  Renderer(dbg, n) \subseteq Objects
<1>1. \A k \in Kinds : <<k, 0>> \in Objects
  BY IndicesAre DEF Objects
<1>2. \A k \in Kinds : \A i \in 0 .. n - 1 : <<k, i>> \in Objects
  BY IndicesAre DEF Objects
<1>3. \A k \in Kinds : \A i \in 0 .. MaxFrames - 1 : <<k, i>> \in Objects
  BY DEF Objects
<1>4. Singles \subseteq Kinds /\ PerImage \subseteq Kinds /\ PerFrame \subseteq Kinds
  BY DEF Singles, PerImage, PerFrame, Kinds
<1> QED BY <1>1, <1>2, <1>3, <1>4 DEF Renderer

LEMMA SelectIs ==
  ASSUME RTypeOK, select_render_vulkan
  PROVE  /\ img_count' \in 1 .. MaxImages /\ todo' \in Seq(Items) /\ todo' # <<>>
         /\ Rises(todo', MakeRank) /\ phase' = "init"
         /\ unmade' \subseteq Objects /\ \A o \in unmade' : o[1] \in Unchecked
         /\ unmade' \cup (Elems(todo') \cap Objects) = Renderer(debug, img_count')
         /\ \A k \in Arrays : <<k, 0>> \in Elems(todo')
<1>1. PICK n \in 1 .. MaxImages, layers \in init_vklayers :
        /\ img_count' = n
        /\ todo' = _init_vulkan(layers, n)
        /\ unmade' = IF debug /\ ~ layers THEN {<<"messenger", 0>>} ELSE {}
  BY DEF select_render_vulkan
<1>2. layers \in BOOLEAN /\ debug \in BOOLEAN /\ (layers => debug)
  BY DEF init_vklayers, RTypeOK
<1>3. Fits(todo', MakeRank, 1, 21, Renderer(layers, n) \cup (Arrays \X {0}))
  BY <1>1, <1>2, InitFits
<1>4. Rises(todo', MakeRank) /\ todo' # <<>> /\ todo' \in Seq(Items)
  BY <1>3, Begins
<1>5. Elems(todo') = Renderer(layers, n) \cup (Arrays \X {0})
  BY <1>3 DEF Fits
<1>6. Renderer(layers, n) \subseteq Objects
  BY RendererHasObjects
<1>7. \A o \in Arrays \X {0} : o \notin Objects
  BY DEF Objects, Arrays, Kinds
<1>8. Elems(todo') \cap Objects = Renderer(layers, n)
  BY <1>5, <1>6, <1>7
<1>9. <<"messenger", 0>> \in Objects /\ <<"messenger", 0>>[1] \in Unchecked
  BY IndicesAre DEF Objects, Kinds, Unchecked
<1>10. /\ Renderer(FALSE, n) \cup {<<"messenger", 0>>} = Renderer(TRUE, n)
       /\ "messenger" \in Singles
  BY DEF Renderer, Singles, Kinds, PerImage, PerFrame
<1>11. unmade' \cup Renderer(layers, n) = Renderer(debug, n)
  BY <1>1, <1>2, <1>10
<1>12. unmade' \subseteq Objects /\ \A o \in unmade' : o[1] \in Unchecked
  BY <1>1, <1>9
<1> QED BY <1>1, <1>4, <1>5, <1>8, <1>11, <1>12 DEF select_render_vulkan

LEMMA CloseIs ==
  ASSUME OrderInv, CloseRenderer
  PROVE  /\ todo' \in Seq(Items) /\ todo' # <<>> /\ Rises(todo', CloseRank)
         /\ Elems(todo') = Renderer(debug', img_count) /\ Elems(todo') \subseteq Objects
         /\ debug' \in BOOLEAN
         /\ ~ DebugChanges => debug' = debug
<1>1. debug' \in BOOLEAN /\ (~ DebugChanges => debug' = debug)
  BY DEF CloseRenderer, OrderInv, RTypeOK
<1>2. img_count \in 1 .. MaxImages
  BY DEF CloseRenderer, OrderInv, InOrder
<1>3. todo' = _close_vulkan(debug', img_count)
  BY DEF CloseRenderer
<1>4. Fits(todo', CloseRank, 1, 16, Renderer(debug', img_count))
  BY <1>1, <1>2, <1>3, CloseFits
<1>5. Fits(todo', CloseRank, 1, 16, Renderer(debug', img_count) \cup {})
  BY <1>4
<1>6. Elems(todo') = Renderer(debug', img_count)
  BY <1>4 DEF Fits
<1> QED BY <1>1, <1>2, <1>5, <1>6, Begins, RendererHasObjects

-----------------------------------------------------------------------------
(* The order is kept, whatever the application changes.                      *)

\* A round of the work: the first of todo is done with.
LEMMA RoundIs ==
  ASSUME OrderInv, RWork
  PROVE  /\ phase \in {"init", "closing"} /\ todo # <<>> /\ img_count' = img_count /\ debug' = debug
         /\ \/ /\ todo' = Tail(todo) /\ (Tail(todo) # <<>> => phase' = phase)
               /\ Tail(todo) = <<>> => phase' = IF phase = "init" THEN "ready" ELSE "closed"
            \/ todo' = todo /\ phase' = "failed"
<1>1. CASE AllocArray
  BY <1>1 DEF AllocArray, Done, OrderInv, InOrder
<1>2. CASE Create
  BY <1>2 DEF Create, Done, OrderInv, InOrder
<1>3. CASE CreateFails
  BY <1>3 DEF CreateFails, Done, OrderInv, InOrder
<1>4. CASE Destroy
  BY <1>4 DEF Destroy, Done, OrderInv, InOrder
<1> QED BY <1>1, <1>2, <1>3, <1>4 DEF RWork

LEMMA HeadIs ==
  ASSUME OrderInv, phase \in {"init", "closing"}
  PROVE  /\ Head(todo) \in Items /\ Tail(todo) \in Seq(Items)
         /\ Head(todo)[1] \in Kinds => Head(todo) \in Objects
         /\ Head(todo)[1] \in Arrays => Head(todo) = <<Head(todo)[1], 0>>
<1>1. todo \in Seq(Items) /\ todo # <<>>
  BY DEF OrderInv, RTypeOK, InOrder, Items
<1>2. Head(todo) \in Items /\ Tail(todo) \in Seq(Items)
  BY <1>1, HeadTailProperties
<1> QED BY <1>2, ItemsAre

LEMMA NextOrder == OrderInv /\ [RNext]_rvars => OrderInv'
<1> SUFFICES ASSUME OrderInv, [RNext]_rvars PROVE OrderInv'
  OBVIOUS
<1>1. CASE UNCHANGED rvars
  BY <1>1 DEF rvars, OrderInv, RTypeOK, InOrder
<1>2. CASE select_render_vulkan
  <2>1. RTypeOK
    BY DEF OrderInv
  <2>2. InOrder'
    BY <1>2, <2>1, SelectIs DEF InOrder
  <2>3. RTypeOK'
    BY <1>2, <2>1, SelectIs, RenderAssumption DEF RTypeOK, select_render_vulkan, Items
  <2> QED BY <2>2, <2>3 DEF OrderInv
<1>3. CASE CloseRenderer
  <2>1. InOrder'
    BY <1>3, CloseIs DEF InOrder, OrderInv, CloseRenderer
  <2>2. RTypeOK'
    BY <1>3, CloseIs DEF OrderInv, RTypeOK, CloseRenderer, Items
  <2> QED BY <2>1, <2>2 DEF OrderInv
<1>4. CASE RWork
  <2>1. phase \in {"init", "closing"} /\ todo # <<>>
    BY <1>4, RoundIs
  <2>2. /\ phase = "init" => Rises(Tail(todo), MakeRank)
        /\ phase = "closing" =>
             /\ Rises(Tail(todo), CloseRank) /\ Head(todo) \in Elems(todo)
             /\ Elems(Tail(todo)) \subseteq Elems(todo)
    BY <2>1, RisesTail, RanksAreNumbers DEF OrderInv, InOrder
  <2>3. InOrder'
    BY <1>4, <2>1, <2>2, RoundIs DEF InOrder, OrderInv
  <2>4. todo \in Seq(Items) /\ Tail(todo) \in Seq(Items) /\ Head(todo) \in Items
    BY <2>1, HeadIs DEF OrderInv, RTypeOK, Items
  <2>5. todo' \in Seq(Items) /\ phase' \in {"none", "init", "ready", "closing", "closed", "failed"}
    BY <1>4, <2>1, <2>4, RoundIs
  <2>6. /\ live' \subseteq Objects /\ unmade' \subseteq Objects /\ wrong' \subseteq Objects
        /\ spare' \in 0 .. MaxSpare /\ stale' \subseteq Zeroed
    <3>1. CASE AllocArray
      <4>1. PICK left \in 0 .. spare :
              /\ stale' = IF left > 0 /\ Head(todo)[1] \in Zeroed
                          THEN stale \cup {Head(todo)[1]} ELSE stale
              /\ spare' = IF left > 0 THEN left - 1 ELSE 0
        BY <3>1 DEF AllocArray
      <4>2. spare' \in 0 .. MaxSpare /\ stale' \subseteq Zeroed
        BY <4>1, RenderAssumption DEF OrderInv, RTypeOK
      <4> QED BY <3>1, <4>2 DEF AllocArray, OrderInv, RTypeOK
    <3>2. CASE Create
      BY <2>1, <3>2, HeadIs DEF Create, Replaced, OrderInv, RTypeOK
    <3>3. CASE CreateFails
      BY <2>1, <3>3, HeadIs DEF CreateFails, OrderInv, RTypeOK
    <3>4. CASE Destroy
      <4>1. Head(todo) \in Objects
        BY <2>2, <3>4 DEF Destroy, OrderInv, InOrder
      <4> QED BY <3>4, <4>1 DEF Destroy, Wrong, OrderInv, RTypeOK
    <3> QED BY <1>4, <3>1, <3>2, <3>3, <3>4 DEF RWork
  <2>7. RTypeOK'
    BY <1>4, <2>1, <2>5, <2>6, RoundIs DEF OrderInv, RTypeOK, Items
  <2> QED BY <2>3, <2>7 DEF OrderInv
<1> QED BY <1>1, <1>2, <1>3, <1>4 DEF RNext

-----------------------------------------------------------------------------
(* The arrays.                                                               *)

\* The two arrays nobody expects to be zeroed come before those they do.
LEMMA ArraysInOrder ==
  ASSUME OrderInv, phase = "init"
  PROVE  /\ Head(todo) = <<"views", 0>> => <<"images", 0>> \notin Elems(todo)
         /\ Head(todo)[1] \in Zeroed =>
              <<"images", 0>> \notin Elems(todo) /\ <<"views", 0>> \notin Elems(todo)
<1>1. todo # <<>> /\ Rises(todo, MakeRank)
  BY DEF OrderInv, InOrder
<1>2. \A o \in Elems(todo) : MakeRank[Head(todo)] <= MakeRank[o]
  BY <1>1, RisesTail, RanksAreNumbers
<1>3. Head(todo)[1] \in Arrays => Head(todo) = <<Head(todo)[1], 0>>
  BY HeadIs
<1>4. Head(todo)[1] \in Zeroed => MakeRank[Head(todo)] \in {16, 18, 21}
  BY <1>3, MakeRanks DEF Zeroed, Arrays
<1> QED BY <1>2, <1>4, MakeRanks

LEMMA NextRecycled ==
  ASSUME MaxSpare <= 2, OrderInv, Recycled, [RNext]_rvars
  PROVE  Recycled'
<1>1. CASE UNCHANGED rvars
  BY <1>1 DEF rvars, Recycled, Elems
<1>2. CASE select_render_vulkan
  <2>1. \A k \in Arrays : <<k, 0>> \in Elems(todo')
    BY <1>2, SelectIs DEF OrderInv
  <2>2. <<"images", 0>> \in Elems(todo') /\ <<"views", 0>> \in Elems(todo')
    BY <2>1 DEF Arrays
  <2>3. Elems(todo)' = Elems(todo')
    BY DEF Elems
  <2> QED BY <1>2, <2>2, <2>3 DEF Recycled, select_render_vulkan
<1>3. CASE CloseRenderer
  BY <1>3 DEF Recycled, CloseRenderer
<1>4. CASE AllocArray
  <2>1. phase = "init" /\ todo # <<>> /\ Head(todo)[1] \in Arrays
    BY <1>4 DEF AllocArray, OrderInv, InOrder
  <2>2. Head(todo) = <<Head(todo)[1], 0>>
    BY <2>1, HeadIs
  <2>3. /\ Head(todo) \in Elems(todo)
        /\ Elems(Tail(todo)) = Elems(todo) \ {Head(todo)}
    BY <2>1, RisesTail, RanksAreNumbers DEF OrderInv, InOrder
  <2>4. /\ Head(todo) = <<"views", 0>> => <<"images", 0>> \notin Elems(todo)
        /\ Head(todo)[1] \in Zeroed =>
             <<"images", 0>> \notin Elems(todo) /\ <<"views", 0>> \notin Elems(todo)
    BY <2>1, ArraysInOrder
  <2> PICK left \in 0 .. spare :
         /\ stale' = IF left > 0 /\ Head(todo)[1] \in Zeroed
                     THEN stale \cup {Head(todo)[1]} ELSE stale
         /\ spare' = IF left > 0 THEN left - 1 ELSE 0
    BY <1>4 DEF AllocArray
  <2>5. spare \in Nat /\ left \in Nat /\ left <= spare /\ spare' \in Nat
        /\ (spare' = 0 \/ spare' <= spare - 1)
    BY DEF OrderInv, RTypeOK
  <2>6. Head(todo)[1] \in Zeroed => spare = 0 /\ left = 0
    BY <2>1, <2>4, <2>5 DEF Recycled
  <2>7. stale' = {}
    BY <2>6 DEF Recycled
  <2>8. Elems(todo)' = Elems(todo) \ {Head(todo)}
    <3>1. todo' = Tail(todo) /\ Elems(todo)' = Elems(todo')
      BY <1>4 DEF AllocArray, Done, Elems
    <3> QED BY <2>3, <3>1
  <2>9. Head(todo)[1] \in {"images", "views"} \/ Head(todo)[1] \in Zeroed
    BY <2>1 DEF Arrays, Zeroed
  <2>10. phase' \in {"init", "ready"}
    BY <1>4, <2>1 DEF AllocArray, Done
  <2>11. CASE Head(todo)[1] = "images"
    <3>1. Head(todo) = <<"images", 0>>
      BY <2>2, <2>11
    <3>2. spare <= 2 /\ <<"views", 0>> \in Elems(todo)
      BY <2>1, <2>3, <3>1 DEF Recycled
    <3>3. spare' <= 1
      BY <2>5, <3>2
    <3>4. <<"images", 0>> \notin Elems(todo)' /\ <<"views", 0>> \in Elems(todo)'
      BY <2>8, <3>1, <3>2
    <3> QED BY <2>7, <2>10, <3>3, <3>4 DEF Recycled
  <2>12. CASE Head(todo)[1] = "views"
    <3>1. Head(todo) = <<"views", 0>>
      BY <2>2, <2>12
    <3>2. spare <= 1 /\ <<"images", 0>> \notin Elems(todo)
      BY <2>1, <2>4, <3>1 DEF Recycled
    <3>3. spare' = 0
      BY <2>5, <3>2
    <3>4. <<"images", 0>> \notin Elems(todo)'
      BY <2>8, <3>2
    <3> QED BY <2>7, <2>10, <3>3, <3>4 DEF Recycled
  <2>13. CASE Head(todo)[1] \in Zeroed
    <3>1. spare' = 0
      BY <2>5, <2>6, <2>13
    <3>2. <<"images", 0>> \notin Elems(todo)'
      BY <2>4, <2>8, <2>13
    <3> QED BY <2>7, <2>10, <3>1, <3>2 DEF Recycled
  <2> QED BY <2>9, <2>11, <2>12, <2>13
<1>5. CASE Create \/ CreateFails \/ Destroy
  <2>1. stale' = stale /\ spare' = spare /\ RWork
    BY <1>5 DEF Create, CreateFails, Destroy, RWork
  <2>2. phase' # "none" /\ (phase' = "init" => phase = "init" /\ todo' = Tail(todo))
    BY <2>1, RoundIs
  <2>3. CASE phase' = "init"
    <3>1. todo # <<>> /\ Rises(todo, MakeRank)
      BY <2>2, <2>3 DEF OrderInv, InOrder
    <3>2. Elems(Tail(todo)) = Elems(todo) \ {Head(todo)}
      BY <3>1, RisesTail, RanksAreNumbers
    <3>3. Head(todo)[1] \in Kinds
      BY <1>5, <2>2, <2>3 DEF Create, CreateFails, Destroy
    <3>4. Head(todo) # <<"images", 0>> /\ Head(todo) # <<"views", 0>>
      BY <3>3 DEF Kinds
    <3>5. Elems(todo)' = Elems(todo) \ {Head(todo)}
      BY <2>2, <2>3, <3>2 DEF Elems
    <3> QED BY <2>1, <2>2, <2>3, <3>4, <3>5 DEF Recycled
  <2> QED BY <2>1, <2>2, <2>3 DEF Recycled
<1> QED BY <1>1, <1>2, <1>3, <1>4, <1>5 DEF RNext, RWork

-----------------------------------------------------------------------------
(* Nothing is missed, and parents outlive.                                   *)

\* A renderer has what its objects were made from, and it is made once.
LEMMA RendererIsClosed ==
  ASSUME NEW dbg, NEW n \in 1 .. MaxImages, NEW o \in Renderer(dbg, n), NEW p \in Wants(o)
  PROVE  p \in Renderer(dbg, n)
<1>1. o \in Objects
  BY RendererHasObjects
<1>2. p \in Singles \X {0} /\ p[1] # "messenger"
  BY <1>1, ParentsBefore
<1> QED BY <1>2 DEF Renderer

LEMMA OutliveIs ==
  ASSUME NEW L
  PROVE  (\A o \in L : \A p \in Parents[o[1]] : <<p, 0>> \in L) <=> (\A o \in L : Wants(o) \subseteq L)
BY DEF Wants

\* When an object is to be made, what it is made from is there.
LEMMA MadeFromLive ==
  ASSUME OrderInv, Complete, phase = "init", Head(todo)[1] \in Kinds
  PROVE  Wants(Head(todo)) \subseteq live
<1> SUFFICES ASSUME NEW p \in Wants(Head(todo)) PROVE p \in live
  OBVIOUS
<1>1. todo # <<>> /\ Rises(todo, MakeRank) /\ img_count \in 1 .. MaxImages
  BY DEF OrderInv, InOrder
<1>2. /\ Head(todo) \in Elems(todo) /\ Elems(todo) \subseteq Items
      /\ \A o \in Elems(todo) : MakeRank[Head(todo)] <= MakeRank[o]
  BY <1>1, RisesTail, RanksAreNumbers
<1>3. Head(todo) \in Objects
  BY HeadIs
<1>4. /\ p[1] \notin Unchecked /\ p \in Objects
      /\ MakeRank[p] < MakeRank[Head(todo)]
  BY <1>3, ParentsBefore
<1>5. Head(todo) \in Renderer(debug, img_count)
  BY <1>2, <1>3 DEF Complete
<1>6. p \in live \cup unmade \cup Elems(todo)
  BY <1>1, <1>5, RendererIsClosed DEF Complete
<1>7. p \notin unmade
  BY <1>4 DEF Complete
<1>8. p \notin Elems(todo)
  <2>1. MakeRank[p] \in Nat /\ MakeRank[Head(todo)] \in Nat
    BY <1>2, <1>4, ItemsAre, RanksAreNumbers
  <2> QED BY <1>2, <1>4, <2>1
<1> QED BY <1>6, <1>7, <1>8

\* When an object goes, nothing is there that was made from it.
LEMMA NothingFromHead ==
  ASSUME OrderInv, Complete, phase = "closing", NEW o \in live \ {Head(todo)}
  PROVE  Head(todo) \notin Wants(o)
<1>1. todo # <<>> /\ Rises(todo, CloseRank)
  BY DEF OrderInv, InOrder
<1>2. Elems(todo) \subseteq Items /\ \A p \in Elems(todo) : CloseRank[Head(todo)] <= CloseRank[p]
  BY <1>1, RisesTail, RanksAreNumbers
<1>3. o \in Elems(todo) /\ o \in Objects
  BY DEF Complete, OrderInv, RTypeOK
<1>4. Head(todo) \in Wants(o) => CloseRank[o] < CloseRank[Head(todo)]
  BY <1>3, ParentsBefore
<1>5. CloseRank[o] \in Nat /\ CloseRank[Head(todo)] \in Nat
  BY <1>2, <1>3, HeadIs, RanksAreNumbers
<1> QED BY <1>2, <1>3, <1>4, <1>5

LEMMA NextComplete ==
  ASSUME ~ DebugChanges, OrderInv, Complete, [RNext]_rvars
  PROVE  Complete'
<1>1. CASE UNCHANGED rvars
  BY <1>1 DEF rvars, Complete, Elems, ParentsOutlive
<1>2. CASE select_render_vulkan
  <2>1. /\ unmade' \cup (Elems(todo)' \cap Objects) = Renderer(debug, img_count')
        /\ phase' = "init" /\ \A o \in unmade' : o[1] \in Unchecked
    <3>1. Elems(todo)' = Elems(todo')
      BY DEF Elems
    <3> QED BY <1>2, <3>1, SelectIs DEF OrderInv
  <2>2. live = {} /\ live' = {} /\ debug' = debug
    BY <1>2 DEF select_render_vulkan, Complete
  <2>3. Renderer(debug, img_count)' = Renderer(debug, img_count')
    BY <2>2 DEF Renderer
  <2> QED BY <2>1, <2>2, <2>3 DEF Complete, ParentsOutlive
<1>3. CASE CloseRenderer
  <2>1. Elems(todo)' = Renderer(debug, img_count)
    <3>1. Elems(todo') = Renderer(debug', img_count) /\ debug' = debug /\ Elems(todo)' = Elems(todo')
      BY <1>3, CloseIs DEF Elems
    <3> QED BY <3>1
  <2> QED BY <1>3, <2>1 DEF CloseRenderer, Complete, ParentsOutlive
<1>4. CASE AllocArray
  <2>1. phase = "init" /\ todo # <<>> /\ Rises(todo, MakeRank) /\ Head(todo)[1] \in Arrays
    BY <1>4 DEF AllocArray, OrderInv, InOrder
  <2>2. Elems(Tail(todo)) = Elems(todo) \ {Head(todo)} /\ (Tail(todo) = <<>> => Elems(todo) = {Head(todo)})
    BY <2>1, RisesTail, RanksAreNumbers
  <2>3. Head(todo) \notin Objects
    BY <2>1 DEF Objects, Arrays, Kinds
  <2>4. /\ Elems(todo)' = Elems(todo) \ {Head(todo)}
        /\ phase' = IF Tail(todo) = <<>> THEN "ready" ELSE phase
        /\ UNCHANGED <<live, unmade, debug, img_count>>
    BY <1>4, <2>2 DEF AllocArray, Done, Elems
  <2>5. live \cup unmade \cup ((Elems(todo) \ {Head(todo)}) \cap Objects) = Renderer(debug, img_count)
    BY <2>1, <2>3 DEF Complete
  <2>6. Tail(todo) = <<>> => live \cup unmade = Renderer(debug, img_count)
    BY <2>2, <2>5
  <2>7. Renderer(debug, img_count)' = Renderer(debug, img_count)
    BY <2>4
  <2> QED BY <2>1, <2>4, <2>5, <2>6, <2>7 DEF Complete, ParentsOutlive
<1>5. CASE Create
  <2>1. phase = "init" /\ todo # <<>> /\ Rises(todo, MakeRank) /\ Head(todo)[1] \in Kinds
    BY <1>5 DEF Create, OrderInv, InOrder
  <2>2. Elems(Tail(todo)) = Elems(todo) \ {Head(todo)} /\ (Tail(todo) = <<>> => Elems(todo) = {Head(todo)})
        /\ Head(todo) \in Elems(todo)
    BY <2>1, RisesTail, RanksAreNumbers
  <2>3. Head(todo) \in Objects
    BY <2>1, HeadIs
  <2>4. /\ Elems(todo)' = Elems(todo) \ {Head(todo)}
        /\ phase' = IF Tail(todo) = <<>> THEN "ready" ELSE phase
        /\ live' = live \cup {Head(todo)}
        /\ UNCHANGED <<unmade, debug, img_count>>
    BY <1>5, <2>2 DEF Create, Done, Elems
  <2>5. live' \cup unmade \cup ((Elems(todo) \ {Head(todo)}) \cap Objects) = Renderer(debug, img_count)
    BY <2>1, <2>2, <2>3, <2>4 DEF Complete
  <2>6. Tail(todo) = <<>> => live' \cup unmade = Renderer(debug, img_count)
    BY <2>2, <2>5
  <2>7. Renderer(debug, img_count)' = Renderer(debug, img_count)
    BY <2>4
  <2>8. ParentsOutlive'
    <3>1. Wants(Head(todo)) \subseteq live
      BY <2>1, MadeFromLive
    <3>2. \A o \in live : Wants(o) \subseteq live
      BY OutliveIs DEF Complete, ParentsOutlive
    <3>3. \A o \in live' : Wants(o) \subseteq live'
      BY <2>4, <3>1, <3>2
    <3> QED BY <3>3 DEF ParentsOutlive, Wants
  <2> QED BY <2>1, <2>4, <2>5, <2>6, <2>7, <2>8 DEF Complete
<1>6. CASE CreateFails
  <2>1. phase = "init" /\ todo # <<>> /\ Rises(todo, MakeRank) /\ Head(todo)[1] \in Kinds
    BY <1>6 DEF CreateFails, OrderInv, InOrder
  <2>2. Elems(Tail(todo)) = Elems(todo) \ {Head(todo)} /\ (Tail(todo) = <<>> => Elems(todo) = {Head(todo)})
        /\ Head(todo) \in Elems(todo)
    BY <2>1, RisesTail, RanksAreNumbers
  <2>3. Head(todo) \in Objects
    BY <2>1, HeadIs
  <2>4. UNCHANGED <<live, debug, img_count>>
    BY <1>6 DEF CreateFails
  <2>5. ParentsOutlive'
    BY <2>4 DEF Complete, ParentsOutlive
  <2>6. CASE Head(todo)[1] \in Unchecked
    <3>1. /\ Elems(todo)' = Elems(todo) \ {Head(todo)}
          /\ phase' = IF Tail(todo) = <<>> THEN "ready" ELSE phase
          /\ unmade' = unmade \cup {Head(todo)}
      BY <1>6, <2>2, <2>6 DEF CreateFails, Done, Elems
    <3>2. live \cup unmade' \cup ((Elems(todo) \ {Head(todo)}) \cap Objects) = Renderer(debug, img_count)
      BY <2>1, <2>2, <2>3, <3>1 DEF Complete
    <3>3. Tail(todo) = <<>> => live \cup unmade' = Renderer(debug, img_count)
      BY <2>2, <3>2
    <3>4. Renderer(debug, img_count)' = Renderer(debug, img_count)
      BY <2>4
    <3>5. \A o \in unmade' : o[1] \in Unchecked
      BY <2>6, <3>1 DEF Complete
    <3> QED BY <2>1, <2>4, <2>5, <3>1, <3>2, <3>3, <3>4, <3>5 DEF Complete
  <2>7. CASE Head(todo)[1] \notin Unchecked
    BY <1>6, <2>5, <2>7 DEF CreateFails, Complete
  <2> QED BY <2>6, <2>7
<1>7. CASE Destroy
  <2>1. phase = "closing" /\ todo # <<>> /\ Rises(todo, CloseRank)
    BY <1>7 DEF Destroy, OrderInv, InOrder
  <2>2. Elems(Tail(todo)) = Elems(todo) \ {Head(todo)} /\ (Tail(todo) = <<>> => Elems(todo) = {Head(todo)})
    BY <2>1, RisesTail, RanksAreNumbers
  <2>3. /\ Elems(todo)' = Elems(todo) \ {Head(todo)}
        /\ phase' = IF Tail(todo) = <<>> THEN "closed" ELSE phase
        /\ live' = live \ {Head(todo)}
        /\ UNCHANGED unmade
    BY <1>7, <2>2 DEF Destroy, Done, Elems
  <2>4. live' \subseteq Elems(todo)' /\ Elems(todo)' \subseteq live' \cup unmade
    BY <2>1, <2>3 DEF Complete
  <2>5. Tail(todo) = <<>> => live' = {}
    BY <2>2, <2>3, <2>4
  <2>6. ParentsOutlive'
    <3>1. \A o \in live : Wants(o) \subseteq live
      BY OutliveIs DEF Complete, ParentsOutlive
    <3>2. \A o \in live' : Wants(o) \subseteq live'
      BY <2>1, <2>3, <3>1, NothingFromHead
    <3> QED BY <3>2 DEF ParentsOutlive, Wants
  <2> QED BY <2>1, <2>3, <2>4, <2>5, <2>6 DEF Complete
<1> QED BY <1>1, <1>2, <1>3, <1>4, <1>5, <1>6, <1>7 DEF RNext, RWork

-----------------------------------------------------------------------------
(* What holds of every renderer.                                             *)

LEMMA InitsHold == RInit => OrderInv /\ Complete /\ (MaxSpare <= 2 => Recycled)
<1> SUFFICES ASSUME RInit PROVE OrderInv /\ Complete /\ (MaxSpare <= 2 => Recycled)
  OBVIOUS
<1>1. todo \in Seq(Objects \cup (Arrays \X {0})) /\ 0 \in 0 .. MaxImages /\ spare \in 0 .. MaxSpare
  BY RenderAssumption DEF RInit
<1> QED BY <1>1 DEF RInit, OrderInv, RTypeOK, InOrder, Complete, ParentsOutlive, Recycled

LEMMA OrderIsKept == RSpec => []OrderInv
BY InitsHold, NextOrder, PTL DEF RSpec

LEMMA CompleteIsKept == ~ DebugChanges /\ RSpec => [](OrderInv /\ Complete)
<1>1. SUFFICES ASSUME ~ DebugChanges PROVE RSpec => [](OrderInv /\ Complete)
  OBVIOUS
<1>2. RInit => OrderInv /\ Complete
  BY InitsHold
<1>3. OrderInv /\ Complete /\ [RNext]_rvars => (OrderInv /\ Complete)'
  BY <1>1, NextOrder, NextComplete
<1> QED BY <1>2, <1>3, PTL DEF RSpec

LEMMA RecycledIsKept == MaxSpare <= 2 /\ RSpec => [](OrderInv /\ Recycled)
<1>1. SUFFICES ASSUME MaxSpare <= 2 PROVE RSpec => [](OrderInv /\ Recycled)
  OBVIOUS
<1>2. RInit => OrderInv /\ Recycled
  BY <1>1, InitsHold
<1>3. OrderInv /\ Recycled /\ [RNext]_rvars => (OrderInv /\ Recycled)'
  BY <1>1, NextOrder, NextRecycled
<1> QED BY <1>2, <1>3, PTL DEF RSpec

\* Whatever fails and whatever the application changes, the renderer has the
\* objects and arrays there are, and no others.
THEOREM RendererTypes == RSpec => []RTypeOK
<1>1. OrderInv => RTypeOK
  BY DEF OrderInv
<1> QED BY <1>1, OrderIsKept, PTL

\* For any number of images, and whatever creation fails: as long as vk_debug
\* is left alone, no object is made before what it is made from, and none goes
\* before what was made from it (renderer.c:97-185, context.c:160-173,
\* device.c:265-271, swapchain.c:114-121, image.c:91-99).
THEOREM ParentsGoLast ==
  ASSUME ~ DebugChanges
  PROVE  RSpec => []ParentsOutlive
<1>1. Complete => ParentsOutlive
  BY DEF Complete
<1> QED BY <1>1, CompleteIsKept, PTL

\* For any number of images, a closed renderer has left nothing, also when
\* creations had failed and were passed over (renderer.c:169-185).
THEOREM ClosingLeavesNothing ==
  ASSUME ~ DebugChanges
  PROVE  RSpec => []NothingLeft
<1>1. Complete => NothingLeft
  BY DEF Complete, NothingLeft
<1> QED BY <1>1, CompleteIsKept, PTL

\* With two recycled blocks at most, the arrays the frame loop and the creating
\* functions read are as empty as they take them to be: what is recycled goes to
\* the arrays of images and views, which come first (renderer.c:43, 67, 162,
\* swapchain.c:77-78, alloc.c:122-126).
THEOREM ArraysStartEmpty ==
  ASSUME MaxSpare <= 2
  PROVE  RSpec => []StartsEmpty
<1>1. Recycled => StartsEmpty
  BY DEF Recycled, StartsEmpty
<1> QED BY <1>1, RecycledIsKept, PTL

\* With that, and the setting left alone, nothing is destroyed that was not made,
\* or a second time, but a semaphore whose creation failed: neither does the
\* making of an array's elements find something to replace, nor does the closing
\* go beyond what was set up (renderer.c:46, 75, 149-150, 158-159, 169-185).
THEOREM WrongAreSemaphores ==
  ASSUME ~ DebugChanges, MaxSpare <= 2
  PROVE  RSpec => []OnlySemaphoresGoWrong
<1>1. RInit => OnlySemaphoresGoWrong
  BY DEF RInit, OnlySemaphoresGoWrong
<1>2. OrderInv /\ Complete /\ Recycled /\ OnlySemaphoresGoWrong /\ [RNext]_rvars
        => OnlySemaphoresGoWrong'
  <2> SUFFICES ASSUME OrderInv, Complete, Recycled, OnlySemaphoresGoWrong, [RNext]_rvars
               PROVE  OnlySemaphoresGoWrong'
    OBVIOUS
  <2>1. CASE Create
    BY <2>1 DEF Create, Replaced, Recycled, OnlySemaphoresGoWrong
  <2>2. CASE Destroy
    <3>1. phase = "closing" /\ todo # <<>> /\ Rises(todo, CloseRank)
      BY <2>2 DEF Destroy, OrderInv, InOrder
    <3>2. Head(todo) \in Elems(todo)
      BY <3>1, RisesTail, RanksAreNumbers
    <3>3. Head(todo) \in live \cup unmade
      BY <3>1, <3>2 DEF Complete
    <3>4. Wrong(Head(todo)) \subseteq {o \in unmade : o[1] \in Semaphores}
      BY <3>3 DEF Wrong
    <3> QED BY <2>2, <3>4 DEF Destroy, OnlySemaphoresGoWrong
  <2>3. CASE CreateFails
    BY <2>3 DEF CreateFails, OnlySemaphoresGoWrong
  <2>4. CASE select_render_vulkan
    BY <2>4 DEF select_render_vulkan, Complete, OnlySemaphoresGoWrong
  <2>5. CASE AllocArray \/ CloseRenderer \/ UNCHANGED rvars
    BY <2>5 DEF AllocArray, CloseRenderer, rvars, OnlySemaphoresGoWrong
  <2> QED BY <2>1, <2>2, <2>3, <2>4, <2>5 DEF RNext, RWork
<1> QED BY <1>1, <1>2, CompleteIsKept, RecycledIsKept, PTL DEF RSpec

=============================================================================
