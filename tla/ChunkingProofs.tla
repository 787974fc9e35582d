---------------------------- MODULE ChunkingProofs ----------------------------
(* Theorems about Chunking, for any documents of any length, and any        *)
(* configuration of a chunker.                                              *)
EXTENDS Chunking, ListsProofs

-----------------------------------------------------------------------------
(* Windows                                                                  *)

(* The first and the last place of a window.                                *)
First(k, step)              == (k - 1) * step + 1
Last(k, step, size, length) == Least((k - 1) * step + size, length)

LEMMA Products ==
  ASSUME NEW a \in Int, NEW b \in Int, NEW s \in Nat, a <= b
  PROVE  a * s \in Int /\ b * s \in Int /\ a * s <= b * s
<1>1. a * s \in Int /\ b * s \in Int
  OBVIOUS
<1>2. PICK c \in Nat : b = a + c
  OBVIOUS
<1>3. b * s = a * s + c * s /\ c * s >= 0
  BY <1>2
<1>. QED
  BY <1>1, <1>3

LEMMA StrictProducts ==
  ASSUME NEW a \in Int, NEW b \in Int, NEW s \in Nat, s > 0, a < b
  PROVE  a * s \in Int /\ b * s \in Int /\ a * s + s <= b * s
<1>1. (a + 1) * s <= b * s
  BY Products
<1>2. (a + 1) * s = a * s + s
  OBVIOUS
<1>. QED
  BY <1>1, <1>2, Products

(* As many steps as it takes to come to d.                                  *)
LEMMA Ceiling ==
  ASSUME NEW d \in Nat, d > 0, NEW s \in Nat, s > 0, NEW q, q = (d + s - 1) \div s
  PROVE  q \in Nat /\ q > 0 /\ q * s >= d /\ (q - 1) * s < d /\ (q - 1) * s = q * s - s
<1>1. q \in Int /\ q * s <= d + s - 1 /\ d + s - 1 < q * s + s
  OBVIOUS
<1>2. q * s >= d
  BY <1>1
<1>3. q > 0
  <2>1. SUFFICES ASSUME q <= 0 PROVE FALSE
    BY <1>1
  <2>2. q * s <= 0 * s
    BY <1>1, <2>1, Products
  <2>. QED
    BY <1>2, <2>2
<1>4. (q - 1) * s = q * s - s
  BY <1>1
<1>. QED
  BY <1>1, <1>2, <1>3, <1>4

LEMMA StepInWindow ==
  ASSUME NEW size \in Nat \ {0}, NEW overlap \in Nat
  PROVE  /\ Step(size, overlap) \in 1 .. size
         /\ overlap < size => Step(size, overlap) = size - overlap
BY DEF Step

(* The windows of a text that is longer than one: every place is in one,    *)
(* all are full but for the last, and each begins and ends a step after the *)
(* one before.                                                              *)
LEMMA WindowPlaces ==
  ASSUME NEW length \in Nat, NEW size \in Nat \ {0}, NEW step \in 1 .. size, length > size,
         NEW n, n = Count(length, size, step)
  PROVE  /\ n \in Nat /\ n > 1
         /\ \A k \in 1 .. n : /\ First(k, step) \in 1 .. length
                              /\ Last(k, step, size, length) \in First(k, step) .. length
                              /\ Last(k, step, size, length) < First(k, step) + size
         /\ \A k \in 1 .. n - 1 : /\ Last(k, step, size, length) = First(k, step) + size - 1
                                  /\ First(k + 1, step) = First(k, step) + step
                                  /\ Last(k, step, size, length) < Last(k + 1, step, size, length)
         /\ \A k, l \in 1 .. n : k < l => First(k, step) < First(l, step)
         /\ \A i \in 1 .. length : \E k \in 1 .. n :
              First(k, step) <= i /\ i <= Last(k, step, size, length)
<1>0. step \in Nat /\ step > 0
  OBVIOUS
<1>1. PICK d \in Nat : length = d + size /\ d > 0
  OBVIOUS
<1>2. PICK q : q = (d + step - 1) \div step
  OBVIOUS
<1>3. n = q + 1
  BY <1>1, <1>2 DEF Count
<1>4. q \in Nat /\ q > 0 /\ q * step >= d /\ (q - 1) * step < d
  BY <1>0, <1>1, <1>2, Ceiling
<1>5. n \in Nat /\ n > 1
  BY <1>3, <1>4
<1>6. ASSUME NEW k \in 1 .. n
      PROVE  (k - 1) * step \in Nat /\ (k - 1) * step <= q * step
  BY <1>3, <1>4, Products
<1>7. ASSUME NEW k \in 1 .. n - 1
      PROVE  (k - 1) * step \in Nat /\ (k - 1) * step < d /\ ((k + 1) - 1) * step = (k - 1) * step + step
  <2>1. (k - 1) * step \in Nat /\ (k - 1) * step <= (q - 1) * step
    BY <1>3, <1>4, Products
  <2>2. (q - 1) * step \in Int
    BY <1>4
  <2>3. ((k + 1) - 1) * step = (k - 1) * step + step
    OBVIOUS
  <2>. QED
    BY <1>4, <2>1, <2>2, <2>3
<1>8. ASSUME NEW k \in 1 .. n - 1
      PROVE  /\ Last(k, step, size, length) = First(k, step) + size - 1
             /\ First(k + 1, step) = First(k, step) + step
             /\ Last(k, step, size, length) < Last(k + 1, step, size, length)
  BY <1>1, <1>7 DEF First, Last, Least
<1>9. ASSUME NEW k \in 1 .. n
      PROVE  /\ First(k, step) \in 1 .. length
             /\ Last(k, step, size, length) \in First(k, step) .. length
             /\ Last(k, step, size, length) < First(k, step) + size
  <2>1. (k - 1) * step \in Nat /\ (k - 1) * step < length
    <3>1. CASE k \in 1 .. n - 1
      BY <1>1, <1>7, <3>1
    <3>2. CASE k = n
      <4>1. (k - 1) * step = q * step /\ q * step = (q - 1) * step + step
        BY <1>3, <1>4, <3>2
      <4>2. (q - 1) * step \in Int /\ (k - 1) * step \in Nat
        BY <1>4, <1>6
      <4>. QED
        BY <1>1, <1>4, <4>1, <4>2
    <3>. QED
      BY <1>5, <3>1, <3>2
  <2>. QED
    BY <2>1 DEF First, Last, Least
<1>10. ASSUME NEW k \in 1 .. n, NEW l \in 1 .. n, k < l PROVE First(k, step) < First(l, step)
  <2>1. (k - 1) * step + step <= (l - 1) * step /\ (k - 1) * step \in Int /\ (l - 1) * step \in Int
    BY <1>10, StrictProducts
  <2>. QED
    BY <2>1 DEF First
<1>11. ASSUME NEW i \in 1 .. length
       PROVE  \E k \in 1 .. n : First(k, step) <= i /\ i <= Last(k, step, size, length)
  <2>1. CASE i <= size
    <3>1. 1 \in 1 .. n /\ First(1, step) = 1
      BY <1>5 DEF First
    <3>2. Last(1, step, size, length) = size
      BY DEF Last, Least
    <3>. QED
      BY <2>1, <3>1, <3>2
  <2>2. CASE i > size
    <3>1. PICK e \in Nat : i = e + size /\ e > 0 /\ e <= d
      BY <1>1, <2>2
    <3>2. PICK r : r = (e + step - 1) \div step
      OBVIOUS
    <3>3. r \in Nat /\ r > 0 /\ r * step >= e /\ (r - 1) * step < e /\ (r - 1) * step = r * step - step
      BY <1>0, <3>1, <3>2, Ceiling
    <3>4. r <= q
      <4>1. SUFFICES ASSUME q < r PROVE FALSE
        BY <1>4, <3>3
      <4>2. q * step <= (r - 1) * step /\ q * step \in Int /\ (r - 1) * step \in Int
        BY <1>4, <3>3, <4>1, Products
      <4>. QED
        BY <1>4, <3>1, <3>3, <4>2
    <3>5. r + 1 \in 1 .. n /\ (r + 1) - 1 = r
      BY <1>3, <1>4, <3>3, <3>4
    <3>6. r * step \in Nat
      BY <3>3
    <3>7. First(r + 1, step) <= i /\ i <= Last(r + 1, step, size, length)
      BY <3>1, <3>3, <3>5, <3>6 DEF First, Last, Least
    <3>. QED
      BY <3>5, <3>7
  <2>. QED
    BY <2>1, <2>2
<1>. QED
  BY <1>5, <1>8, <1>9, <1>10, <1>11

(* A window is a piece of the text.                                         *)
LEMMA SubSeqElements ==
  ASSUME NEW T, NEW text \in Seq(T), NEW a \in 1 .. Len(text), NEW b \in a .. Len(text),
         NEW w, w = SubSeq(text, a, b)
  PROVE  /\ w \in Seq(T) /\ Len(w) = b - a + 1 /\ w # <<>>
         /\ \A i \in DOMAIN w : \E j \in DOMAIN text : w[i] = text[j]
         /\ w[1] = text[a] /\ w[Len(w)] = text[b]
         /\ \A j \in a .. b : \E i \in DOMAIN w : w[i] = text[j]
<1>1. /\ w \in Seq(T) /\ Len(w) = b - a + 1 /\ w # <<>>
      /\ w[1] = text[a] /\ w[Len(w)] = text[b]
  OBVIOUS
<1>2. \A i \in DOMAIN w : a + i - 1 \in DOMAIN text /\ w[i] = text[a + i - 1]
  OBVIOUS
<1>3. \A j \in a .. b : j - a + 1 \in DOMAIN w /\ w[j - a + 1] = text[j]
  OBVIOUS
<1>. QED
  BY <1>1, <1>2, <1>3

LEMMA LongSplit ==
  ASSUME NEW T, NEW text \in Seq(T), NEW size \in Nat \ {0}, NEW overlap \in Nat, Len(text) > size,
         NEW windows, windows = SplitByTokens(text, size, overlap),
         NEW step, step = Step(size, overlap)
  PROVE  /\ windows \in Seq(Seq(T)) /\ Len(windows) = Count(Len(text), size, step)
         /\ \A k \in 1 .. Len(windows) :
              windows[k] = SubSeq(text, First(k, step), Last(k, step, size, Len(text)))
<1>1. text # <<>> /\ Len(text) \notin 1 .. size /\ Len(text) \in Nat
  OBVIOUS
<1>2. windows = [k \in 1 .. Count(Len(text), size, step) |->
                   SubSeq(text, First(k, step), Last(k, step, size, Len(text)))]
  BY <1>1 DEF SplitByTokens, First, Last
<1>3. step \in 1 .. size
  BY StepInWindow
<1>4. PICK n : n = Count(Len(text), size, step)
  OBVIOUS
<1>5. /\ n \in Nat
      /\ \A k \in 1 .. n : /\ First(k, step) \in 1 .. Len(text)
                           /\ Last(k, step, size, Len(text)) \in First(k, step) .. Len(text)
  BY <1>1, <1>3, <1>4, WindowPlaces
<1>6. \A k \in 1 .. n : windows[k] \in Seq(T)
  <2>1. ASSUME NEW k \in 1 .. n PROVE windows[k] \in Seq(T)
    <3>1. windows[k] = SubSeq(text, First(k, step), Last(k, step, size, Len(text)))
      BY <1>2, <1>4
    <3>. QED
      BY <1>5, <3>1, SubSeqElements
  <2>. QED
    BY <2>1
<1>7. windows \in Seq(Seq(T)) /\ Len(windows) = n
  <2>1. DOMAIN windows = 1 .. n /\ windows = [k \in 1 .. n |-> windows[k]]
    BY <1>2, <1>4
  <2>. QED
    BY <1>5, <1>6, <2>1
<1>. QED
  BY <1>2, <1>4, <1>7

(* The windows of any text: pieces of it, that leave nothing out, and begin *)
(* one after the other.                                                     *)
AreWindows(windows, text, T) ==
  /\ windows \in Seq(Seq(T))
  /\ \A k \in DOMAIN windows : windows[k] # <<>>
  /\ \A k \in DOMAIN windows : \A i \in DOMAIN windows[k] :
       \E j \in DOMAIN text : windows[k][i] = text[j]
  /\ \A j \in DOMAIN text :
       \E k \in DOMAIN windows : \E i \in DOMAIN windows[k] : windows[k][i] = text[j]
  /\ \A k, l \in DOMAIN windows : k < l =>
       \E i, j \in DOMAIN text : i < j /\ windows[k][1] = text[i] /\ windows[l][1] = text[j]

LEMMA SplitElements ==
  ASSUME NEW T, NEW text \in Seq(T), NEW size \in Nat \ {0}, NEW overlap \in Nat,
         NEW windows, windows = SplitByTokens(text, size, overlap)
  PROVE  AreWindows(windows, text, T)
<1>1. Len(text) \in Nat /\ DOMAIN text = 1 .. Len(text)
  OBVIOUS
<1>2. CASE text = <<>>
  <2>1. windows = <<>>
    BY <1>2 DEF SplitByTokens
  <2>2. DOMAIN windows = {} /\ DOMAIN text = {}
    BY <1>2, <2>1
  <2>3. windows \in Seq(Seq(T))
    BY <2>1, EmptySeq
  <2>. QED
    BY <2>2, <2>3 DEF AreWindows
<1>3. CASE Len(text) \in 1 .. size
  <2>1. text # <<>>
    BY <1>3
  <2>2. windows = <<text>>
    BY <1>3, <2>1 DEF SplitByTokens
  <2>3. windows \in Seq(Seq(T)) /\ DOMAIN windows = {1} /\ windows[1] = text
    BY <2>2
  <2>. QED
    BY <2>1, <2>3 DEF AreWindows
<1>4. CASE Len(text) > size
  <2>1. PICK step : step = Step(size, overlap)
    OBVIOUS
  <2>2. PICK n : n = Count(Len(text), size, step)
    OBVIOUS
  <2>3. PICK f : f = [k \in 1 .. n |-> First(k, step)]
    OBVIOUS
  <2>4. PICK g : g = [k \in 1 .. n |-> Last(k, step, size, Len(text))]
    OBVIOUS
  <2>5. /\ step \in 1 .. size /\ windows \in Seq(Seq(T)) /\ Len(windows) = n
        /\ \A k \in 1 .. n : windows[k] = SubSeq(text, First(k, step), Last(k, step, size, Len(text)))
    <3>1. step \in 1 .. size
      BY <2>1, StepInWindow
    <3>2. windows \in Seq(Seq(T)) /\ Len(windows) = Count(Len(text), size, step)
      BY <1>4, <2>1, LongSplit
    <3>3. \A k \in 1 .. Len(windows) :
            windows[k] = SubSeq(text, First(k, step), Last(k, step, size, Len(text)))
      BY <1>4, <2>1, LongSplit
    <3>. QED
      BY <2>2, <3>1, <3>2, <3>3
  <2>6. \A k \in 1 .. n : windows[k] = SubSeq(text, f[k], g[k])
    BY <2>3, <2>4, <2>5
  <2>7. /\ n \in Nat
        /\ \A k \in 1 .. n : f[k] \in 1 .. Len(text) /\ g[k] \in f[k] .. Len(text)
        /\ \A k, l \in 1 .. n : k < l => f[k] < f[l]
        /\ \A i \in 1 .. Len(text) : \E k \in 1 .. n : f[k] <= i /\ i <= g[k]
    BY <1>1, <1>4, <2>2, <2>3, <2>4, <2>5, WindowPlaces
  <2>8. DOMAIN windows = 1 .. n
    BY <2>5
  <2>9. ASSUME NEW k \in 1 .. n
        PROVE  /\ windows[k] # <<>> /\ f[k] \in DOMAIN text /\ windows[k][1] = text[f[k]]
               /\ \A i \in DOMAIN windows[k] : \E j \in DOMAIN text : windows[k][i] = text[j]
               /\ \A j \in f[k] .. g[k] : \E i \in DOMAIN windows[k] : windows[k][i] = text[j]
    <3>1. PICK a \in 1 .. Len(text) : a = f[k]
      BY <2>7
    <3>2. PICK b \in a .. Len(text) : b = g[k]
      BY <2>7, <3>1
    <3>3. windows[k] = SubSeq(text, a, b)
      BY <2>6, <3>1, <3>2
    <3>4. /\ windows[k] # <<>> /\ windows[k][1] = text[a]
          /\ \A i \in DOMAIN windows[k] : \E j \in DOMAIN text : windows[k][i] = text[j]
          /\ \A j \in a .. b : \E i \in DOMAIN windows[k] : windows[k][i] = text[j]
      <4>1. PICK w : w = windows[k]
        OBVIOUS
      <4>2. w = SubSeq(text, a, b)
        BY <3>3, <4>1
      <4>3. w # <<>> /\ w[1] = text[a]
        BY <4>2
      <4>4. \A i \in DOMAIN w : \E j \in DOMAIN text : w[i] = text[j]
        BY <4>2, SubSeqElements, SMTT(20)
      <4>5. \A j \in a .. b : \E i \in DOMAIN w : w[i] = text[j]
        <5>1. \A j \in a .. b : j - a + 1 \in DOMAIN w /\ w[j - a + 1] = text[j]
          BY <4>2
        <5>. QED
          BY <5>1
      <4>. QED
        BY <4>1, <4>3, <4>4, <4>5
    <3>. QED
      BY <1>1, <3>1, <3>2, <3>4
  <2>10. ASSUME NEW j \in DOMAIN text
         PROVE  \E k \in DOMAIN windows : \E i \in DOMAIN windows[k] : windows[k][i] = text[j]
    <3>1. PICK k \in 1 .. n : f[k] <= j /\ j <= g[k]
      BY <1>1, <2>7
    <3>2. j \in f[k] .. g[k]
      BY <1>1, <2>7, <3>1
    <3>. QED
      BY <2>8, <2>9, <3>2
  <2>11. ASSUME NEW k \in DOMAIN windows, NEW l \in DOMAIN windows, k < l
         PROVE  \E i, j \in DOMAIN text : i < j /\ windows[k][1] = text[i] /\ windows[l][1] = text[j]
    <3>1. f[k] < f[l] /\ k \in 1 .. n /\ l \in 1 .. n
      BY <2>7, <2>8, <2>11
    <3>. QED
      BY <2>9, <3>1
  <2>. QED
    BY <2>5, <2>8, <2>9, <2>10, <2>11 DEF AreWindows
<1>. QED
  BY <1>1, <1>2, <1>3, <1>4

(* Adjacent windows: the first is full, and how the second one overlaps.    *)
SharedPlaces(this, next, text, size, overlap) ==
  \E i, j, m \in DOMAIN text :
    /\ next[1] = text[i] /\ this[Len(this)] = text[j] /\ next[Len(next)] = text[m]
    /\ Len(this) = size /\ Len(next) <= size
    /\ m > j
    /\ IF overlap < size THEN i = j - overlap + 1 ELSE i <= j + 1

LEMMA SplitOverlap ==
  ASSUME NEW T, NEW text \in Seq(T), NEW size \in Nat \ {0}, NEW overlap \in Nat,
         NEW windows, windows = SplitByTokens(text, size, overlap),
         NEW k \in 1 .. Len(windows) - 1
  PROVE  SharedPlaces(windows[k], windows[k + 1], text, size, overlap)
<1>1. Len(text) \in Nat /\ DOMAIN text = 1 .. Len(text)
  OBVIOUS
<1>2. Len(text) > size
  <2>1. text = <<>> => windows = <<>>
    BY DEF SplitByTokens
  <2>2. text # <<>> /\ Len(text) \in 1 .. size => windows = <<text>>
    BY DEF SplitByTokens
  <2>3. Len(<<>>) = 0 /\ Len(<<text>>) = 1
    OBVIOUS
  <2>4. Len(windows) # 0 /\ Len(windows) # 1
    <3>1. windows \in Seq(Seq(T))
      BY SplitElements DEF AreWindows
    <3>2. PICK n : n = Len(windows)
      OBVIOUS
    <3>3. n \in Nat /\ k \in 1 .. n - 1
      BY <3>1, <3>2
    <3>4. n # 0 /\ n # 1
      BY <3>3
    <3>. QED
      BY <3>2, <3>4
  <2>5. text # <<>> /\ Len(text) \notin 1 .. size
    BY <2>1, <2>2, <2>3, <2>4
  <2>. QED
    BY <2>5
<1>3. PICK step : step = Step(size, overlap)
  OBVIOUS
<1>4. /\ step \in 1 .. size /\ Len(windows) = Count(Len(text), size, step)
      /\ \A o \in 1 .. Len(windows) :
           windows[o] = SubSeq(text, First(o, step), Last(o, step, size, Len(text)))
  <2>1. step \in 1 .. size
    BY <1>3, StepInWindow
  <2>2. Len(windows) = Count(Len(text), size, step)
    BY <1>2, <1>3, LongSplit
  <2>3. \A o \in 1 .. Len(windows) :
          windows[o] = SubSeq(text, First(o, step), Last(o, step, size, Len(text)))
    BY <1>2, <1>3, LongSplit
  <2>. QED
    BY <2>1, <2>2, <2>3
<1>5. PICK a : a = First(k, step)
  OBVIOUS
<1>6. PICK b : b = Last(k, step, size, Len(text))
  OBVIOUS
<1>7. PICK c : c = First(k + 1, step)
  OBVIOUS
<1>8. PICK d : d = Last(k + 1, step, size, Len(text))
  OBVIOUS
<1>9. /\ Len(windows) \in Nat
      /\ a \in 1 .. Len(text) /\ b \in a .. Len(text) /\ c \in 1 .. Len(text) /\ d \in c .. Len(text)
      /\ b = a + size - 1 /\ c = a + step /\ d > b /\ d < c + size
  <2>1. PICK n : n = Len(windows)
    OBVIOUS
  <2>2. /\ n \in Nat
        /\ \A o \in 1 .. n : /\ First(o, step) \in 1 .. Len(text)
                             /\ Last(o, step, size, Len(text)) \in First(o, step) .. Len(text)
                             /\ Last(o, step, size, Len(text)) < First(o, step) + size
        /\ \A o \in 1 .. n - 1 : /\ Last(o, step, size, Len(text)) = First(o, step) + size - 1
                                 /\ First(o + 1, step) = First(o, step) + step
                                 /\ Last(o, step, size, Len(text)) < Last(o + 1, step, size, Len(text))
    BY <1>1, <1>2, <1>4, <2>1, WindowPlaces
  <2>3. k \in 1 .. n /\ k + 1 \in 1 .. n /\ k \in 1 .. n - 1
    BY <2>1, <2>2
  <2>. QED
    BY <1>5, <1>6, <1>7, <1>8, <2>1, <2>2, <2>3
<1>10. windows[k] = SubSeq(text, a, b) /\ windows[k + 1] = SubSeq(text, c, d)
  <2>1. k \in 1 .. Len(windows) /\ k + 1 \in 1 .. Len(windows)
    BY <1>9
  <2>. QED
    BY <1>4, <1>5, <1>6, <1>7, <1>8, <2>1
<1>11. Len(windows[k]) = b - a + 1 /\ windows[k][Len(windows[k])] = text[b]
  <2>1. PICK w : w = windows[k]
    OBVIOUS
  <2>2. Len(w) = b - a + 1 /\ w[Len(w)] = text[b]
    BY <1>9, <1>10, <2>1, SubSeqElements
  <2>. QED
    BY <2>1, <2>2
<1>12. /\ Len(windows[k + 1]) = d - c + 1 /\ windows[k + 1][1] = text[c]
       /\ windows[k + 1][Len(windows[k + 1])] = text[d]
  <2>1. PICK w : w = windows[k + 1]
    OBVIOUS
  <2>2. Len(w) = d - c + 1 /\ w[1] = text[c] /\ w[Len(w)] = text[d]
    <3>1. w = SubSeq(text, c, d) /\ c \in 1 .. Len(text) /\ d \in c .. Len(text)
      BY <1>9, <1>10, <2>1
    <3>2. Len(w) = d - c + 1 /\ w[Len(w)] = text[d]
      BY <3>1, SubSeqElements
    <3>3. w[1] = text[c]
      BY <3>1, SubSeqElements
    <3>. QED
      BY <3>2, <3>3
  <2>. QED
    BY <2>1, <2>2
<1>13. overlap < size => step = size - overlap
  BY <1>3, StepInWindow
<1>14. IF overlap < size THEN c = b - overlap + 1 ELSE c <= b + 1
  BY <1>4, <1>9, <1>13
<1>15. b \in DOMAIN text /\ c \in DOMAIN text /\ d \in DOMAIN text
  BY <1>1, <1>9
<1>16. Len(windows[k]) = size /\ Len(windows[k + 1]) <= size
  <2>1. Len(windows[k]) = b - a + 1 /\ Len(windows[k + 1]) = d - c + 1
    BY <1>11, <1>12
  <2>2. b - a + 1 = size /\ d - c + 1 <= size
    BY <1>9
  <2>. QED
    BY <2>1, <2>2
<1>. QED
  BY <1>9, <1>11, <1>12, <1>14, <1>15, <1>16 DEF SharedPlaces

-----------------------------------------------------------------------------
(* Texts                                                                    *)

LEMMA BlockFields ==
  ASSUME document \in Seq(Block), NEW b \in DOMAIN document
  PROVE  /\ document[b].type \in {"heading", "text", "ocr", "table", "list"}
         /\ document[b].level \in 1 .. 6 /\ document[b].cost \in Seq(Nat)
         /\ document[b].hint \in Seq(Nat) /\ document[b].page \in Nat /\ document[b].markdown \in BOOLEAN
         /\ b \in Nat /\ b \in 1 .. Len(document)
<1>1. document[b] \in Block
  OBVIOUS
<1>. QED
  BY <1>1 DEF Block

LEMMA TextPieces ==
  ASSUME document \in Seq(Block), NEW b \in DOMAIN document
  PROVE  /\ Text(b) \in Seq(Pieces) /\ DOMAIN Text(b) = DOMAIN document[b].cost
         /\ \A i \in DOMAIN Text(b) : Text(b)[i] = <<b, i>> /\ i \in Nat
         /\ IsEmpty(b) <=> DOMAIN Text(b) = {}
<1>1. document[b].cost \in Seq(Nat) /\ b \in Nat
  BY BlockFields
<1>2. PICK c : c = document[b].cost
  OBVIOUS
<1>3. c \in Seq(Nat) /\ DOMAIN c = 1 .. Len(c) /\ Len(c) \in Nat /\ (c = <<>> <=> DOMAIN c = {})
  <2>1. c \in Seq(Nat)
    BY <1>1, <1>2
  <2>2. DOMAIN c = 1 .. Len(c) /\ Len(c) \in Nat
    BY <2>1
  <2>3. c = <<>> => DOMAIN c = {}
    OBVIOUS
  <2>4. DOMAIN c = {} => Len(c) = 0
    BY <2>2
  <2>5. Len(c) = 0 => c = <<>>
    BY <2>1
  <2>. QED
    BY <2>1, <2>2, <2>3, <2>4, <2>5
<1>4. Text(b) = [i \in 1 .. Len(c) |-> <<b, i>>]
  BY <1>2, <1>3 DEF Text
<1>5. \A i \in 1 .. Len(c) : <<b, i>> \in Pieces
  BY <1>1 DEF Pieces
<1>6. Text(b) \in Seq(Pieces)
  BY <1>3, <1>4, <1>5
<1>. QED
  BY <1>2, <1>3, <1>4, <1>6 DEF IsEmpty

(* Joined texts are those of the blocks, and no others.                     *)
LEMMA JoinedPieces ==
  ASSUME document \in Seq(Block), NEW bs \in Seq(DOMAIN document)
  PROVE  /\ Joined(bs) \in Seq(Pieces)
         /\ \A k \in DOMAIN bs : \A i \in DOMAIN Text(bs[k]) :
              \E j \in DOMAIN Joined(bs) : Joined(bs)[j] = <<bs[k], i>>
         /\ \A j \in DOMAIN Joined(bs) :
              \E k \in DOMAIN bs : \E i \in DOMAIN Text(bs[k]) : Joined(bs)[j] = <<bs[k], i>>
<1>1. PICK parts : parts = [k \in DOMAIN bs |-> Text(bs[k])]
  OBVIOUS
<1>2. \A k \in DOMAIN bs : bs[k] \in DOMAIN document
  OBVIOUS
<1>3. \A k \in DOMAIN bs : Text(bs[k]) \in Seq(Pieces)
  BY <1>2, TextPieces
<1>4. \A k \in DOMAIN bs : \A i \in DOMAIN Text(bs[k]) : Text(bs[k])[i] = <<bs[k], i>>
  BY <1>2, TextPieces
<1>5. DOMAIN parts = DOMAIN bs /\ \A k \in DOMAIN bs : parts[k] = Text(bs[k])
  BY <1>1
<1>6. parts \in Seq(Seq(Pieces))
  <2>1. DOMAIN bs = 1 .. Len(bs) /\ Len(bs) \in Nat
    OBVIOUS
  <2>2. parts \in [1 .. Len(bs) -> Seq(Pieces)]
    BY <1>1, <1>3, <2>1
  <2>. QED
    BY <2>1, <2>2, SMTT(20)
<1>7. Joined(bs) = Chained(parts)
  BY <1>1 DEF Joined
<1>8. /\ Chained(parts) \in Seq(Pieces)
      /\ \A k \in DOMAIN parts : \A i \in DOMAIN parts[k] :
           \E j \in DOMAIN Chained(parts) : Chained(parts)[j] = parts[k][i]
      /\ \A j \in DOMAIN Chained(parts) :
           \E k \in DOMAIN parts : \E i \in DOMAIN parts[k] : Chained(parts)[j] = parts[k][i]
  BY <1>6, ChainedElements
<1>. QED
  BY <1>4, <1>5, <1>7, <1>8

(* Of different blocks they are different.                                  *)
LEMMA JoinedDiffers ==
  ASSUME document \in Seq(Block), NEW bs \in Seq(DOMAIN document), Ascends(bs)
  PROVE  \A i, j \in DOMAIN Joined(bs) : Joined(bs)[i] = Joined(bs)[j] => i = j
<1>1. PICK parts : parts = [k \in DOMAIN bs |-> Text(bs[k])]
  OBVIOUS
<1>2. \A k \in DOMAIN bs : bs[k] \in DOMAIN document /\ bs[k] \in Int /\ k \in Int
  <2>1. DOMAIN document \subseteq Int /\ DOMAIN bs \subseteq Int
    OBVIOUS
  <2>. QED
    BY <2>1
<1>3. \A k \in DOMAIN bs : Text(bs[k]) \in Seq(Pieces)
  BY <1>2, TextPieces
<1>4. \A k \in DOMAIN bs : \A i \in DOMAIN Text(bs[k]) : Text(bs[k])[i] = <<bs[k], i>>
  BY <1>2, TextPieces
<1>5. DOMAIN parts = DOMAIN bs /\ \A k \in DOMAIN bs : parts[k] = Text(bs[k])
  BY <1>1
<1>6. parts \in Seq(Seq(Pieces))
  <2>1. DOMAIN bs = 1 .. Len(bs) /\ Len(bs) \in Nat
    OBVIOUS
  <2>2. parts \in [1 .. Len(bs) -> Seq(Pieces)]
    BY <1>1, <1>3, <2>1
  <2>. QED
    BY <2>1, <2>2, SMTT(30)
<1>7. Joined(bs) = Chained(parts)
  BY <1>1 DEF Joined
<1>8. ASSUME NEW k \in DOMAIN parts, NEW l \in DOMAIN parts,
             NEW i \in DOMAIN parts[k], NEW j \in DOMAIN parts[l], parts[k][i] = parts[l][j]
      PROVE  k = l /\ i = j
  <2>1. <<bs[k], i>> = <<bs[l], j>>
    BY <1>4, <1>5, <1>8
  <2>2. bs[k] = bs[l] /\ i = j
    BY <2>1
  <2>3. ~(k < l) /\ ~(l < k) /\ k \in Int /\ l \in Int
    BY <1>2, <1>5, <2>2 DEF Ascends
  <2>. QED
    BY <2>2, <2>3
<1>9. \A i, j \in DOMAIN Chained(parts) : Chained(parts)[i] = Chained(parts)[j] => i = j
  BY <1>6, <1>8, ChainDiffers
<1>. QED
  BY <1>7, <1>9

-----------------------------------------------------------------------------
(* Nodes                                                                    *)

LEMMA NodesElements ==
  ASSUME document \in Seq(Block), NEW type \in {"section", "paragraph", "table", "ocr"},
         NEW bs \in Seq(DOMAIN document), NEW texts \in Seq(Seq(Pieces)), NEW here \in Seq(Nat),
         NEW parent \in {<<>>} \cup ParentId, bs # <<>>,
         NEW made, made = Nodes(type, bs, texts, here, parent)
  PROVE  /\ made \in Seq(Node) /\ Len(made) = Len(texts) /\ DOMAIN made = DOMAIN texts
         /\ \A k \in DOMAIN texts :
              /\ made[k].type = type /\ made[k].blocks = bs /\ made[k].text = texts[k]
              /\ made[k].parent = parent
              /\ made[k].path = IF document[bs[1]].hint # <<>> THEN document[bs[1]].hint ELSE here
<1>1. made = [k \in DOMAIN texts |-> MakeNode(type, bs, texts[k], here, parent)]
  BY DEF Nodes
<1>2. bs[1] \in DOMAIN document /\ bs \in Seq(Nat)
  OBVIOUS
<1>3. document[bs[1]].hint \in Seq(Nat)
  BY <1>2, BlockFields
<1>4. DOMAIN texts = 1 .. Len(texts) /\ Len(texts) \in Nat /\ \A k \in DOMAIN texts : texts[k] \in Seq(Pieces)
  OBVIOUS
<1>5. ASSUME NEW k \in DOMAIN texts
      PROVE  /\ made[k].type = type /\ made[k].blocks = bs /\ made[k].text = texts[k]
             /\ made[k].parent = parent
             /\ made[k].path = IF document[bs[1]].hint # <<>> THEN document[bs[1]].hint ELSE here
             /\ made[k] \in Node
  <2>1. made[k] = [type |-> type, blocks |-> bs, text |-> texts[k], parent |-> parent,
                   path |-> IF document[bs[1]].hint # <<>> THEN document[bs[1]].hint ELSE here]
    BY <1>1 DEF MakeNode
  <2>2. made[k] \in Node
    BY <1>2, <1>3, <1>4, <2>1 DEF Node
  <2>. QED
    BY <2>1, <2>2
<1>6. made \in [1 .. Len(texts) -> Node]
  BY <1>1, <1>4, <1>5
<1>7. made \in Seq(Node) /\ Len(made) = Len(texts)
  <2>1. PICK n \in Nat : n = Len(texts)
    BY <1>4
  <2>2. made = [k \in 1 .. n |-> made[k]]
    BY <1>4, <1>6, <2>1
  <2>3. \A k \in 1 .. n : made[k] \in Node
    BY <1>4, <1>5, <2>1
  <2>. QED
    BY <2>1, <2>2, <2>3
<1>. QED
  BY <1>1, <1>5, <1>7

(* What is asked of new nodes: they are of blocks of the set from, and have *)
(* no text but theirs and that of headings, and the path that was asked for *)
(* if the parser gave none.                                                 *)
SoundNode(n, from, here) ==
  /\ n.blocks # <<>> /\ Range(n.blocks) \subseteq from
  /\ \A j \in DOMAIN n.text : n.text[j][1] \in Range(n.blocks) \cup Of({"heading"})
  /\ n.path = IF document[n.blocks[1]].hint # <<>> THEN document[n.blocks[1]].hint ELSE here

Sound(made, from, here) ==
  made \in Seq(Node) /\ \A k \in DOMAIN made : SoundNode(made[k], from, here)

LEMMA SoundJoined ==
  ASSUME NEW a, NEW b, NEW from, NEW here, Sound(a, from, here), Sound(b, from, here)
  PROVE  Sound(a \o b, from, here)
<1>1. a \in Seq(Node) /\ b \in Seq(Node)
  BY DEF Sound
<1>2. /\ a \o b \in Seq(Node)
      /\ \A i \in DOMAIN a : (a \o b)[i] = a[i]
      /\ \A i \in DOMAIN (a \o b) :
           \/ i \in DOMAIN a
           \/ i > Len(a) /\ i - Len(a) \in DOMAIN b /\ (a \o b)[i] = b[i - Len(a)]
  BY <1>1, JoinedElements
<1>3. \A k \in DOMAIN a : SoundNode(a[k], from, here)
  BY DEF Sound
<1>4. \A k \in DOMAIN b : SoundNode(b[k], from, here)
  BY DEF Sound
<1>5. ASSUME NEW i \in DOMAIN (a \o b) PROVE SoundNode((a \o b)[i], from, here)
  <2>1. \/ i \in DOMAIN a /\ (a \o b)[i] = a[i]
        \/ i - Len(a) \in DOMAIN b /\ (a \o b)[i] = b[i - Len(a)]
    BY <1>2
  <2>. QED
    BY <1>3, <1>4, <2>1
<1>. QED
  BY <1>2, <1>5 DEF Sound

LEMMA SoundWider ==
  ASSUME NEW made, NEW from, NEW here, NEW wider, Sound(made, from, here), from \subseteq wider
  PROVE  Sound(made, wider, here)
BY DEF Sound, SoundNode

(* What part of the nodes holds, all hold.                                  *)
LEMMA HoldsJoined ==
  ASSUME NEW a \in Seq(Node), NEW b \in Seq(Node), NEW p, Holds(a, p) \/ Holds(b, p)
  PROVE  Holds(a \o b, p)
<1>1. /\ \A i \in DOMAIN a : i \in DOMAIN (a \o b) /\ (a \o b)[i] = a[i]
      /\ \A i \in DOMAIN b : Len(a) + i \in DOMAIN (a \o b) /\ (a \o b)[Len(a) + i] = b[i]
  BY JoinedElements
<1>2. CASE Holds(a, p)
  BY <1>1, <1>2 DEF Holds
<1>3. CASE Holds(b, p)
  BY <1>1, <1>3 DEF Holds
<1>. QED
  BY <1>2, <1>3

(* Nodes of one list of blocks, for texts of theirs.                        *)
OfTexts(made, type, bs, texts, here, parent) ==
  /\ Sound(made, Range(bs), here) /\ Len(made) = Len(texts)
  /\ \A k \in DOMAIN made :
       k \in DOMAIN texts /\ made[k].type = type /\ made[k].blocks = bs /\ made[k].text = texts[k]
       /\ made[k].parent = parent
  /\ type # "section" => \A k \in DOMAIN texts : \A i \in DOMAIN texts[k] :
       texts[k][i][1] \in Range(bs) => Holds(made, texts[k][i])

LEMMA NodesSound ==
  ASSUME document \in Seq(Block), NEW type \in {"section", "paragraph", "table", "ocr"},
         NEW bs \in Seq(DOMAIN document), NEW texts \in Seq(Seq(Pieces)), NEW here \in Seq(Nat),
         NEW parent \in {<<>>} \cup ParentId, bs = <<>> => texts = <<>>,
         \A k \in DOMAIN texts : \A i \in DOMAIN texts[k] :
           texts[k][i][1] \in Range(bs) \cup Of({"heading"}),
         NEW made, made = Nodes(type, bs, texts, here, parent)
  PROVE  OfTexts(made, type, bs, texts, here, parent)
<1>1. CASE bs = <<>>
  <2>1. texts = <<>> /\ made = <<>>
    BY <1>1 DEF Nodes
  <2>2. made \in Seq(Node)
    BY <2>1, EmptySeq
  <2>3. DOMAIN <<>> = {}
    OBVIOUS
  <2>4. DOMAIN texts = {} /\ DOMAIN made = {} /\ Len(made) = Len(texts)
    BY <2>1, <2>3
  <2>. QED
    BY <2>2, <2>4 DEF Sound, OfTexts
<1>2. CASE bs # <<>>
  <2>1. /\ made \in Seq(Node) /\ Len(made) = Len(texts) /\ DOMAIN made = DOMAIN texts
        /\ \A k \in DOMAIN texts :
             /\ made[k].type = type /\ made[k].blocks = bs /\ made[k].text = texts[k]
             /\ made[k].parent = parent
             /\ made[k].path = IF document[bs[1]].hint # <<>> THEN document[bs[1]].hint ELSE here
    BY <1>2, NodesElements, SMTT(30)
  <2>2. Sound(made, Range(bs), here)
    <3>1. ASSUME NEW k \in DOMAIN made PROVE SoundNode(made[k], Range(bs), here)
      <4>1. PICK n : n = made[k]
        OBVIOUS
      <4>2. /\ n.blocks = bs /\ n.text = texts[k] /\ k \in DOMAIN texts
            /\ n.path = IF document[bs[1]].hint # <<>> THEN document[bs[1]].hint ELSE here
        BY <2>1, <4>1
      <4>3. SoundNode(n, Range(bs), here)
        BY <1>2, <4>2 DEF SoundNode
      <4>. QED
        BY <4>1, <4>3
    <3>. QED
      BY <2>1, <3>1 DEF Sound
  <2>3. ASSUME NEW k \in DOMAIN texts, NEW i \in DOMAIN texts[k], texts[k][i][1] \in Range(bs),
               type # "section"
        PROVE  Holds(made, texts[k][i])
    <3>1. /\ k \in DOMAIN made /\ made[k].type # "section" /\ texts[k][i][1] \in Range(made[k].blocks)
          /\ i \in DOMAIN made[k].text /\ made[k].text[i] = texts[k][i]
      BY <2>1, <2>3
    <3>. QED
      BY <3>1 DEF Holds, Range
  <2>. QED
    BY <2>1, <2>2, <2>3 DEF OfTexts
<1>. QED
  BY <1>1, <1>2

LEMMA SplitTextElements ==
  ASSUME setting \in Setting, NEW T, NEW text \in Seq(T), NEW texts, texts = SplitText(text)
  PROVE  AreWindows(texts, text, T)
<1>1. PICK size : size = setting.size
  OBVIOUS
<1>2. PICK overlap : overlap = setting.overlap
  OBVIOUS
<1>3. size \in Nat \ {0} /\ overlap \in Nat
  BY <1>1, <1>2 DEF Setting
<1>4. texts = SplitByTokens(text, size, overlap)
  BY <1>1, <1>2 DEF SplitText
<1>. QED
  BY <1>3, <1>4, SplitElements

(* The windows of some blocks' texts.                                       *)
LEMMA SplitJoined ==
  ASSUME document \in Seq(Block), setting \in Setting, NEW bs \in Seq(DOMAIN document),
         NEW texts, texts = SplitText(Joined(bs))
  PROVE  /\ texts \in Seq(Seq(Pieces)) /\ (bs = <<>> => texts = <<>>)
         /\ \A k \in DOMAIN texts : texts[k] # <<>>
         /\ \A k \in DOMAIN texts : \A i \in DOMAIN texts[k] : texts[k][i][1] \in Range(bs)
         /\ \A j \in DOMAIN bs : \A i \in DOMAIN Text(bs[j]) :
              \E k \in DOMAIN texts : \E m \in DOMAIN texts[k] : texts[k][m] = <<bs[j], i>>
         /\ Ascends(bs) => \A k, l \in DOMAIN texts : k # l => texts[k][1] # texts[l][1]
<1>1. setting.size \in Nat \ {0} /\ setting.overlap \in Nat
  BY DEF Setting
<1>2. PICK text : text = Joined(bs)
  OBVIOUS
<1>3. /\ text \in Seq(Pieces)
      /\ \A k \in DOMAIN bs : \A i \in DOMAIN Text(bs[k]) : \E j \in DOMAIN text : text[j] = <<bs[k], i>>
      /\ \A j \in DOMAIN text : \E k \in DOMAIN bs : \E i \in DOMAIN Text(bs[k]) : text[j] = <<bs[k], i>>
  BY <1>2, JoinedPieces
<1>4. texts = SplitByTokens(text, setting.size, setting.overlap)
  BY <1>2 DEF SplitText
<1>5. /\ texts \in Seq(Seq(Pieces))
      /\ \A k \in DOMAIN texts : texts[k] # <<>>
      /\ \A k \in DOMAIN texts : \A i \in DOMAIN texts[k] : \E j \in DOMAIN text : texts[k][i] = text[j]
      /\ \A j \in DOMAIN text : \E k \in DOMAIN texts : \E i \in DOMAIN texts[k] : texts[k][i] = text[j]
      /\ \A k, l \in DOMAIN texts : k < l =>
           \E i, j \in DOMAIN text : i < j /\ texts[k][1] = text[i] /\ texts[l][1] = text[j]
  <2>1. AreWindows(texts, text, Pieces)
    BY <1>2, <1>3, SplitTextElements
  <2>. QED
    BY <2>1 DEF AreWindows
<1>6. ASSUME bs = <<>> PROVE texts = <<>>
  <2>1. DOMAIN bs = {}
    BY <1>6
  <2>2. DOMAIN text = {}
    BY <1>3, <2>1
  <2>3. SUFFICES ASSUME texts # <<>> PROVE FALSE
    OBVIOUS
  <2>4. 1 \in DOMAIN texts /\ texts[1] \in Seq(Pieces) /\ texts[1] # <<>>
    BY <1>5, <2>3
  <2>5. 1 \in DOMAIN texts[1]
    BY <2>4
  <2>. QED
    BY <1>5, <2>2, <2>4, <2>5
<1>7. ASSUME NEW k \in DOMAIN texts, NEW i \in DOMAIN texts[k] PROVE texts[k][i][1] \in Range(bs)
  <2>1. PICK j \in DOMAIN text : texts[k][i] = text[j]
    BY <1>5
  <2>2. PICK m \in DOMAIN bs : \E o \in DOMAIN Text(bs[m]) : text[j] = <<bs[m], o>>
    BY <1>3
  <2>. QED
    BY <2>1, <2>2 DEF Range
<1>8. ASSUME NEW j \in DOMAIN bs, NEW i \in DOMAIN Text(bs[j])
      PROVE  \E k \in DOMAIN texts : \E m \in DOMAIN texts[k] : texts[k][m] = <<bs[j], i>>
  <2>1. PICK o \in DOMAIN text : text[o] = <<bs[j], i>>
    BY <1>3
  <2>. QED
    BY <1>5, <2>1
<1>9. ASSUME Ascends(bs), NEW k \in DOMAIN texts, NEW l \in DOMAIN texts, k # l
      PROVE  texts[k][1] # texts[l][1]
  <2>1. \A i, j \in DOMAIN text : text[i] = text[j] => i = j
    BY <1>2, <1>9, JoinedDiffers
  <2>2. DOMAIN texts = 1 .. Len(texts) /\ DOMAIN text = 1 .. Len(text)
    BY <1>3, <1>5
  <2>3. k < l \/ l < k
    BY <1>9, <2>2
  <2>. QED
    <3>1. CASE k < l
      <4>1. PICK i, j \in DOMAIN text : i < j /\ texts[k][1] = text[i] /\ texts[l][1] = text[j]
        BY <1>5, <1>9, <3>1
      <4>2. i # j
        BY <2>2, <4>1
      <4>. QED
        BY <2>1, <4>1, <4>2
    <3>2. CASE l < k
      <4>1. PICK i, j \in DOMAIN text : i < j /\ texts[l][1] = text[i] /\ texts[k][1] = text[j]
        BY <1>5, <1>9, <3>2
      <4>2. i # j
        BY <2>2, <4>1
      <4>. QED
        BY <2>1, <4>1, <4>2
    <3>. QED
      BY <2>3, <3>1, <3>2
<1>. QED
  BY <1>5, <1>6, <1>7, <1>8, <1>9

-----------------------------------------------------------------------------
(* What the loop has in its hands                                           *)

LEMMA InHandLists ==
  ASSUME ChunkTypeOK, InHand
  PROVE  /\ group \in Seq(DOMAIN document) /\ path \in Seq(DOMAIN document)
         /\ document \in Seq(Block) /\ setting \in Setting /\ Ascends(group) /\ Ascends(path)
         /\ DOMAIN document \subseteq Nat
<1>1. /\ document \in Seq(Block) /\ group \in Seq(Nat) /\ path \in Seq(Nat) /\ setting \in Setting
      /\ Ascends(group) /\ Ascends(path)
  BY DEF ChunkTypeOK, InHand
<1>2. \A k \in DOMAIN group : group[k] \in DOMAIN document
  BY DEF InHand, Of
<1>3. \A k \in DOMAIN path : path[k] \in DOMAIN document
  BY DEF InHand, Of
<1>4. group \in Seq(DOMAIN document) /\ path \in Seq(DOMAIN document)
  <2>1. PICK D : D = DOMAIN document
    OBVIOUS
  <2>2. PICK g : g = group
    OBVIOUS
  <2>3. PICK p : p = path
    OBVIOUS
  <2>4. g \in Seq(D) /\ p \in Seq(D)
    BY <1>1, <1>2, <1>3, <2>1, <2>2, <2>3, ElementsIn
  <2>. QED
    BY <2>1, <2>2, <2>3, <2>4
<1>5. DOMAIN document \subseteq Nat
  BY <1>1
<1>. QED
  BY <1>1, <1>2, <1>3, <1>4, <1>5

(* Some of the blocks in hand, in their order.                              *)
LEMMA AmongGroup ==
  ASSUME ChunkTypeOK, InHand, NEW S, NEW bs, bs = Among(group, S)
  PROVE  /\ bs \in Seq(DOMAIN document) /\ Ascends(bs) /\ Range(bs) \subseteq Range(group) \cap S
         /\ \A k \in DOMAIN group : group[k] \in S => \E j \in DOMAIN bs : bs[j] = group[k]
<1>1. /\ group \in Seq(DOMAIN document) /\ Ascends(group) /\ DOMAIN document \subseteq Nat
  BY InHandLists
<1>2. PICK D : D = DOMAIN document
  OBVIOUS
<1>3. PICK g : g = group
  OBVIOUS
<1>4. g \in Seq(D) /\ bs = Among(g, S)
  BY <1>1, <1>2, <1>3
<1>5. bs \in Seq(D)
  BY <1>4, AmongElements
<1>6. \A i \in DOMAIN g : g[i] \in S => \E k \in DOMAIN bs : bs[k] = g[i]
  BY <1>4, AmongElements
<1>7. \A k \in DOMAIN bs : bs[k] \in S /\ \E i \in DOMAIN g : bs[k] = g[i]
  BY <1>4, AmongElements
<1>8. \A k, l \in DOMAIN bs : k < l => \E i, j \in DOMAIN g : i < j /\ bs[k] = g[i] /\ bs[l] = g[j]
  BY <1>4, AmongElements
<1>9. Ascends(bs)
  BY <1>1, <1>3, <1>8 DEF Ascends
<1>10. Range(bs) \subseteq Range(group) \cap S
  BY <1>3, <1>7 DEF Range
<1>. QED
  BY <1>2, <1>3, <1>5, <1>6, <1>9, <1>10

-----------------------------------------------------------------------------
(* Ids                                                                      *)

LEMMA IdFields ==
  ASSUME NEW a, NEW b, NodeId(a) = NodeId(b)
  PROVE  /\ a.type = b.type /\ a.blocks = b.blocks
         /\ SubSeq(a.text, 1, Least(IdLength, Len(a.text))) = SubSeq(b.text, 1, Least(IdLength, Len(b.text)))
BY DEF NodeId

IdsDiffer(made) == \A j, k \in DOMAIN made : j # k => NodeId(made[j]) # NodeId(made[k])

(* The parents of the nodes of made are in all.                             *)
IsParent(p, n) == p.type = "section" /\ NodeId(p) = n.parent /\ Range(n.blocks) \subseteq Range(p.blocks)

ParentsIn(made, all) ==
  \A k \in DOMAIN made : made[k].parent # <<>> => \E j \in DOMAIN all : IsParent(all[j], made[k])

LEMMA IdsJoined ==
  ASSUME NEW a \in Seq(Node), NEW b \in Seq(Node), IdsDiffer(a), IdsDiffer(b),
         \A i \in DOMAIN a, j \in DOMAIN b : NodeId(a[i]) # NodeId(b[j]),
         NEW c, c = a \o b
  PROVE  IdsDiffer(c)
<1>1. /\ \A i \in DOMAIN a : c[i] = a[i]
      /\ \A i \in DOMAIN c :
           \/ i \in DOMAIN a
           \/ i > Len(a) /\ i - Len(a) \in DOMAIN b /\ c[i] = b[i - Len(a)]
  BY JoinedElements
<1>2. ASSUME NEW i \in DOMAIN c, NEW j \in DOMAIN c, i # j PROVE NodeId(c[i]) # NodeId(c[j])
  <2>1. CASE i \in DOMAIN a /\ j \in DOMAIN a
    <3>1. c[i] = a[i] /\ c[j] = a[j]
      BY <1>1, <2>1
    <3>. QED
      BY <1>2, <2>1, <3>1 DEF IdsDiffer
  <2>2. CASE i \in DOMAIN a /\ j \notin DOMAIN a
    <3>1. c[i] = a[i] /\ j - Len(a) \in DOMAIN b /\ c[j] = b[j - Len(a)]
      BY <1>1, <2>2
    <3>. QED
      BY <2>2, <3>1
  <2>3. CASE i \notin DOMAIN a /\ j \in DOMAIN a
    <3>1. c[j] = a[j] /\ i - Len(a) \in DOMAIN b /\ c[i] = b[i - Len(a)]
      BY <1>1, <2>3
    <3>. QED
      BY <2>3, <3>1
  <2>4. CASE i \notin DOMAIN a /\ j \notin DOMAIN a
    <3>1. /\ j - Len(a) \in DOMAIN b /\ c[j] = b[j - Len(a)]
          /\ i - Len(a) \in DOMAIN b /\ c[i] = b[i - Len(a)]
      BY <1>1, <2>4
    <3>2. i - Len(a) # j - Len(a)
      BY <1>1, <1>2, <2>4
    <3>. QED
      BY <3>1, <3>2 DEF IdsDiffer
  <2>. QED
    BY <2>1, <2>2, <2>3, <2>4
<1>. QED
  BY <1>2 DEF IdsDiffer

LEMMA ParentsJoined ==
  ASSUME NEW a \in Seq(Node), NEW b \in Seq(Node), NEW c \in Seq(Node), NEW d \in Seq(Node),
         ParentsIn(a, c) \/ ParentsIn(a, d), ParentsIn(b, c) \/ ParentsIn(b, d)
  PROVE  ParentsIn(a \o b, c \o d)
<1>1. PICK e : e = a \o b
  OBVIOUS
<1>2. PICK f : f = c \o d
  OBVIOUS
<1>3. /\ \A i \in DOMAIN c : i \in DOMAIN f /\ f[i] = c[i]
      /\ \A i \in DOMAIN d : Len(c) + i \in DOMAIN f /\ f[Len(c) + i] = d[i]
  BY <1>2, JoinedElements, SMTT(30)
<1>4. /\ \A i \in DOMAIN a : e[i] = a[i]
      /\ \A i \in DOMAIN e :
           \/ i \in DOMAIN a
           \/ i > Len(a) /\ i - Len(a) \in DOMAIN b /\ e[i] = b[i - Len(a)]
  BY <1>1, JoinedElements
<1>5. ASSUME NEW n, (\E j \in DOMAIN c : IsParent(c[j], n)) \/ (\E j \in DOMAIN d : IsParent(d[j], n))
      PROVE  \E j \in DOMAIN f : IsParent(f[j], n)
  <2>1. CASE \E j \in DOMAIN c : IsParent(c[j], n)
    BY <1>3, <2>1
  <2>2. CASE \E j \in DOMAIN d : IsParent(d[j], n)
    BY <1>3, <2>2
  <2>. QED
    BY <1>5, <2>1, <2>2
<1>6. ASSUME NEW k \in DOMAIN a, a[k].parent # <<>> PROVE \E j \in DOMAIN f : IsParent(f[j], a[k])
  <2>1. (\E j \in DOMAIN c : IsParent(c[j], a[k])) \/ (\E j \in DOMAIN d : IsParent(d[j], a[k]))
    BY <1>6 DEF ParentsIn
  <2>. QED
    BY <1>5, <2>1
<1>7. ASSUME NEW k \in DOMAIN b, b[k].parent # <<>> PROVE \E j \in DOMAIN f : IsParent(f[j], b[k])
  <2>1. (\E j \in DOMAIN c : IsParent(c[j], b[k])) \/ (\E j \in DOMAIN d : IsParent(d[j], b[k]))
    BY <1>7 DEF ParentsIn
  <2>. QED
    BY <1>5, <2>1
<1>8. ParentsIn(e, f)
  BY <1>4, <1>6, <1>7 DEF ParentsIn
<1>. QED
  BY <1>1, <1>2, <1>8

(* The same prefix in front of different beginnings.                        *)
LEMMA BeginningsDiffer ==
  ASSUME NEW prefix \in Seq(Pieces), IdLength \in Nat, Len(prefix) < IdLength,
         NEW a \in Seq(Pieces), NEW b \in Seq(Pieces), a # <<>>, b # <<>>, a[1] # b[1],
         NEW x, NEW y, x.text = prefix \o a, y.text = prefix \o b
  PROVE  NodeId(x) # NodeId(y)
<1>1. SUFFICES ASSUME NodeId(x) = NodeId(y) PROVE FALSE
  OBVIOUS
<1>2. PICK n \in Nat : n = Len(prefix) + 1
  OBVIOUS
<1>3. PICK s : s = prefix \o a
  OBVIOUS
<1>4. PICK t : t = prefix \o b
  OBVIOUS
<1>5. /\ s \in Seq(Pieces) /\ Len(s) >= n /\ s[n] = a[1]
      /\ t \in Seq(Pieces) /\ Len(t) >= n /\ t[n] = b[1]
  BY <1>2, <1>3, <1>4
<1>6. SubSeq(s, 1, Least(IdLength, Len(s))) = SubSeq(t, 1, Least(IdLength, Len(t)))
  BY <1>1, <1>3, <1>4, IdFields
<1>7. PICK i : i = Least(IdLength, Len(s))
  OBVIOUS
<1>8. PICK j : j = Least(IdLength, Len(t))
  OBVIOUS
<1>10. n > 0 /\ n <= IdLength
  BY <1>2
<1>11. i \in n .. Len(s) /\ j \in n .. Len(t)
  <2>1. Len(s) \in Nat /\ Len(t) \in Nat
    BY <1>5
  <2>. QED
    BY <1>5, <1>7, <1>8, <1>10, <2>1 DEF Least
<1>9. SubSeq(s, 1, i)[n] = s[n] /\ SubSeq(t, 1, j)[n] = t[n]
  BY <1>5, <1>10, <1>11
<1>. QED
  BY <1>5, <1>6, <1>7, <1>8, <1>9

(* The headings above take no more room than all headings.                  *)
LEMMA PathHasRoom ==
  ASSUME ChunkTypeOK, InHand, IdsHaveRoom, IdLength \in Nat
  PROVE  Joined(path) \in Seq(Pieces) /\ Len(Joined(path)) < IdLength
<1>1. /\ path \in Seq(DOMAIN document) /\ document \in Seq(Block) /\ Ascends(path)
      /\ DOMAIN document \subseteq Nat
  BY InHandLists
<1>2. PICK H : H = Of({"heading"})
  OBVIOUS
<1>3. H \subseteq DOMAIN document /\ IsFiniteSet(H) /\ H \subseteq Int
  <2>1. DOMAIN document = 1 .. Len(document) /\ Len(document) \in Nat
    BY <1>1
  <2>2. H \subseteq DOMAIN document
    BY <1>2 DEF Of
  <2>3. IsFiniteSet(1 .. Len(document))
    BY <2>1, FS_Interval
  <2>. QED
    BY <2>1, <2>2, <2>3, FS_Subset
<1>4. PICK all : all = Ascending(H)
  OBVIOUS
<1>5. all \in Seq(DOMAIN document) /\ \A h \in H : \E k \in DOMAIN all : all[k] = h
  <2>1. PICK c : c = Cardinality(H)
    OBVIOUS
  <2>2. c \in Nat /\ all \in [1 .. c -> H] /\ \A n \in H : \E k \in 1 .. c : all[k] = n
    BY <1>3, <1>4, <2>1, AscendingNumbers
  <2>3. all \in [1 .. c -> DOMAIN document] /\ DOMAIN all = 1 .. c
    BY <1>3, <2>2
  <2>. QED
    BY <2>2, <2>3
<1>6. PICK s : s = Joined(path)
  OBVIOUS
<1>7. PICK t : t = Joined(all)
  OBVIOUS
<1>8. /\ s \in Seq(Pieces)
      /\ \A j \in DOMAIN s : \E k \in DOMAIN path : \E i \in DOMAIN Text(path[k]) : s[j] = <<path[k], i>>
      /\ \A i, j \in DOMAIN s : s[i] = s[j] => i = j
  BY <1>1, <1>6, JoinedPieces, JoinedDiffers
<1>9. /\ t \in Seq(Pieces)
      /\ \A k \in DOMAIN all : \A i \in DOMAIN Text(all[k]) : \E j \in DOMAIN t : t[j] = <<all[k], i>>
  BY <1>1, <1>5, <1>7, JoinedPieces
<1>10. ASSUME NEW j \in DOMAIN s PROVE \E m \in DOMAIN t : t[m] = s[j]
  <2>1. PICK k \in DOMAIN path : \E i \in DOMAIN Text(path[k]) : s[j] = <<path[k], i>>
    BY <1>8
  <2>2. PICK l \in DOMAIN all : all[l] = path[k]
    BY <1>2, <1>5 DEF InHand
  <2>. QED
    BY <1>9, <2>1, <2>2
<1>11. Len(s) <= Len(t)
  BY <1>8, <1>9, <1>10, NoLonger
<1>12. Len(t) < IdLength /\ Len(s) \in Nat /\ Len(t) \in Nat
  BY <1>2, <1>4, <1>7, <1>8, <1>9 DEF IdsHaveRoom
<1>. QED
  BY <1>6, <1>8, <1>11, <1>12

-----------------------------------------------------------------------------
(* Flushed sections                                                         *)

(* Headings in front of a text.                                             *)
Prefixed(t, prefix, a, from) ==
  /\ t = prefix \o a /\ t \in Seq(Pieces)
  /\ \A i \in DOMAIN t : t[i][1] \in from \cup Of({"heading"})
  /\ \A m \in DOMAIN a : \E i \in DOMAIN t : t[i] = a[m]

LEMMA PrefixedText ==
  ASSUME NEW prefix \in Seq(Pieces), \A i \in DOMAIN prefix : prefix[i][1] \in Of({"heading"}),
         NEW a \in Seq(Pieces), NEW from, \A i \in DOMAIN a : a[i][1] \in from,
         NEW t, t = prefix \o a
  PROVE  Prefixed(t, prefix, a, from)
<1>1. /\ t \in Seq(Pieces)
      /\ \A i \in DOMAIN prefix : i \in DOMAIN t /\ t[i] = prefix[i]
      /\ \A i \in DOMAIN a : Len(prefix) + i \in DOMAIN t /\ t[Len(prefix) + i] = a[i]
      /\ \A i \in DOMAIN t :
           \/ i \in DOMAIN prefix
           \/ i > Len(prefix) /\ i - Len(prefix) \in DOMAIN a /\ t[i] = a[i - Len(prefix)]
  BY JoinedElements
<1>2. \A i \in DOMAIN t : t[i][1] \in from \cup Of({"heading"})
  BY <1>1
<1>3. \A m \in DOMAIN a : \E i \in DOMAIN t : t[i] = a[m]
  BY <1>1
<1>. QED
  BY <1>1, <1>2, <1>3 DEF Prefixed

(* Nodes of one list of blocks, for the windows of its text.                *)
OfWindows(made, type, bs, here, parent) ==
  /\ Sound(made, Range(bs), here)
  /\ \A k \in DOMAIN made : made[k].type = type /\ made[k].blocks = bs /\ made[k].parent = parent
  /\ \A j \in DOMAIN bs : \A i \in DOMAIN Text(bs[j]) : Holds(made, <<bs[j], i>>)
  /\ IdsHaveRoom => IdsDiffer(made)

LEMMA WindowNodes ==
  ASSUME document \in Seq(Block), setting \in Setting, IdLength \in Nat,
         NEW type \in {"paragraph", "ocr"}, NEW bs \in Seq(DOMAIN document), Ascends(bs),
         NEW here \in Seq(Nat), NEW parent \in {<<>>} \cup ParentId,
         NEW prefix \in Seq(Pieces), IdsHaveRoom => Len(prefix) < IdLength,
         \A i \in DOMAIN prefix : prefix[i][1] \in Of({"heading"}),
         NEW chunks, chunks = SplitText(Joined(bs)),
         NEW texts, texts = [k \in DOMAIN chunks |-> prefix \o chunks[k]],
         NEW made, made = Nodes(type, bs, texts, here, parent)
  PROVE  OfWindows(made, type, bs, here, parent)
<1>1. /\ chunks \in Seq(Seq(Pieces)) /\ (bs = <<>> => chunks = <<>>)
      /\ \A k \in DOMAIN chunks : chunks[k] # <<>>
      /\ \A k \in DOMAIN chunks : \A i \in DOMAIN chunks[k] : chunks[k][i][1] \in Range(bs)
      /\ \A j \in DOMAIN bs : \A i \in DOMAIN Text(bs[j]) :
           \E k \in DOMAIN chunks : \E m \in DOMAIN chunks[k] : chunks[k][m] = <<bs[j], i>>
      /\ \A k, l \in DOMAIN chunks : k # l => chunks[k][1] # chunks[l][1]
  BY SplitJoined, SMTT(20)
<1>2. ASSUME NEW k \in DOMAIN chunks
      PROVE  Prefixed(texts[k], prefix, chunks[k], Range(bs))
  <2>1. PICK a : a = chunks[k]
    OBVIOUS
  <2>2. PICK t : t = prefix \o a
    OBVIOUS
  <2>3. a \in Seq(Pieces) /\ texts[k] = t
    BY <1>1, <2>1, <2>2
  <2>4. \A i \in DOMAIN a : a[i][1] \in Range(bs)
    BY <1>1, <2>1
  <2>5. Prefixed(t, prefix, a, Range(bs))
    BY <2>2, <2>3, <2>4, PrefixedText
  <2>. QED
    BY <2>1, <2>3, <2>5
<1>3. /\ DOMAIN texts = DOMAIN chunks /\ texts \in Seq(Seq(Pieces)) /\ (bs = <<>> => texts = <<>>)
  <2>1. PICK n \in Nat : n = Len(chunks) /\ DOMAIN chunks = 1 .. n
    BY <1>1
  <2>2. \A k \in 1 .. n : texts[k] \in Seq(Pieces)
    BY <1>2, <2>1 DEF Prefixed
  <2>3. texts = [k \in 1 .. n |-> texts[k]]
    BY <2>1
  <2>4. texts \in Seq(Seq(Pieces)) /\ DOMAIN texts = 1 .. n /\ Len(texts) = n
    BY <2>2, <2>3
  <2>5. bs = <<>> => n = 0
    BY <1>1, <2>1
  <2>. QED
    BY <2>1, <2>4, <2>5
<1>4. \A k \in DOMAIN texts : \A i \in DOMAIN texts[k] : texts[k][i][1] \in Range(bs) \cup Of({"heading"})
  <2>1. ASSUME NEW k \in DOMAIN texts
        PROVE  \A i \in DOMAIN texts[k] : texts[k][i][1] \in Range(bs) \cup Of({"heading"})
    <3>1. PICK t : t = texts[k]
      OBVIOUS
    <3>2. Prefixed(t, prefix, chunks[k], Range(bs))
      BY <1>2, <1>3, <3>1
    <3>3. \A i \in DOMAIN t : t[i][1] \in Range(bs) \cup Of({"heading"})
      BY <3>2 DEF Prefixed
    <3>. QED
      BY <3>1, <3>3
  <2>. QED
    BY <2>1
<1>5. type \in {"section", "paragraph", "table", "ocr"} /\ type # "section"
  OBVIOUS
<1>6. OfTexts(made, type, bs, texts, here, parent)
  BY <1>3, <1>4, <1>5, NodesSound
<1>9. /\ Sound(made, Range(bs), here) /\ Len(made) = Len(texts)
      /\ \A k \in DOMAIN made :
           k \in DOMAIN texts /\ made[k].type = type /\ made[k].blocks = bs /\ made[k].text = texts[k]
           /\ made[k].parent = parent
  BY <1>6 DEF OfTexts
<1>10. \A k \in DOMAIN texts : \A i \in DOMAIN texts[k] :
        texts[k][i][1] \in Range(bs) => Holds(made, texts[k][i])
  BY <1>5, <1>6 DEF OfTexts
<1>7. ASSUME NEW j \in DOMAIN bs, NEW i \in DOMAIN Text(bs[j]) PROVE Holds(made, <<bs[j], i>>)
  <2>1. PICK k \in DOMAIN chunks : \E m \in DOMAIN chunks[k] : chunks[k][m] = <<bs[j], i>>
    BY <1>1
  <2>2. PICK m \in DOMAIN chunks[k] : chunks[k][m] = <<bs[j], i>>
    BY <2>1
  <2>3. PICK o \in DOMAIN texts[k] : texts[k][o] = chunks[k][m]
    BY <1>2 DEF Prefixed
  <2>4. texts[k][o] = <<bs[j], i>> /\ texts[k][o][1] \in Range(bs)
    <3>1. PICK p : p = texts[k][o]
      OBVIOUS
    <3>2. p = <<bs[j], i>>
      BY <2>2, <2>3, <3>1
    <3>3. p[1] \in Range(bs)
      BY <3>2 DEF Range
    <3>. QED
      BY <3>1, <3>2, <3>3
  <2>. QED
    BY <1>3, <1>10, <2>4
<1>8. ASSUME IdsHaveRoom PROVE IdsDiffer(made)
  <2>1. ASSUME NEW k \in DOMAIN made, NEW l \in DOMAIN made, k # l
        PROVE  NodeId(made[k]) # NodeId(made[l])
    <3>1. PICK a : a = chunks[k]
      OBVIOUS
    <3>2. PICK b : b = chunks[l]
      OBVIOUS
    <3>3. k \in DOMAIN chunks /\ l \in DOMAIN chunks
      BY <1>3, <1>9
    <3>4. a \in Seq(Pieces) /\ b \in Seq(Pieces) /\ a # <<>> /\ b # <<>> /\ a[1] # b[1]
      BY <1>1, <2>1, <3>1, <3>2, <3>3
    <3>5. made[k].text = prefix \o a
      BY <1>2, <1>9, <3>1, <3>3 DEF Prefixed
    <3>6. made[l].text = prefix \o b
      BY <1>2, <1>9, <3>2, <3>3 DEF Prefixed
    <3>7. Len(prefix) < IdLength
      BY <1>8
    <3>. QED
      BY <3>4, <3>5, <3>6, <3>7, BeginningsDiffer
  <2>. QED
    BY <2>1 DEF IdsDiffer
<1>. QED
  BY <1>7, <1>8, <1>9 DEF OfWindows

(* What the nodes of a flushed section are.                                 *)
Fresh(made, from, here) ==
  Sound(made, from, here) /\ (IdsHaveRoom => IdsDiffer(made) /\ ParentsIn(made, made))

Keeps(made) ==
  \A k \in DOMAIN group : document[group[k]].type \in Served =>
    \A i \in DOMAIN Text(group[k]) : Holds(made, <<group[k], i>>)

LEMMA PlainWindowNodes ==
  ASSUME ChunkTypeOK, InHand, IdLength \in Nat,
         NEW type \in {"paragraph", "ocr"}, NEW bs \in Seq(DOMAIN document), Ascends(bs),
         NEW here \in Seq(Nat),
         NEW made, made = Nodes(type, bs, SplitText(Joined(bs)), here, <<>>)
  PROVE  OfWindows(made, type, bs, here, <<>>)
<1>1. document \in Seq(Block) /\ setting \in Setting
  BY DEF ChunkTypeOK
<1>2. PICK prefix : prefix = <<>>
  OBVIOUS
<1>3. PICK chunks : chunks = SplitText(Joined(bs))
  OBVIOUS
<1>4. PICK texts : texts = [k \in DOMAIN chunks |-> prefix \o chunks[k]]
  OBVIOUS
<1>5. chunks \in Seq(Seq(Pieces))
  BY <1>1, <1>3, SplitJoined
<1>6. texts = chunks
  <2>1. PICK n \in Nat : DOMAIN chunks = 1 .. n
    BY <1>5
  <2>2. ASSUME NEW k \in 1 .. n PROVE texts[k] = chunks[k]
    <3>1. PICK c : c = chunks[k]
      OBVIOUS
    <3>2. c \in Seq(Pieces) /\ texts[k] = prefix \o c
      BY <1>4, <1>5, <2>1, <3>1
    <3>3. <<>> \o c = c
      BY <3>2
    <3>. QED
      BY <1>2, <3>1, <3>2, <3>3
  <2>3. chunks = [k \in 1 .. n |-> chunks[k]] /\ texts = [k \in 1 .. n |-> texts[k]]
    BY <1>4, <1>5, <2>1
  <2>. QED
    BY <2>2, <2>3
<1>7. prefix \in Seq(Pieces) /\ DOMAIN prefix = {} /\ Len(prefix) = 0
  BY <1>2, EmptySeq
<1>8. ASSUME IdsHaveRoom PROVE Len(prefix) < IdLength
  <2>1. Joined(path) \in Seq(Pieces) /\ Len(Joined(path)) < IdLength
    BY <1>8, PathHasRoom
  <2>2. Len(Joined(path)) \in Nat
    BY <2>1
  <2>. QED
    BY <1>7, <2>1, <2>2
<1>9. made = Nodes(type, bs, texts, here, <<>>)
  BY <1>3, <1>6
<1>10. PICK parent : parent = <<>>
  OBVIOUS
<1>11. OfWindows(made, type, bs, here, parent)
  <2>1. parent \in {<<>>} \cup ParentId /\ made = Nodes(type, bs, texts, here, parent)
    BY <1>9, <1>10
  <2>2. \A i \in DOMAIN prefix : prefix[i][1] \in Of({"heading"})
    BY <1>7
  <2>. QED
    BY <1>1, <1>3, <1>4, <1>7, <1>8, <2>1, <2>2, WindowNodes
<1>. QED
  BY <1>10, <1>11

(* table_aware                                                              *)
LEMMA ParagraphsFlushed ==
  ASSUME ChunkTypeOK, InHand, IdLength \in Nat, setting.chunker = "table_aware",
         NEW made, made = Flushed(path)
  PROVE  Fresh(made, Range(group), path) /\ Keeps(made)
<1>1. made = Nodes("paragraph", group, SplitText(Joined(group)), path, <<>>)
  BY DEF Flushed
<1>2. group \in Seq(DOMAIN document) /\ Ascends(group) /\ path \in Seq(Nat)
  BY InHandLists DEF ChunkTypeOK
<1>3. OfWindows(made, "paragraph", group, path, <<>>)
  BY <1>1, <1>2, PlainWindowNodes
<1>4. \A k \in DOMAIN made : made[k].parent = <<>>
  BY <1>3 DEF OfWindows
<1>5. ParentsIn(made, made)
  BY <1>4 DEF ParentsIn
<1>. QED
  BY <1>3, <1>5 DEF OfWindows, Fresh, Keeps

(* ocr_page                                                                 *)
LEMMA PageBlocks ==
  ASSUME ChunkTypeOK, InHand, NEW p, NEW bs, bs = OnPage(p)
  PROVE  /\ bs \in Seq(DOMAIN document) /\ Ascends(bs) /\ Range(bs) \subseteq Range(group)
         /\ \A j \in DOMAIN bs : document[bs[j]].page = p
         /\ \A k \in DOMAIN group : document[group[k]].page = p => \E j \in DOMAIN bs : bs[j] = group[k]
<1>1. PICK S : S = {b \in DOMAIN document : document[b].page = p}
  OBVIOUS
<1>2. bs = Among(group, S)
  BY <1>1 DEF OnPage
<1>3. /\ bs \in Seq(DOMAIN document) /\ Ascends(bs) /\ Range(bs) \subseteq Range(group) \cap S
      /\ \A k \in DOMAIN group : group[k] \in S => \E j \in DOMAIN bs : bs[j] = group[k]
  BY <1>2, AmongGroup
<1>4. \A k \in DOMAIN group : group[k] \in DOMAIN document
  BY InHandLists
<1>5. \A j \in DOMAIN bs : document[bs[j]].page = p
  BY <1>1, <1>3 DEF Range
<1>. QED
  BY <1>1, <1>3, <1>4, <1>5

LEMMA PagesFlushed ==
  ASSUME ChunkTypeOK, InHand, IdLength \in Nat, setting.chunker = "ocr_page",
         NEW made, made = Flushed(path)
  PROVE  Fresh(made, Range(group), <<>>) /\ Keeps(made)
<1>1. PICK P : P = {document[b].page : b \in Range(group)}
  OBVIOUS
<1>2. PICK pages : pages = Ascending(P)
  OBVIOUS
<1>3. PICK parts : parts = [k \in DOMAIN pages |->
        Nodes("ocr", OnPage(pages[k]), SplitText(Joined(OnPage(pages[k]))), <<>>, <<>>)]
  OBVIOUS
<1>4. made = Chained(parts)
  BY <1>1, <1>2, <1>3 DEF Flushed, PageNodes
<1>5. PICK g : g = group
  OBVIOUS
<1>6. g \in Seq(DOMAIN document) /\ document \in Seq(Block)
  BY <1>5, InHandLists
<1>7. IsFiniteSet(P) /\ P \subseteq Int /\ \A k \in DOMAIN g : document[g[k]].page \in P
  <2>1. PICK n \in Nat : DOMAIN g = 1 .. n
    BY <1>6
  <2>2. PICK f : f = [k \in 1 .. n |-> document[g[k]].page]
    OBVIOUS
  <2>3. \A k \in 1 .. n : g[k] \in Range(group) /\ g[k] \in DOMAIN document
    BY <1>5, <1>6, <2>1 DEF Range
  <2>4. \A k \in 1 .. n : f[k] \in P /\ f[k] \in Nat
    BY <1>1, <1>6, <2>2, <2>3, BlockFields
  <2>5. \A p \in P : \E k \in 1 .. n : f[k] = p
    BY <1>1, <1>5, <2>1, <2>2 DEF Range
  <2>6. f \in Surjection(1 .. n, P)
    BY <2>2, <2>4, <2>5 DEF Surjection
  <2>7. IsFiniteSet(1 .. n)
    BY FS_Interval
  <2>8. IsFiniteSet(P)
    BY <2>6, <2>7, FS_Surjection
  <2>. QED
    BY <2>1, <2>2, <2>4, <2>5, <2>8
<1>8. PICK c : c = Cardinality(P)
  OBVIOUS
<1>9. /\ c \in Nat /\ pages \in [1 .. c -> P]
      /\ \A k, l \in 1 .. c : pages[k] = pages[l] => k = l
      /\ \A n \in P : \E k \in 1 .. c : pages[k] = n
  BY <1>2, <1>7, <1>8, AscendingNumbers
<1>10. DOMAIN parts = 1 .. c
  BY <1>3, <1>9
<1>11. ASSUME NEW k \in 1 .. c
       PROVE  /\ OfWindows(parts[k], "ocr", OnPage(pages[k]), <<>>, <<>>)
  <2>1. PICK bs : bs = OnPage(pages[k])
    OBVIOUS
  <2>2. bs \in Seq(DOMAIN document) /\ Ascends(bs)
    BY <2>1, PageBlocks
  <2>3. PICK part : part = parts[k]
    OBVIOUS
  <2>4. part = Nodes("ocr", bs, SplitText(Joined(bs)), <<>>, <<>>)
    BY <1>3, <1>9, <2>1, <2>3
  <2>5. <<>> \in Seq(Nat)
    BY EmptySeq
  <2>6. OfWindows(part, "ocr", bs, <<>>, <<>>)
    BY <2>2, <2>4, <2>5, PlainWindowNodes
  <2>. QED
    BY <2>1, <2>3, <2>6
<1>12. ASSUME NEW k \in 1 .. c
       PROVE  Sound(parts[k], Range(group), <<>>)
  <2>1. PICK bs : bs = OnPage(pages[k])
    OBVIOUS
  <2>2. Range(bs) \subseteq Range(group)
    BY <2>1, PageBlocks
  <2>3. Sound(parts[k], Range(bs), <<>>)
    BY <1>11, <2>1 DEF OfWindows
  <2>. QED
    BY <2>2, <2>3, SoundWider
<1>13. parts \in Seq(Seq(Node))
  <2>1. \A k \in 1 .. c : parts[k] \in Seq(Node)
    BY <1>12 DEF Sound
  <2>2. parts = [k \in 1 .. c |-> parts[k]]
    BY <1>3, <1>10
  <2>. QED
    BY <1>9, <2>1, <2>2
<1>14. /\ made \in Seq(Node)
       /\ \A k \in DOMAIN parts : \A i \in DOMAIN parts[k] :
            \E j \in DOMAIN made : made[j] = parts[k][i]
       /\ \A j \in DOMAIN made :
            \E k \in DOMAIN parts : \E i \in DOMAIN parts[k] : made[j] = parts[k][i]
  BY <1>4, <1>13, ChainedElements
<1>15. ASSUME NEW j \in DOMAIN made PROVE SoundNode(made[j], Range(group), <<>>) /\ made[j].parent = <<>>
  <2>1. PICK k \in 1 .. c : \E i \in DOMAIN parts[k] : made[j] = parts[k][i]
    BY <1>10, <1>14
  <2>2. PICK i \in DOMAIN parts[k] : made[j] = parts[k][i]
    BY <2>1
  <2>3. SoundNode(parts[k][i], Range(group), <<>>)
    BY <1>12 DEF Sound
  <2>4. parts[k][i].parent = <<>>
    BY <1>11 DEF OfWindows
  <2>. QED
    BY <2>2, <2>3, <2>4
<1>16. Sound(made, Range(group), <<>>) /\ ParentsIn(made, made)
  BY <1>14, <1>15 DEF Sound, ParentsIn
<1>17. Keeps(made)
  <2>1. ASSUME NEW k \in DOMAIN group, NEW i \in DOMAIN Text(group[k])
        PROVE  Holds(made, <<group[k], i>>)
    <3>1. PICK m \in 1 .. c : pages[m] = document[group[k]].page
      BY <1>5, <1>7, <1>9
    <3>2. PICK bs : bs = OnPage(pages[m])
      OBVIOUS
    <3>3. PICK j \in DOMAIN bs : bs[j] = group[k]
      BY <3>1, <3>2, PageBlocks
    <3>4. Holds(parts[m], <<group[k], i>>)
      BY <1>11, <3>2, <3>3 DEF OfWindows
    <3>5. PICK p : p = <<group[k], i>>
      OBVIOUS
    <3>6. PICK n \in DOMAIN parts[m] : /\ parts[m][n].type # "section" /\ p[1] \in Range(parts[m][n].blocks)
                                       /\ p \in Range(parts[m][n].text)
      BY <3>4, <3>5 DEF Holds
    <3>7. PICK o \in DOMAIN made : made[o] = parts[m][n]
      BY <1>10, <1>14
    <3>8. Holds(made, p)
      BY <3>6, <3>7 DEF Holds
    <3>. QED
      BY <3>5, <3>8
  <2>. QED
    BY <2>1 DEF Keeps
<1>18. ASSUME IdsHaveRoom PROVE IdsDiffer(made)
  <2>1. ASSUME NEW i \in DOMAIN made, NEW j \in DOMAIN made, NodeId(made[i]) = NodeId(made[j])
        PROVE  i = j
    <3>1. /\ \A k \in DOMAIN parts : \A n \in DOMAIN parts[k] :
              /\ Len(Chain(parts)[k - 1]) + n \in DOMAIN Chained(parts)
              /\ Chained(parts)[Len(Chain(parts)[k - 1]) + n] = parts[k][n]
          /\ \A m \in DOMAIN Chained(parts) :
              \E k \in DOMAIN parts : \E n \in DOMAIN parts[k] : m = Len(Chain(parts)[k - 1]) + n
      BY <1>13, ChainPlaces
    <3>2. PICK k \in 1 .. c : \E n \in DOMAIN parts[k] : i = Len(Chain(parts)[k - 1]) + n
      BY <1>4, <1>10, <3>1, SMTT(30)
    <3>3. PICK n \in DOMAIN parts[k] : i = Len(Chain(parts)[k - 1]) + n
      BY <3>2
    <3>4. PICK l \in 1 .. c : \E o \in DOMAIN parts[l] : j = Len(Chain(parts)[l - 1]) + o
      BY <1>4, <1>10, <3>1, SMTT(30)
    <3>5. PICK o \in DOMAIN parts[l] : j = Len(Chain(parts)[l - 1]) + o
      BY <3>4
    <3>6. made[i] = parts[k][n]
      BY <1>4, <1>10, <3>1, <3>3
    <3>7. made[j] = parts[l][o]
      BY <1>4, <1>10, <3>1, <3>5
    <3>8. made[i].blocks = OnPage(pages[k]) /\ made[j].blocks = OnPage(pages[l])
      BY <1>11, <3>6, <3>7 DEF OfWindows
    <3>9. PICK bs : bs = made[i].blocks
      OBVIOUS
    <3>10. bs = OnPage(pages[k]) /\ bs = OnPage(pages[l])
      BY <2>1, <3>8, <3>9, IdFields
    <3>11. bs # <<>> /\ bs \in Seq(DOMAIN document)
      <4>1. bs # <<>>
        BY <1>15, <3>9 DEF SoundNode
      <4>. QED
        BY <3>10, <4>1, PageBlocks
    <3>12. 1 \in DOMAIN bs
      BY <3>11
    <3>13. document[bs[1]].page = pages[k] /\ document[bs[1]].page = pages[l]
      <4>1. PICK p : p = pages[k]
        OBVIOUS
      <4>2. PICK q : q = pages[l]
        OBVIOUS
      <4>3. bs = OnPage(p) /\ bs = OnPage(q)
        BY <3>10, <4>1, <4>2
      <4>4. \A m \in DOMAIN bs : document[bs[m]].page = p
        BY <4>3, PageBlocks
      <4>5. \A m \in DOMAIN bs : document[bs[m]].page = q
        BY <4>3, PageBlocks
      <4>. QED
        BY <3>12, <4>1, <4>2, <4>4, <4>5
    <3>14. k = l
      BY <1>9, <3>13
    <3>15. n = o
      BY <1>11, <1>18, <2>1, <3>6, <3>7, <3>14 DEF OfWindows, IdsDiffer
    <3>. QED
      BY <3>3, <3>5, <3>14, <3>15
  <2>. QED
    BY <2>1 DEF IdsDiffer
<1>. QED
  BY <1>16, <1>17, <1>18 DEF Fresh

(* section_aware                                                            *)
IsTableNode(n, b, text, here, parent) ==
  /\ n \in Node /\ SoundNode(n, {b}, here)
  /\ n.type = "table" /\ n.blocks = <<b>> /\ n.text = text /\ n.parent = parent

LEMMA TableNode ==
  ASSUME document \in Seq(Block), NEW b \in DOMAIN document, NEW text \in Seq(Pieces),
         \A i \in DOMAIN text : text[i][1] \in {b} \cup Of({"heading"}),
         NEW here \in Seq(Nat), NEW parent \in {<<>>} \cup ParentId,
         NEW n, n = MakeNode("table", <<b>>, text, here, parent)
  PROVE  IsTableNode(n, b, text, here, parent)
<1>1. b \in Nat /\ document[b].hint \in Seq(Nat)
  BY BlockFields
<1>2. PICK bs : bs = <<b>>
  OBVIOUS
<1>3. bs \in Seq(Nat) /\ bs # <<>> /\ bs[1] = b /\ DOMAIN bs = {1}
  BY <1>1, <1>2
<1>4. Range(bs) = {b}
  BY <1>3 DEF Range
<1>5. n = [type |-> "table", blocks |-> bs, text |-> text, parent |-> parent,
           path |-> IF document[b].hint # <<>> THEN document[b].hint ELSE here]
  BY <1>2, <1>3 DEF MakeNode
<1>6. n \in Node
  BY <1>1, <1>3, <1>5 DEF Node
<1>7. SoundNode(n, {b}, here)
  BY <1>3, <1>4, <1>5 DEF SoundNode
<1>. QED
  BY <1>2, <1>5, <1>6, <1>7 DEF IsTableNode

TableNodes(tables, prefix, here, parent) ==
  [k \in DOMAIN tables |-> MakeNode("table", <<tables[k]>>, prefix \o Text(tables[k]), here, parent)]

OfTables(made, tables, here, parent) ==
  /\ Sound(made, Range(tables), here)
  /\ \A k \in DOMAIN made : /\ made[k].type = "table" /\ k \in DOMAIN tables
                            /\ made[k].blocks = <<tables[k]>> /\ made[k].parent = parent
  /\ \A j \in DOMAIN tables : \A i \in DOMAIN Text(tables[j]) : Holds(made, <<tables[j], i>>)
  /\ IdsDiffer(made)

LEMMA TablesSound ==
  ASSUME document \in Seq(Block), NEW tables \in Seq(DOMAIN document), Ascends(tables),
         NEW prefix \in Seq(Pieces), \A i \in DOMAIN prefix : prefix[i][1] \in Of({"heading"}),
         NEW here \in Seq(Nat), NEW parent \in {<<>>} \cup ParentId,
         NEW made, made = TableNodes(tables, prefix, here, parent)
  PROVE  OfTables(made, tables, here, parent)
<1>1. DOMAIN made = DOMAIN tables
  BY DEF TableNodes
<1>2. PICK size \in Nat : size = Len(tables) /\ DOMAIN tables = 1 .. size
  OBVIOUS
<1>3. ASSUME NEW k \in DOMAIN tables
      PROVE  /\ made[k] \in Node /\ SoundNode(made[k], {tables[k]}, here)
             /\ made[k].type = "table" /\ made[k].blocks = <<tables[k]>> /\ made[k].parent = parent
             /\ \A i \in DOMAIN Text(tables[k]) : <<tables[k], i>> \in Range(made[k].text)
  <2>1. PICK b \in DOMAIN document : b = tables[k]
    OBVIOUS
  <2>2. PICK a : a = Text(b)
    OBVIOUS
  <2>3. PICK t : t = prefix \o a
    OBVIOUS
  <2>4. PICK n : n = made[k]
    OBVIOUS
  <2>5. n = MakeNode("table", <<b>>, t, here, parent)
    BY <2>1, <2>2, <2>3, <2>4 DEF TableNodes
  <2>6. a \in Seq(Pieces) /\ \A i \in DOMAIN a : a[i] = <<b, i>>
    BY <2>2, TextPieces
  <2>7. \A i \in DOMAIN a : a[i][1] \in {b}
    BY <2>6
  <2>8. Prefixed(t, prefix, a, {b})
    BY <2>3, <2>6, <2>7, PrefixedText
  <2>9. t \in Seq(Pieces) /\ \A i \in DOMAIN t : t[i][1] \in {b} \cup Of({"heading"})
    BY <2>8 DEF Prefixed
  <2>10. IsTableNode(n, b, t, here, parent)
    BY <2>5, <2>9, TableNode
  <2>11. ASSUME NEW i \in DOMAIN a PROVE <<b, i>> \in Range(t)
    BY <2>6, <2>8 DEF Prefixed, Range
  <2>. QED
    BY <2>1, <2>2, <2>4, <2>10, <2>11 DEF IsTableNode
<1>4. made \in Seq(Node)
  <2>1. PICK m : m = made
    OBVIOUS
  <2>2. m = [k \in 1 .. size |-> m[k]]
    BY <1>2, <2>1 DEF TableNodes
  <2>3. \A k \in 1 .. size : m[k] \in Node
    BY <1>2, <1>3, <2>1
  <2>4. m \in Seq(Node)
    BY <2>2, <2>3, IsList
  <2>. QED
    BY <2>1, <2>4
<1>5. ASSUME NEW k \in DOMAIN tables PROVE SoundNode(made[k], Range(tables), here)
  <2>1. SoundNode(made[k], {tables[k]}, here)
    BY <1>3
  <2>2. {tables[k]} \subseteq Range(tables)
    BY DEF Range
  <2>. QED
    BY <2>1, <2>2 DEF SoundNode
<1>6. ASSUME NEW j \in DOMAIN tables, NEW i \in DOMAIN Text(tables[j]) PROVE Holds(made, <<tables[j], i>>)
  <2>1. PICK p : p = <<tables[j], i>>
    OBVIOUS
  <2>2. PICK n : n = made[j]
    OBVIOUS
  <2>3. n.type # "section" /\ p \in Range(n.text) /\ n.blocks = <<tables[j]>> /\ p[1] = tables[j]
    BY <1>3, <2>1, <2>2
  <2>4. p[1] \in Range(n.blocks)
    BY <2>3 DEF Range
  <2>5. Holds(made, p)
    BY <1>1, <2>2, <2>3, <2>4 DEF Holds
  <2>. QED
    BY <2>1, <2>5
<1>7. ASSUME NEW j \in DOMAIN tables, NEW k \in DOMAIN tables, NodeId(made[j]) = NodeId(made[k]) PROVE j = k
  <2>1. made[j].blocks = made[k].blocks
    BY <1>7, IdFields
  <2>2. <<tables[j]>> = <<tables[k]>>
    BY <1>3, <2>1
  <2>3. PICK x : x = tables[j]
    OBVIOUS
  <2>4. PICK y : y = tables[k]
    OBVIOUS
  <2>5. <<x>> = <<y>>
    BY <2>2, <2>3, <2>4
  <2>6. x = y
    BY <2>5
  <2>7. x \in DOMAIN document /\ DOMAIN document \subseteq Int
    BY <2>3
  <2>8. ~(j < k) /\ ~(k < j)
    <3>1. ~(x < y) /\ ~(y < x)
      BY <2>6, <2>7
    <3>2. (j < k => x < y) /\ (k < j => y < x)
      BY <2>3, <2>4 DEF Ascends
    <3>. QED
      BY <3>1, <3>2
  <2>9. j \in Int /\ k \in Int
    BY <1>2
  <2>. QED
    BY <2>8, <2>9
<1>8. Sound(made, Range(tables), here)
  BY <1>1, <1>4, <1>5 DEF Sound
<1>9. IdsDiffer(made)
  BY <1>1, <1>7 DEF IdsDiffer
<1>. QED
  BY <1>1, <1>3, <1>6, <1>8, <1>9 DEF OfTables

LEMMA LeastOf ==
  ASSUME NEW a \in Nat, NEW b \in Nat
  PROVE  Least(a, b) \in Nat /\ Least(a, b) <= a /\ Least(a, b) <= b
BY DEF Least

LEMMA HeadingPieces ==
  ASSUME ChunkTypeOK, InHand
  PROVE  Joined(path) \in Seq(Pieces) /\ \A j \in DOMAIN Joined(path) : Joined(path)[j][1] \in Of({"heading"})
<1>1. /\ path \in Seq(DOMAIN document) /\ document \in Seq(Block)
      /\ \A k \in DOMAIN path : path[k] \in Of({"heading"})
  BY InHandLists DEF InHand
<1>2. /\ Joined(path) \in Seq(Pieces)
      /\ \A j \in DOMAIN Joined(path) :
           \E k \in DOMAIN path : \E i \in DOMAIN Text(path[k]) : Joined(path)[j] = <<path[k], i>>
  BY <1>1, JoinedPieces
<1>3. ASSUME NEW j \in DOMAIN Joined(path) PROVE Joined(path)[j][1] \in Of({"heading"})
  <2>1. PICK k \in DOMAIN path : \E i \in DOMAIN Text(path[k]) : Joined(path)[j] = <<path[k], i>>
    BY <1>2
  <2>. QED
    BY <1>1, <2>1
<1>. QED
  BY <1>2, <1>3

(* The parent of a section, if one is asked for.                            *)
IsWhole(parents, parent, here) ==
  /\ Sound(parents, Range(group), here) /\ Len(parents) <= 1
  /\ \A k \in DOMAIN parents : parents[k].type = "section" /\ parents[k].blocks = group
                               /\ parents[k].parent = <<>>
  /\ parent \in {<<>>} \cup ParentId
  /\ parent # <<>> => 1 \in DOMAIN parents /\ NodeId(parents[1]) = parent

LEMMA WholeSection ==
  ASSUME ChunkTypeOK, InHand, NEW texts, texts = Among(group, Of({"text", "ocr"})),
         NEW whole, whole = IF setting.parents /\ texts # <<>> THEN <<Joined(path) \o Joined(texts)>> ELSE <<>>,
         NEW parents, parents = Nodes("section", group, whole, path, <<>>),
         NEW parent, parent = IF parents = <<>> THEN <<>> ELSE NodeId(parents[1])
  PROVE  IsWhole(parents, parent, path)
<1>1. /\ document \in Seq(Block) /\ group \in Seq(DOMAIN document) /\ path \in Seq(Nat) /\ group \in Seq(Nat)
  BY InHandLists DEF ChunkTypeOK
<1>2. texts \in Seq(DOMAIN document) /\ Range(texts) \subseteq Range(group)
  BY AmongGroup
<1>3. PICK a : a = Joined(path)
  OBVIOUS
<1>4. PICK b : b = Joined(texts)
  OBVIOUS
<1>5. PICK t : t = a \o b
  OBVIOUS
<1>6. a \in Seq(Pieces) /\ \A i \in DOMAIN a : a[i][1] \in Of({"heading"})
  BY <1>3, HeadingPieces
<1>7. /\ b \in Seq(Pieces)
      /\ \A j \in DOMAIN b : \E k \in DOMAIN texts : \E i \in DOMAIN Text(texts[k]) : b[j] = <<texts[k], i>>
  BY <1>1, <1>2, <1>4, JoinedPieces
<1>8. \A j \in DOMAIN b : b[j][1] \in Range(group)
  <2>1. ASSUME NEW j \in DOMAIN b PROVE b[j][1] \in Range(group)
    <3>1. PICK k \in DOMAIN texts : \E i \in DOMAIN Text(texts[k]) : b[j] = <<texts[k], i>>
      BY <1>7
    <3>2. b[j][1] = texts[k] /\ texts[k] \in Range(texts)
      BY <3>1 DEF Range
    <3>. QED
      BY <1>2, <3>2
  <2>. QED
    BY <2>1
<1>9. Prefixed(t, a, b, Range(group))
  BY <1>5, <1>6, <1>7, <1>8, PrefixedText
<1>10. t \in Seq(Pieces) /\ \A i \in DOMAIN t : t[i][1] \in Range(group) \cup Of({"heading"})
  BY <1>9 DEF Prefixed
<1>11. \/ whole = <<t>> /\ texts # <<>>
       \/ whole = <<>>
  BY <1>3, <1>4, <1>5
<1>12. /\ whole \in Seq(Seq(Pieces)) /\ Len(whole) <= 1
       /\ \A k \in DOMAIN whole : whole[k] = t
  <2>1. PICK w : w = whole
    OBVIOUS
  <2>2. w = <<t>> \/ w = <<>>
    BY <1>11, <2>1
  <2>3. <<t>> \in Seq(Seq(Pieces)) /\ Len(<<t>>) = 1 /\ DOMAIN <<t>> = {1} /\ <<t>>[1] = t
    BY <1>10
  <2>4. <<>> \in Seq(Seq(Pieces)) /\ Len(<<>>) = 0 /\ DOMAIN <<>> = {}
    BY EmptySeq
  <2>5. w \in Seq(Seq(Pieces)) /\ Len(w) <= 1
    <3>1. w \in Seq(Seq(Pieces))
      BY <2>2, <2>3, <2>4, Zenon
    <3>2. Len(w) = 1 \/ Len(w) = 0
      BY <2>2, <2>3, <2>4, Zenon
    <3>3. 1 <= 1 /\ 0 <= 1
      OBVIOUS
    <3>4. Len(w) <= 1
      BY <3>2, <3>3, Zenon
    <3>. QED
      BY <3>1, <3>4, Zenon
  <2>6. \A k \in DOMAIN w : w[k] = t
    BY <2>2, <2>3, <2>4
  <2>. QED
    BY <2>1, <2>5, <2>6
<1>13. group = <<>> => whole = <<>>
  <2>1. SUFFICES ASSUME group = <<>>, texts # <<>> PROVE FALSE
    BY <1>11
  <2>2. 1 \in DOMAIN texts
    BY <1>2, <2>1
  <2>3. Range(group) = {}
    BY <2>1 DEF Range
  <2>. QED
    BY <1>2, <2>2, <2>3 DEF Range
<1>14. \A k \in DOMAIN whole : \A i \in DOMAIN whole[k] :
         whole[k][i][1] \in Range(group) \cup Of({"heading"})
  BY <1>10, <1>12
<1>15. OfTexts(parents, "section", group, whole, path, <<>>)
  <2>1. PICK none : none = <<>>
    OBVIOUS
  <2>2. none \in {<<>>} \cup ParentId /\ parents = Nodes("section", group, whole, path, none)
    BY <2>1
  <2>3. PICK section \in {"section", "paragraph", "table", "ocr"} : section = "section"
    OBVIOUS
  <2>4. OfTexts(parents, section, group, whole, path, none)
    BY <1>1, <1>12, <1>13, <1>14, <2>2, <2>3, NodesSound
  <2>. QED
    BY <2>1, <2>3, <2>4
<1>16. /\ Sound(parents, Range(group), path) /\ Len(parents) <= 1
       /\ \A k \in DOMAIN parents : parents[k].type = "section" /\ parents[k].blocks = group
                                    /\ parents[k].parent = <<>>
  BY <1>12, <1>15 DEF OfTexts
<1>17. CASE parents = <<>>
  BY <1>16, <1>17 DEF IsWhole, Sound
<1>18. CASE parents # <<>>
  <2>1. parents \in Seq(Node)
    BY <1>16 DEF Sound
  <2>2. 1 \in DOMAIN parents /\ parents[1] \in Node
    BY <1>18, <2>1
  <2>3. PICK p : p = parents[1]
    OBVIOUS
  <2>4. p \in Node /\ p.type = "section" /\ parent = NodeId(p) /\ p.text \in Seq(Pieces) /\ p.blocks \in Seq(Nat)
    BY <1>16, <1>18, <2>2, <2>3 DEF Node
  <2>5. SubSeq(p.text, 1, Least(IdLength, Len(p.text))) \in Seq(Pieces)
    <3>1. PICK x \in Seq(Pieces) : x = p.text
      BY <2>4
    <3>2. PICK n : n = Least(IdLength, Len(x))
      OBVIOUS
    <3>3. IdLength \in Nat /\ Len(x) \in Nat /\ DOMAIN x = 1 .. Len(x)
      BY ChunksAssumption
    <3>4. n \in Nat /\ n <= Len(x)
      BY <3>2, <3>3, LeastOf
    <3>5. SubSeq(x, 1, n) \in Seq(Pieces)
      BY <3>3, <3>4
    <3>. QED
      BY <3>1, <3>2, <3>5
  <2>6. parent \in ParentId
    <3>1. PICK id : id = SubSeq(p.text, 1, Least(IdLength, Len(p.text)))
      OBVIOUS
    <3>2. PICK bs : bs = p.blocks
      OBVIOUS
    <3>3. parent = <<"section", bs, id>>
      BY <2>4, <3>1, <3>2 DEF NodeId
    <3>4. bs \in Seq(Nat) /\ id \in Seq(Pieces)
      BY <2>4, <2>5, <3>1, <3>2
    <3>. QED
      BY <3>3, <3>4 DEF ParentId
  <2>. QED
    BY <1>16, <2>2, <2>3, <2>4, <2>6 DEF IsWhole
<1>. QED
  BY <1>17, <1>18

LEMMA SectionFlushed ==
  ASSUME ChunkTypeOK, InHand, IdLength \in Nat, setting.chunker = "section_aware",
         NEW made, made = Flushed(path)
  PROVE  Fresh(made, Range(group), path) /\ Keeps(made)
<1>1. PICK texts : texts = Among(group, Of({"text", "ocr"}))
  OBVIOUS
<1>2. PICK tables : tables = Among(group, Of({"table"}))
  OBVIOUS
<1>3. PICK whole : whole = IF setting.parents /\ texts # <<>> THEN <<Joined(path) \o Joined(texts)>> ELSE <<>>
  OBVIOUS
<1>4. PICK parents : parents = Nodes("section", group, whole, path, <<>>)
  OBVIOUS
<1>5. PICK parent : parent = IF parents = <<>> THEN <<>> ELSE NodeId(parents[1])
  OBVIOUS
<1>6. PICK prefix : prefix = IF parents = <<>> THEN Joined(path) ELSE <<>>
  OBVIOUS
<1>7. PICK chunks : chunks = SplitText(Joined(texts))
  OBVIOUS
<1>8. PICK cut : cut = [k \in DOMAIN chunks |-> prefix \o chunks[k]]
  OBVIOUS
<1>9. PICK children : children = Nodes("paragraph", texts, cut, path, parent)
  OBVIOUS
<1>10. PICK apart : apart = TableNodes(tables, prefix, path, parent)
  OBVIOUS
<1>11. made = (parents \o children) \o apart
  BY <1>1, <1>2, <1>3, <1>4, <1>5, <1>6, <1>7, <1>8, <1>9, <1>10 DEF Flushed, SectionNodes, TableNodes
<1>12. /\ document \in Seq(Block) /\ setting \in Setting /\ path \in Seq(Nat)
  BY DEF ChunkTypeOK
<1>13. /\ texts \in Seq(DOMAIN document) /\ Ascends(texts) /\ Range(texts) \subseteq Range(group)
       /\ \A k \in DOMAIN group : group[k] \in Of({"text", "ocr"}) => \E j \in DOMAIN texts : texts[j] = group[k]
  BY <1>1, AmongGroup
<1>14. /\ tables \in Seq(DOMAIN document) /\ Ascends(tables) /\ Range(tables) \subseteq Range(group)
       /\ \A k \in DOMAIN group : group[k] \in Of({"table"}) => \E j \in DOMAIN tables : tables[j] = group[k]
  BY <1>2, AmongGroup
<1>15. IsWhole(parents, parent, path)
  BY <1>1, <1>3, <1>4, <1>5, WholeSection
<1>16. /\ prefix \in Seq(Pieces) /\ \A i \in DOMAIN prefix : prefix[i][1] \in Of({"heading"})
  <2>1. CASE prefix = <<>>
    <3>1. <<>> \in Seq(Pieces) /\ DOMAIN <<>> = {}
      BY EmptySeq
    <3>. QED
      BY <2>1, <3>1
  <2>2. CASE prefix = Joined(path)
    BY <2>2, HeadingPieces
  <2>. QED
    BY <1>6, <2>1, <2>2
<1>17. ASSUME IdsHaveRoom PROVE Len(prefix) < IdLength
  <2>1. Joined(path) \in Seq(Pieces) /\ Len(Joined(path)) < IdLength
    BY <1>17, PathHasRoom
  <2>2. Len(Joined(path)) \in Nat
    BY <2>1
  <2>3. prefix = <<>> => Len(prefix) = 0
    OBVIOUS
  <2>. QED
    BY <1>6, <2>1, <2>2, <2>3
<1>18. parent \in {<<>>} \cup ParentId
  BY <1>15 DEF IsWhole
<1>19. OfWindows(children, "paragraph", texts, path, parent)
  <2>1. PICK paragraph \in {"paragraph", "ocr"} : paragraph = "paragraph"
    OBVIOUS
  <2>2. children = Nodes(paragraph, texts, cut, path, parent)
    BY <1>9, <2>1
  <2>3. OfWindows(children, paragraph, texts, path, parent)
    BY <1>7, <1>8, <1>12, <1>13, <1>16, <1>17, <1>18, <2>2, WindowNodes
  <2>. QED
    BY <2>1, <2>3
<1>20. OfTables(apart, tables, path, parent)
  BY <1>10, <1>12, <1>14, <1>16, <1>18, TablesSound
<1>21. /\ Sound(parents, Range(group), path) /\ Sound(children, Range(group), path)
       /\ Sound(apart, Range(group), path)
  <2>1. Sound(children, Range(texts), path) /\ Sound(apart, Range(tables), path)
    BY <1>19, <1>20 DEF OfWindows, OfTables
  <2>2. Sound(children, Range(group), path)
    BY <1>13, <2>1, SoundWider
  <2>3. Sound(apart, Range(group), path)
    BY <1>14, <2>1, SoundWider
  <2>. QED
    BY <1>15, <2>2, <2>3 DEF IsWhole
<1>22. PICK first : first = parents \o children
  OBVIOUS
<1>23. /\ made = first \o apart /\ Sound(first, Range(group), path) /\ Sound(made, Range(group), path)
       /\ first \in Seq(Node) /\ apart \in Seq(Node) /\ parents \in Seq(Node) /\ children \in Seq(Node)
       /\ made \in Seq(Node)
  BY <1>11, <1>21, <1>22, SoundJoined DEF Sound
<1>24. Keeps(made)
  <2>1. ASSUME NEW k \in DOMAIN group, document[group[k]].type \in Served, NEW i \in DOMAIN Text(group[k])
        PROVE  Holds(made, <<group[k], i>>)
    <3>1. group[k] \in DOMAIN document
      BY InHandLists
    <3>2. document[group[k]].type \in {"text", "ocr", "table"}
      BY <2>1 DEF Served
    <3>3. CASE group[k] \in Of({"text", "ocr"})
      <4>1. PICK j \in DOMAIN texts : texts[j] = group[k]
        BY <1>13, <3>3
      <4>2. Holds(children, <<group[k], i>>)
        BY <1>19, <2>1, <4>1 DEF OfWindows
      <4>3. Holds(first, <<group[k], i>>)
        BY <1>22, <1>23, <4>2, HoldsJoined
      <4>. QED
        BY <1>23, <4>3, HoldsJoined
    <3>4. CASE group[k] \in Of({"table"})
      <4>1. PICK j \in DOMAIN tables : tables[j] = group[k]
        BY <1>14, <3>4
      <4>2. Holds(apart, <<group[k], i>>)
        BY <1>20, <2>1, <4>1 DEF OfTables
      <4>. QED
        BY <1>23, <4>2, HoldsJoined
    <3>. QED
      BY <3>1, <3>2, <3>3, <3>4 DEF Of
  <2>. QED
    BY <2>1 DEF Keeps
<1>25. /\ \A k \in DOMAIN parents : parents[k].type = "section" /\ parents[k].parent = <<>>
       /\ \A k \in DOMAIN children : /\ children[k].type = "paragraph" /\ children[k].parent = parent
                                     /\ Range(children[k].blocks) \subseteq Range(group)
       /\ \A k \in DOMAIN apart : /\ apart[k].type = "table" /\ apart[k].parent = parent
                                  /\ Range(apart[k].blocks) \subseteq Range(group)
  <2>1. \A k \in DOMAIN parents : parents[k].type = "section" /\ parents[k].parent = <<>>
    BY <1>15 DEF IsWhole
  <2>2. \A k \in DOMAIN children : /\ children[k].type = "paragraph" /\ children[k].parent = parent
                                   /\ Range(children[k].blocks) \subseteq Range(group)
    BY <1>19, <1>21 DEF OfWindows, Sound, SoundNode
  <2>3. \A k \in DOMAIN apart : /\ apart[k].type = "table" /\ apart[k].parent = parent
                                /\ Range(apart[k].blocks) \subseteq Range(group)
    BY <1>20, <1>21 DEF OfTables, Sound, SoundNode
  <2>. QED
    BY <2>1, <2>2, <2>3
<1>26. ASSUME IdsHaveRoom PROVE IdsDiffer(made)
  <2>1. IdsDiffer(parents)
    <3>1. \A j, k \in DOMAIN parents : j = k
      <4>1. PICK n \in Nat : n = Len(parents) /\ DOMAIN parents = 1 .. n
        BY <1>23
      <4>2. n <= 1
        BY <1>15, <4>1 DEF IsWhole
      <4>. QED
        BY <4>1, <4>2
    <3>. QED
      BY <3>1 DEF IdsDiffer
  <2>2. IdsDiffer(children) /\ IdsDiffer(apart)
    BY <1>19, <1>20, <1>26 DEF OfWindows, OfTables
  <2>3. \A i \in DOMAIN parents, j \in DOMAIN children : NodeId(parents[i]) # NodeId(children[j])
    BY <1>25, IdFields
  <2>4. IdsDiffer(first)
    BY <1>22, <1>23, <2>1, <2>2, <2>3, IdsJoined
  <2>5. \A i \in DOMAIN first : first[i].type # "table"
    <3>1. \A i \in DOMAIN first :
            \/ i \in DOMAIN parents
            \/ i > Len(parents) /\ i - Len(parents) \in DOMAIN children /\ first[i] = children[i - Len(parents)]
      BY <1>22, <1>23, JoinedElements
    <3>2. \A i \in DOMAIN parents : first[i] = parents[i]
      BY <1>22, <1>23, JoinedElements
    <3>. QED
      BY <1>25, <3>1, <3>2
  <2>6. \A i \in DOMAIN first, j \in DOMAIN apart : NodeId(first[i]) # NodeId(apart[j])
    BY <1>25, <2>5, IdFields
  <2>. QED
    BY <1>23, <2>2, <2>4, <2>6, IdsJoined
<1>27. ParentsIn(made, made)
  <2>1. ASSUME NEW n, n.parent = parent, n.parent # <<>>, Range(n.blocks) \subseteq Range(group)
        PROVE  \E j \in DOMAIN parents : IsParent(parents[j], n)
    <3>1. 1 \in DOMAIN parents /\ NodeId(parents[1]) = parent
      BY <1>15, <2>1 DEF IsWhole
    <3>2. parents[1].type = "section" /\ parents[1].blocks = group
      BY <1>15, <3>1 DEF IsWhole
    <3>. QED
      BY <2>1, <3>1, <3>2 DEF IsParent
  <2>2. ParentsIn(parents, parents) /\ ParentsIn(children, parents) /\ ParentsIn(apart, parents)
    BY <1>25, <2>1 DEF ParentsIn
  <2>5. ParentsIn(first, first)
    BY <1>22, <1>23, <2>2, ParentsJoined
  <2>6. ParentsIn(apart, first)
    <3>1. \A i \in DOMAIN parents : i \in DOMAIN first /\ first[i] = parents[i]
      BY <1>22, <1>23, JoinedElements
    <3>2. ASSUME NEW k \in DOMAIN apart, apart[k].parent # <<>>
          PROVE  \E j \in DOMAIN first : IsParent(first[j], apart[k])
      <4>1. PICK j \in DOMAIN parents : IsParent(parents[j], apart[k])
        BY <2>2, <3>2 DEF ParentsIn
      <4>. QED
        BY <3>1, <4>1
    <3>. QED
      BY <3>2 DEF ParentsIn
  <2>. QED
    BY <1>23, <2>5, <2>6, ParentsJoined
<1>. QED
  BY <1>23, <1>24, <1>26, <1>27 DEF Fresh

-----------------------------------------------------------------------------
(* Rows of tables                                                           *)

(* What a piece of a text costs.                                            *)
PieceCost(p) == document[p[1]].cost[p[2]]

(* The costs of a text add up, piece after piece.                           *)
LEMMA CostSteps ==
  ASSUME NEW text, Len(text) \in Nat
  PROVE  /\ Costs(text)[0] = 0
         /\ \A n \in Nat : n + 1 \in 1 .. Len(text) =>
              Costs(text)[n + 1] = Costs(text)[n] + PieceCost(text[n + 1])
<1>. DEFINE Next1(n, f) == IF n = 0 THEN 0 ELSE f[n - 1] + PieceCost(text[n])
            S == {m \in Nat : \E f : f = [i \in 0 .. m |-> Next1(i, f)]}
            all == CHOOSE f : f = [n \in 0 .. Len(text) |-> Next1(n, f)]
<1>1. 0 \in S
  <2>. DEFINE f == [i \in 0 .. 0 |-> 0]
  <2>1. f = [i \in 0 .. 0 |-> Next1(i, f)]
    OBVIOUS
  <2>. QED
    BY <2>1
<1>2. ASSUME NEW m \in Nat, m \in S PROVE m + 1 \in S
  <2>1. PICK f : f = [i \in 0 .. m |-> Next1(i, f)]
    BY <1>2
  <2>. DEFINE g == [i \in 0 .. m + 1 |-> IF i = m + 1 THEN f[m] + PieceCost(text[m + 1]) ELSE f[i]]
  <2>2. ASSUME NEW i \in 0 .. m + 1 PROVE g[i] = Next1(i, g)
    <3>1. CASE i = m + 1
      BY <3>1
    <3>2. CASE i \in 0 .. m
      <4>1. f[i] = Next1(i, f)
        BY <2>1, <3>2
      <4>2. i # 0 => g[i - 1] = f[i - 1]
        BY <3>2
      <4>. QED
        BY <3>2, <4>1, <4>2
    <3>. QED
      BY <3>1, <3>2
  <2>3. g = [i \in 0 .. m + 1 |-> Next1(i, g)]
    BY <2>2
  <2>. HIDE DEF g
  <2>. HIDE DEF Next1
  <2>4. \E h : h = [i \in 0 .. m + 1 |-> Next1(i, h)]
    BY <2>3
  <2>. QED
    BY <2>4
<1>3. Len(text) \in S
  <2>. HIDE DEF S
  <2>. QED
    BY <1>1, <1>2, SetInduction
<1>4. all = [n \in 0 .. Len(text) |-> Next1(n, all)]
  BY <1>3
<1>5. Costs(text) = all
  BY DEF Costs, PieceCost
<1>. HIDE DEF all
<1>6. all[0] = 0
  BY <1>4
<1>7. \A n \in Nat : n + 1 \in 1 .. Len(text) => all[n + 1] = all[n] + PieceCost(text[n + 1])
  <2>1. ASSUME NEW n \in Nat, n + 1 \in 1 .. Len(text)
        PROVE  all[n + 1] = all[n] + PieceCost(text[n + 1])
    <3>1. n + 1 \in 0 .. Len(text) /\ n + 1 # 0 /\ (n + 1) - 1 = n
      BY <2>1
    <3>2. all[n + 1] = Next1(n + 1, all)
      BY <1>4, <3>1
    <3>. QED
      BY <3>1, <3>2
  <2>. QED
    BY <2>1
<1>. QED
  BY <1>5, <1>6, <1>7

(* Rows are put into the groups one after the other.                        *)
LEMMA RowSteps ==
  ASSUME NEW rows, NEW budget, Len(rows) \in Nat
  PROVE  /\ RowGroups(rows, budget)[0] = <<<<>>>>
         /\ \A n \in Nat : n + 1 \in 1 .. Len(rows) =>
              RowGroups(rows, budget)[n + 1] = WithRow(RowGroups(rows, budget)[n], rows[n + 1], budget)
<1>. DEFINE Next1(n, f) == IF n = 0 THEN <<<<>>>> ELSE WithRow(f[n - 1], rows[n], budget)
            S == {m \in Nat : \E f : f = [i \in 0 .. m |-> Next1(i, f)]}
            all == CHOOSE f : f = [n \in 0 .. Len(rows) |-> Next1(n, f)]
<1>1. 0 \in S
  <2>. DEFINE f == [i \in 0 .. 0 |-> <<<<>>>>]
  <2>1. f = [i \in 0 .. 0 |-> Next1(i, f)]
    OBVIOUS
  <2>. QED
    BY <2>1
<1>2. ASSUME NEW m \in Nat, m \in S PROVE m + 1 \in S
  <2>1. PICK f : f = [i \in 0 .. m |-> Next1(i, f)]
    BY <1>2
  <2>. DEFINE g == [i \in 0 .. m + 1 |-> IF i = m + 1 THEN WithRow(f[m], rows[m + 1], budget) ELSE f[i]]
  <2>2. ASSUME NEW i \in 0 .. m + 1 PROVE g[i] = Next1(i, g)
    <3>1. CASE i = m + 1
      BY <3>1
    <3>2. CASE i \in 0 .. m
      <4>1. f[i] = Next1(i, f)
        BY <2>1, <3>2
      <4>2. i # 0 => g[i - 1] = f[i - 1]
        BY <3>2
      <4>. QED
        BY <3>2, <4>1, <4>2
    <3>. QED
      BY <3>1, <3>2
  <2>3. g = [i \in 0 .. m + 1 |-> Next1(i, g)]
    BY <2>2
  <2>. HIDE DEF g
  <2>. HIDE DEF Next1
  <2>4. \E h : h = [i \in 0 .. m + 1 |-> Next1(i, h)]
    BY <2>3
  <2>. QED
    BY <2>4
<1>3. Len(rows) \in S
  <2>. HIDE DEF S
  <2>. QED
    BY <1>1, <1>2, SetInduction
<1>4. all = [n \in 0 .. Len(rows) |-> Next1(n, all)]
  BY <1>3
<1>5. RowGroups(rows, budget) = all
  BY DEF RowGroups
<1>. HIDE DEF all
<1>6. all[0] = <<<<>>>>
  BY <1>4
<1>7. \A n \in Nat : n + 1 \in 1 .. Len(rows) => all[n + 1] = WithRow(all[n], rows[n + 1], budget)
  <2>1. ASSUME NEW n \in Nat, n + 1 \in 1 .. Len(rows)
        PROVE  all[n + 1] = WithRow(all[n], rows[n + 1], budget)
    <3>1. n + 1 \in 0 .. Len(rows) /\ n + 1 # 0 /\ (n + 1) - 1 = n
      BY <2>1
    <3>2. all[n + 1] = Next1(n + 1, all)
      BY <1>4, <3>1
    <3>. QED
      BY <3>1, <3>2
  <2>. QED
    BY <2>1
<1>. QED
  BY <1>5, <1>6, <1>7

Costed(text) == text \in Seq(Pieces) /\ \A i \in DOMAIN text : PieceCost(text[i]) \in Nat

LEMMA CostPrefix ==
  ASSUME NEW s, NEW t, Len(s) \in Nat, Len(t) \in Nat, NEW n \in Nat, n <= Len(s), n <= Len(t),
         \A k \in 1 .. n : s[k] = t[k]
  PROVE  Costs(s)[n] = Costs(t)[n]
<1>. DEFINE S == {m \in Nat : m <= n => Costs(s)[m] = Costs(t)[m]}
<1>1. 0 \in S
  <2>1. Costs(s)[0] = 0
    BY CostSteps
  <2>2. Costs(t)[0] = 0
    BY CostSteps
  <2>. QED
    BY <2>1, <2>2
<1>2. ASSUME NEW m \in Nat, m \in S PROVE m + 1 \in S
  <2>. SUFFICES ASSUME m + 1 <= n PROVE Costs(s)[m + 1] = Costs(t)[m + 1]
    OBVIOUS
  <2>1. m + 1 \in 1 .. Len(s) /\ m + 1 \in 1 .. Len(t) /\ m + 1 \in 1 .. n /\ m <= n
    OBVIOUS
  <2>2. Costs(s)[m + 1] = Costs(s)[m] + PieceCost(s[m + 1])
    <3>1. \A k \in Nat : k + 1 \in 1 .. Len(s) => Costs(s)[k + 1] = Costs(s)[k] + PieceCost(s[k + 1])
      BY CostSteps
    <3>. QED
      BY <2>1, <3>1
  <2>3. Costs(t)[m + 1] = Costs(t)[m] + PieceCost(t[m + 1])
    <3>1. \A k \in Nat : k + 1 \in 1 .. Len(t) => Costs(t)[k + 1] = Costs(t)[k] + PieceCost(t[k + 1])
      BY CostSteps
    <3>. QED
      BY <2>1, <3>1
  <2>4. Costs(s)[m] = Costs(t)[m] /\ s[m + 1] = t[m + 1]
    BY <1>2, <2>1
  <2>. QED
    BY <2>2, <2>3, <2>4
<1>3. n \in S
  <2>. HIDE DEF S
  <2>. QED
    BY <1>1, <1>2, SetInduction
<1>. QED
  BY <1>3

LEMMA CostIsNatural ==
  ASSUME NEW text, Costed(text)
  PROVE  Cost(text) \in Nat
<1>. DEFINE S == {m \in Nat : m <= Len(text) => Costs(text)[m] \in Nat}
<1>1. Len(text) \in Nat /\ DOMAIN text = 1 .. Len(text)
  BY DEF Costed
<1>2. /\ Costs(text)[0] = 0
      /\ \A k \in Nat : k + 1 \in 1 .. Len(text) => Costs(text)[k + 1] = Costs(text)[k] + PieceCost(text[k + 1])
  BY <1>1, CostSteps
<1>3. 0 \in S
  BY <1>2
<1>4. ASSUME NEW m \in Nat, m \in S PROVE m + 1 \in S
  <2>. SUFFICES ASSUME m + 1 <= Len(text) PROVE Costs(text)[m + 1] \in Nat
    OBVIOUS
  <2>1. m + 1 \in 1 .. Len(text) /\ m <= Len(text)
    BY <1>1
  <2>2. Costs(text)[m] \in Nat
    BY <1>4, <2>1
  <2>3. PieceCost(text[m + 1]) \in Nat
    BY <1>1, <2>1 DEF Costed
  <2>. QED
    BY <1>2, <2>1, <2>2, <2>3
<1>5. Len(text) \in S
  <2>. HIDE DEF S
  <2>. QED
    BY <1>1, <1>3, <1>4, SetInduction
<1>. QED
  BY <1>1, <1>5 DEF Cost

(* One more piece, and one text after the other.                            *)
LEMMA CostOfAppend ==
  ASSUME NEW text, Costed(text), NEW p \in Pieces, PieceCost(p) \in Nat
  PROVE  Costed(Append(text, p)) /\ Cost(Append(text, p)) = Cost(text) + PieceCost(p)
<1>1. PICK more : more = Append(text, p)
  OBVIOUS
<1>2. PICK n : n = Len(text)
  OBVIOUS
<1>3. text \in Seq(Pieces) /\ DOMAIN text = 1 .. n /\ n \in Nat
  BY <1>2 DEF Costed
<1>4. /\ more \in Seq(Pieces) /\ Len(more) = n + 1 /\ more[n + 1] = p /\ DOMAIN more = 1 .. n + 1
      /\ \A k \in 1 .. n : more[k] = text[k]
  BY <1>1, <1>2, <1>3
<1>5. Costed(more)
  BY <1>3, <1>4 DEF Costed
<1>6. Costs(more)[n + 1] = Costs(more)[n] + PieceCost(p)
  <2>1. Len(more) \in Nat
    BY <1>3, <1>4
  <2>2. \A k \in Nat : k + 1 \in 1 .. Len(more) => Costs(more)[k + 1] = Costs(more)[k] + PieceCost(more[k + 1])
    BY <2>1, CostSteps
  <2>. QED
    BY <1>3, <1>4, <2>2
<1>7. Costs(more)[n] = Costs(text)[n]
  <2>1. Len(more) \in Nat /\ Len(text) \in Nat /\ n <= Len(more) /\ n <= Len(text)
    BY <1>2, <1>3, <1>4
  <2>. QED
    BY <1>3, <1>4, <2>1, CostPrefix
<1>. QED
  BY <1>1, <1>2, <1>4, <1>5, <1>6, <1>7 DEF Cost

LEMMA CostOfJoined ==
  ASSUME NEW a, Costed(a), NEW b, Costed(b)
  PROVE  Cost(a \o b) = Cost(a) + Cost(b)
<1>1. PICK c : c = a \o b
  OBVIOUS
<1>2. PICK n : n = Len(a)
  OBVIOUS
<1>3. PICK size : size = Len(b)
  OBVIOUS
<1>4. /\ a \in Seq(Pieces) /\ b \in Seq(Pieces) /\ n \in Nat /\ size \in Nat
      /\ DOMAIN a = 1 .. n /\ DOMAIN b = 1 .. size
  BY <1>2, <1>3 DEF Costed
<1>5. /\ Len(c) = n + size /\ \A k \in 1 .. n : c[k] = a[k]
      /\ \A k \in 1 .. size : c[n + k] = b[k]
  BY <1>1, <1>2, <1>3, <1>4
<1>6. Costs(c)[n] = Cost(a)
  <2>1. Len(c) \in Nat /\ Len(a) \in Nat /\ n <= Len(c) /\ n <= Len(a)
    BY <1>2, <1>4, <1>5
  <2>. QED
    BY <1>2, <1>4, <1>5, <2>1, CostPrefix DEF Cost
<1>7. PICK base \in Nat : base = Cost(a)
  BY CostIsNatural
<1>8. /\ Costs(b)[0] = 0
      /\ \A k \in Nat : k + 1 \in 1 .. Len(b) => Costs(b)[k + 1] = Costs(b)[k] + PieceCost(b[k + 1])
  BY <1>3, <1>4, CostSteps
<1>9. \A k \in Nat : k + 1 \in 1 .. Len(c) => Costs(c)[k + 1] = Costs(c)[k] + PieceCost(c[k + 1])
  <2>1. Len(c) \in Nat
    BY <1>4, <1>5
  <2>. QED
    BY <2>1, CostSteps
<1>. DEFINE S == {m \in Nat : m <= size => Costs(b)[m] \in Nat /\ Costs(c)[n + m] = base + Costs(b)[m]}
<1>10. 0 \in S
  BY <1>4, <1>6, <1>7, <1>8
<1>11. ASSUME NEW m \in Nat, m \in S PROVE m + 1 \in S
  <2>. SUFFICES ASSUME m + 1 <= size
                PROVE  Costs(b)[m + 1] \in Nat /\ Costs(c)[n + (m + 1)] = base + Costs(b)[m + 1]
    OBVIOUS
  <2>1. m + 1 \in 1 .. size /\ m <= size /\ n + m \in Nat /\ (n + m) + 1 \in 1 .. Len(c) /\ (n + m) + 1 = n + (m + 1)
    BY <1>4, <1>5
  <2>2. Costs(b)[m] \in Nat /\ Costs(c)[n + m] = base + Costs(b)[m]
    BY <1>11, <2>1
  <2>3. PICK cost \in Nat : cost = PieceCost(b[m + 1])
    BY <1>4, <2>1 DEF Costed
  <2>4. Costs(b)[m + 1] = Costs(b)[m] + cost
    BY <1>3, <1>8, <2>1, <2>3
  <2>5. Costs(c)[(n + m) + 1] = Costs(c)[n + m] + PieceCost(c[(n + m) + 1])
    BY <1>9, <2>1
  <2>6. c[(n + m) + 1] = b[m + 1]
    BY <1>5, <2>1
  <2>. QED
    BY <1>7, <2>1, <2>2, <2>3, <2>4, <2>5, <2>6
<1>12. size \in S
  <2>. HIDE DEF S
  <2>. QED
    BY <1>4, <1>10, <1>11, SetInduction
<1>. QED
  BY <1>1, <1>3, <1>4, <1>5, <1>7, <1>12 DEF Cost

(* The groups of the first n rows.                                          *)
Grouped(groups, rows, n, budget) ==
  /\ groups \in Seq(Seq(Pieces)) /\ groups # <<>> /\ Chained(groups) = SubSeq(rows, 1, n)
  /\ n = 0 => groups = <<<<>>>>
  /\ \A k \in DOMAIN groups :
       /\ Costed(groups[k]) /\ (n # 0 => groups[k] # <<>>)
       /\ Len(groups[k]) <= 1 \/ Cost(groups[k]) <= budget

LEMMA NothingGrouped ==
  ASSUME NEW rows, Costed(rows), NEW budget \in Int
  PROVE  Grouped(<<<<>>>>, rows, 0, budget)
<1>1. PICK groups : groups = <<<<>>>>
  OBVIOUS
<1>2. <<>> \in Seq(Pieces) /\ DOMAIN <<>> = {} /\ Len(<<>>) = 0
  BY EmptySeq
<1>3. groups \in Seq(Seq(Pieces)) /\ groups # <<>> /\ DOMAIN groups = {1} /\ groups[1] = <<>>
  BY <1>1, <1>2
<1>4. Chained(groups) \in Seq(Pieces) /\ DOMAIN Chained(groups) = {}
  <2>1. PICK c : c = Chained(groups)
    OBVIOUS
  <2>2. c \in Seq(Pieces)
    BY <1>3, <2>1, ChainedElements
  <2>3. \A j \in DOMAIN c : \E k \in DOMAIN groups : \E i \in DOMAIN groups[k] : c[j] = groups[k][i]
    <3>1. \A j \in DOMAIN Chained(groups) :
            \E k \in DOMAIN groups : \E i \in DOMAIN groups[k] : Chained(groups)[j] = groups[k][i]
      BY <1>3, ChainedElements
    <3>. QED
      BY <2>1, <3>1
  <2>4. DOMAIN c = {}
    BY <1>2, <1>3, <2>3
  <2>. QED
    BY <2>1, <2>2, <2>4
<1>5. Chained(groups) = <<>>
  BY <1>4
<1>6. SubSeq(rows, 1, 0) = <<>>
  BY DEF Costed
<1>7. Costed(<<>>)
  BY <1>2 DEF Costed
<1>8. Grouped(groups, rows, 0, budget)
  BY <1>1, <1>2, <1>3, <1>5, <1>6, <1>7 DEF Grouped
<1>. QED
  BY <1>1, <1>8

LEMMA RowGrouped ==
  ASSUME NEW rows, Costed(rows), NEW budget \in Int, NEW n \in Nat, n + 1 <= Len(rows),
         NEW groups, Grouped(groups, rows, n, budget),
         NEW more, more = WithRow(groups, rows[n + 1], budget)
  PROVE  Grouped(more, rows, n + 1, budget)
<1>1. PICK row : row = rows[n + 1]
  OBVIOUS
<1>2. PICK size : size = Len(groups)
  OBVIOUS
<1>3. PICK last : last = groups[size]
  OBVIOUS
<1>4. rows \in Seq(Pieces) /\ Len(rows) \in Nat /\ n + 1 \in DOMAIN rows
  BY DEF Costed
<1>5. row \in Pieces /\ PieceCost(row) \in Nat
  BY <1>1, <1>4 DEF Costed
<1>6. /\ groups \in Seq(Seq(Pieces)) /\ groups # <<>> /\ Chained(groups) = SubSeq(rows, 1, n)
      /\ n = 0 => groups = <<<<>>>>
      /\ \A k \in DOMAIN groups :
           /\ Costed(groups[k]) /\ (n # 0 => groups[k] # <<>>)
           /\ Len(groups[k]) <= 1 \/ Cost(groups[k]) <= budget
  BY DEF Grouped
<1>7. size \in Nat /\ size > 0 /\ DOMAIN groups = 1 .. size /\ size \in DOMAIN groups
  BY <1>2, <1>6
<1>8. last \in Seq(Pieces) /\ Costed(last) /\ Cost(last) \in Nat
  <2>1. last \in Seq(Pieces)
    BY <1>3, <1>6, <1>7
  <2>2. Costed(last)
    BY <1>3, <1>6, <1>7
  <2>. QED
    BY <2>1, <2>2, CostIsNatural
<1>17. n = 0 => size = 1 /\ last = <<>>
  <2>1. SUFFICES ASSUME n = 0 PROVE size = 1 /\ last = <<>>
    OBVIOUS
  <2>2. groups = <<<<>>>>
    BY <1>6, <2>1
  <2>3. Len(<<<<>>>>) = 1 /\ <<<<>>>>[1] = <<>>
    OBVIOUS
  <2>4. size = 1
    BY <1>2, <2>2, <2>3
  <2>. QED
    BY <1>3, <2>2, <2>3, <2>4
<1>9. PICK one : one = <<row>>
  OBVIOUS
<1>10. one \in Seq(Pieces) /\ Len(one) = 1 /\ one # <<>> /\ DOMAIN one = {1} /\ one[1] = row
  BY <1>5, <1>9
<1>11. Costed(one) /\ Cost(one) = PieceCost(row)
  <2>1. PICK none : none = <<>>
    OBVIOUS
  <2>2. none \in Seq(Pieces) /\ DOMAIN none = {} /\ Len(none) = 0 /\ Append(none, row) = one
    BY <1>5, <1>9, <2>1, EmptySeq
  <2>3. Costed(none)
    BY <2>2 DEF Costed
  <2>4. Cost(none) = 0
    <3>1. Costs(none)[0] = 0
      BY <2>2, CostSteps
    <3>. QED
      BY <2>2, <3>1 DEF Cost
  <2>5. Costed(Append(none, row)) /\ Cost(Append(none, row)) = Cost(none) + PieceCost(row)
    BY <1>5, <2>3, CostOfAppend
  <2>. QED
    BY <1>5, <2>2, <2>4, <2>5
<1>12. Append(SubSeq(rows, 1, n), row) = SubSeq(rows, 1, n + 1)
  BY <1>1, <1>4
<1>13. PICK longer : longer = Append(last, row)
  OBVIOUS
<1>14. /\ longer \in Seq(Pieces) /\ Len(longer) = Len(last) + 1 /\ longer # <<>>
       /\ Costed(longer) /\ Cost(longer) = Cost(last) + PieceCost(row)
  <2>1. longer \in Seq(Pieces) /\ Len(longer) = Len(last) + 1 /\ longer # <<>>
    BY <1>5, <1>8, <1>13
  <2>2. Costed(longer) /\ Cost(longer) = Cost(last) + PieceCost(row)
    BY <1>5, <1>8, <1>13, CostOfAppend
  <2>. QED
    BY <2>1, <2>2
<1>15. CASE Fits(row, last, budget)
  <2>1. PICK next : next = [groups EXCEPT ![Len(groups)] = Append(@, row)]
    OBVIOUS
  <2>2. more = next
    BY <1>1, <1>2, <1>3, <1>15, <2>1 DEF WithRow
  <2>3. /\ next \in Seq(Seq(Pieces)) /\ DOMAIN next = 1 .. size /\ next[size] = longer /\ next # <<>>
        /\ \A k \in 1 .. size : k # size => next[k] = groups[k]
    <3>1. /\ DOMAIN next = 1 .. size /\ next[size] = longer
          /\ \A k \in 1 .. size : k # size => next[k] = groups[k]
      BY <1>2, <1>3, <1>7, <1>13, <2>1
    <3>2. next = [k \in 1 .. size |-> next[k]]
      BY <1>2, <1>7, <2>1
    <3>3. \A k \in 1 .. size : next[k] \in Seq(Pieces)
      <4>1. \A k \in 1 .. size : groups[k] \in Seq(Pieces)
        BY <1>6, <1>7
      <4>2. longer \in Seq(Pieces)
        BY <1>14
      <4>. QED
        BY <3>1, <4>1, <4>2
    <3>4. next \in Seq(Seq(Pieces)) /\ Len(next) = size
      BY <1>7, <3>2, <3>3, IsList
    <3>5. next # <<>>
      BY <1>7, <3>4
    <3>. QED
      BY <3>1, <3>4, <3>5
  <2>4. Chained(next) = SubSeq(rows, 1, n + 1)
    <3>1. Chained(next) = Append(Chained(groups), row)
      BY <1>5, <1>6, <2>1, ChainLonger
    <3>. QED
      BY <1>6, <1>12, <3>1
  <2>5. Len(longer) <= 1 \/ Cost(longer) <= budget
    <3>1. CASE last = <<>>
      BY <1>14, <3>1
    <3>2. CASE Cost(last) + Cost(<<row>>) <= budget
      BY <1>9, <1>11, <1>14, <3>2
    <3>. QED
      BY <1>15, <3>1, <3>2 DEF Fits
  <2>6. ASSUME NEW k \in 1 .. size
        PROVE  /\ Costed(next[k]) /\ next[k] # <<>>
               /\ Len(next[k]) <= 1 \/ Cost(next[k]) <= budget
    <3>1. CASE k = size
      BY <1>14, <2>3, <2>5, <3>1
    <3>2. CASE k # size
      <4>1. n # 0
        BY <1>7, <1>17, <3>2
      <4>2. next[k] = groups[k]
        BY <2>3, <3>2
      <4>. QED
        BY <1>6, <1>7, <4>1, <4>2
    <3>. QED
      BY <3>1, <3>2
  <2>7. Grouped(next, rows, n + 1, budget)
    BY <2>3, <2>4, <2>6 DEF Grouped
  <2>. QED
    BY <2>2, <2>7
<1>16. CASE ~Fits(row, last, budget)
  <2>1. PICK next : next = Append(groups, one)
    OBVIOUS
  <2>2. more = next
    BY <1>1, <1>2, <1>3, <1>9, <1>16, <2>1 DEF WithRow
  <2>3. /\ next \in Seq(Seq(Pieces)) /\ DOMAIN next = 1 .. size + 1 /\ next[size + 1] = one /\ next # <<>>
        /\ \A k \in 1 .. size : next[k] = groups[k]
    BY <1>2, <1>6, <1>7, <1>10, <2>1
  <2>4. Chained(next) = SubSeq(rows, 1, n + 1)
    <3>1. Chained(next) = Chained(groups) \o one
      BY <1>6, <1>10, <2>1, ChainAppend
    <3>2. SubSeq(rows, 1, n) \o one = Append(SubSeq(rows, 1, n), row)
      <4>1. SubSeq(rows, 1, n) \in Seq(Pieces)
        BY <1>4
      <4>. QED
        BY <1>5, <1>9, <4>1
    <3>. QED
      BY <1>6, <1>12, <3>1, <3>2
  <2>5. n # 0
    <3>1. last # <<>>
      BY <1>16 DEF Fits
    <3>. QED
      BY <1>17, <3>1
  <2>6. ASSUME NEW k \in 1 .. size + 1
        PROVE  /\ Costed(next[k]) /\ next[k] # <<>>
               /\ Len(next[k]) <= 1 \/ Cost(next[k]) <= budget
    <3>1. CASE k = size + 1
      <4>1. next[k] = one
        BY <2>3, <3>1
      <4>2. Len(one) <= 1 /\ one # <<>> /\ Costed(one)
        BY <1>10, <1>11
      <4>. QED
        BY <4>1, <4>2
    <3>2. CASE k \in 1 .. size
      BY <1>6, <1>7, <2>3, <2>5, <3>2
    <3>. QED
      BY <1>7, <3>1, <3>2
  <2>7. Grouped(next, rows, n + 1, budget)
    BY <2>3, <2>4, <2>6 DEF Grouped
  <2>. QED
    BY <2>2, <2>7
<1>. QED
  BY <1>15, <1>16

LEMMA RowsGrouped ==
  ASSUME NEW rows, Costed(rows), NEW budget \in Int
  PROVE  Grouped(RowGroups(rows, budget)[Len(rows)], rows, Len(rows), budget)
<1>. DEFINE S == {m \in Nat : m <= Len(rows) => Grouped(RowGroups(rows, budget)[m], rows, m, budget)}
<1>1. Len(rows) \in Nat
  BY DEF Costed
<1>2. /\ RowGroups(rows, budget)[0] = <<<<>>>>
      /\ \A n \in Nat : n + 1 \in 1 .. Len(rows) =>
           RowGroups(rows, budget)[n + 1] = WithRow(RowGroups(rows, budget)[n], rows[n + 1], budget)
  BY <1>1, RowSteps
<1>3. 0 \in S
  BY <1>2, NothingGrouped
<1>4. ASSUME NEW m \in Nat, m \in S PROVE m + 1 \in S
  <2>. SUFFICES ASSUME m + 1 <= Len(rows) PROVE Grouped(RowGroups(rows, budget)[m + 1], rows, m + 1, budget)
    OBVIOUS
  <2>1. m + 1 \in 1 .. Len(rows) /\ m <= Len(rows)
    BY <1>1
  <2>2. PICK groups : groups = RowGroups(rows, budget)[m]
    OBVIOUS
  <2>3. PICK more : more = RowGroups(rows, budget)[m + 1]
    OBVIOUS
  <2>4. Grouped(groups, rows, m, budget)
    BY <1>4, <2>1, <2>2
  <2>5. more = WithRow(groups, rows[m + 1], budget)
    BY <1>2, <2>1, <2>2, <2>3
  <2>6. Grouped(more, rows, m + 1, budget)
    BY <2>1, <2>4, <2>5, RowGrouped
  <2>. QED
    BY <2>3, <2>6
<1>5. Len(rows) \in S
  <2>. HIDE DEF S
  <2>. QED
    BY <1>1, <1>3, <1>4, SetInduction
<1>. QED
  BY <1>1, <1>5

(* A table is kept whole, or its rows are in groups behind the header.      *)
ByRows(groups, parts, b) ==
  /\ groups \in Seq(Seq(Pieces)) /\ groups # <<>>
  /\ parts \in Seq(Seq(Pieces)) /\ DOMAIN parts = DOMAIN groups
  /\ Header(b) \in Seq(Pieces) /\ Costed(Header(b)) /\ Text(b) = Header(b) \o Chained(groups)
  /\ \A k \in DOMAIN groups :
       /\ parts[k] = Header(b) \o groups[k] /\ Costed(groups[k]) /\ groups[k] # <<>>
       /\ Len(groups[k]) <= 1 \/ Cost(groups[k]) <= Budget(b)
  /\ \A j, k \in DOMAIN groups : j # k => groups[j][1] # groups[k][1]

LEMMA TextIsCosted ==
  ASSUME document \in Seq(Block), NEW b \in DOMAIN document
  PROVE  Costed(Text(b))
<1>1. /\ Text(b) \in Seq(Pieces) /\ DOMAIN Text(b) = DOMAIN document[b].cost
      /\ \A i \in DOMAIN Text(b) : Text(b)[i] = <<b, i>> /\ i \in Nat
  BY TextPieces
<1>2. document[b].cost \in Seq(Nat)
  BY BlockFields
<1>3. ASSUME NEW i \in DOMAIN Text(b) PROVE PieceCost(Text(b)[i]) \in Nat
  <2>1. PieceCost(<<b, i>>) = document[b].cost[i]
    BY DEF PieceCost
  <2>2. document[b].cost[i] \in Nat
    BY <1>1, <1>2
  <2>. QED
    BY <1>1, <2>1, <2>2
<1>. QED
  BY <1>1, <1>3 DEF Costed

LEMMA CostedPart ==
  ASSUME NEW t, Costed(t), NEW a \in Nat, a > 0, NEW n \in Nat, n <= Len(t), NEW s, s = SubSeq(t, a, n)
  PROVE  Costed(s) /\ \A i \in DOMAIN s : a + i - 1 \in DOMAIN t /\ s[i] = t[a + i - 1]
<1>1. t \in Seq(Pieces) /\ \A i \in DOMAIN t : PieceCost(t[i]) \in Nat
  BY DEF Costed
<1>2. s \in Seq(Pieces) /\ \A i \in DOMAIN s : a + i - 1 \in DOMAIN t /\ s[i] = t[a + i - 1]
  BY <1>1
<1>. QED
  BY <1>1, <1>2 DEF Costed

LEMMA RowsSplit ==
  ASSUME document \in Seq(Block), setting \in Setting, NEW b \in DOMAIN document,
         NEW parts, parts = SplitRows(b)
  PROVE  parts = <<Text(b)>> \/ \E groups : ByRows(groups, parts, b)
<1>1. PICK text : text = Text(b)
  OBVIOUS
<1>2. PICK h : h = Header(b)
  OBVIOUS
<1>3. PICK budget : budget = Budget(b)
  OBVIOUS
<1>4. SUFFICES ASSUME Len(text) > 8 PROVE parts = <<Text(b)>> \/ \E groups : ByRows(groups, parts, b)
  <2>1. Len(text) \in Nat
    BY <1>1, TextPieces
  <2>2. Len(text) <= 8 => parts = <<Text(b)>>
    BY <1>1 DEF SplitRows
  <2>. QED
    BY <2>1, <2>2
<1>5. /\ text \in Seq(Pieces) /\ Costed(text)
      /\ \A i \in DOMAIN text : text[i] = <<b, i>>
  BY <1>1, TextPieces, TextIsCosted
<1>6. PICK m : m = Len(h)
  OBVIOUS
<1>7. m \in {0, 2} /\ h = SubSeq(text, 1, m)
  <2>1. SubSeq(text, 1, 0) = <<>> /\ Len(<<>>) = 0
    BY <1>5
  <2>2. Len(SubSeq(text, 1, 2)) = 2
    BY <1>4, <1>5
  <2>3. h = SubSeq(text, 1, 2) \/ h = <<>>
    BY <1>1, <1>2 DEF Header
  <2>4. CASE h = SubSeq(text, 1, 2)
    BY <1>6, <2>2, <2>4
  <2>5. CASE h = <<>>
    BY <1>6, <2>1, <2>5
  <2>. QED
    BY <2>3, <2>4, <2>5
<1>8. m \in Nat /\ m <= Len(text) /\ Len(text) \in Nat /\ m + 1 \in Nat /\ m + 1 > 0 /\ m + 1 <= Len(text) /\ 1 \in Nat /\ 1 > 0
  BY <1>4, <1>5, <1>7
<1>9. h \in Seq(Pieces) /\ Costed(h)
  <2>1. Costed(h)
    BY <1>5, <1>7, <1>8, CostedPart
  <2>. QED
    BY <2>1 DEF Costed
<1>10. PICK rows : rows = SubSeq(text, m + 1, Len(text))
  OBVIOUS
<1>11. /\ Costed(rows) /\ \A i \in DOMAIN rows : m + 1 + i - 1 \in DOMAIN text /\ rows[i] = text[m + 1 + i - 1]
  <2>1. PICK a : a = m + 1
    OBVIOUS
  <2>2. PICK n : n = Len(text)
    OBVIOUS
  <2>3. a \in Nat /\ a > 0 /\ rows = SubSeq(text, a, n) /\ n \in Nat /\ n <= Len(text)
    BY <1>8, <1>10, <2>1, <2>2
  <2>4. Costed(rows)
    BY <1>5, <2>3, CostedPart
  <2>5. \A i \in DOMAIN rows : a + i - 1 \in DOMAIN text /\ rows[i] = text[a + i - 1]
    BY <1>5, <2>3, CostedPart
  <2>. QED
    BY <2>1, <2>4, <2>5
<1>12. /\ rows \in Seq(Pieces) /\ Len(rows) \in Nat /\ Len(rows) # 0 /\ text = h \o rows
       /\ SubSeq(rows, 1, Len(rows)) = rows
  <2>1. rows \in Seq(Pieces) /\ Len(rows) = Len(text) - m
    BY <1>5, <1>8, <1>10
  <2>2. Len(rows) \in Nat /\ Len(rows) # 0
    BY <1>8, <2>1
  <2>3. text = h \o rows
    BY <1>5, <1>7, <1>8, <1>10, CutAt
  <2>4. SubSeq(rows, 1, Len(rows)) = rows
    BY <2>1
  <2>. QED
    BY <2>1, <2>2, <2>3, <2>4
<1>13. \A i, j \in DOMAIN rows : rows[i] = rows[j] => i = j
  <2>1. ASSUME NEW i \in DOMAIN rows, NEW j \in DOMAIN rows, rows[i] = rows[j] PROVE i = j
    <3>1. <<b, m + 1 + i - 1>> = <<b, m + 1 + j - 1>>
      BY <1>5, <1>11, <2>1
    <3>2. m + 1 + i - 1 = m + 1 + j - 1
      BY <3>1
    <3>3. i \in Nat /\ j \in Nat
      BY <1>12
    <3>. QED
      BY <1>8, <3>2, <3>3
  <2>. QED
    BY <2>1
<1>14. budget \in Int
  <2>1. Cost(h) \in Nat /\ setting.size \in Nat
    BY <1>9, CostIsNatural DEF Setting
  <2>2. LineBreak \in Nat /\ Len(h) \in Nat
    BY <1>9, ChunksAssumption
  <2>3. LineBreak * (Len(h) - 1) \in Int
    BY <2>2
  <2>4. Tokens(h) \in Int
    BY <2>1, <2>3 DEF Tokens
  <2>. QED
    BY <1>2, <1>3, <2>1, <2>4 DEF Budget, Margin
<1>15. PICK groups : groups = RowGroups(rows, budget)[Len(rows)]
  OBVIOUS
<1>16. Grouped(groups, rows, Len(rows), budget)
  BY <1>11, <1>14, <1>15, RowsGrouped
<1>17. \/ parts = <<Text(b)>>
       \/ parts = [k \in DOMAIN groups |-> h \o groups[k]]
  BY <1>1, <1>2, <1>3, <1>6, <1>10, <1>15 DEF SplitRows
<1>18. ASSUME parts = [k \in DOMAIN groups |-> h \o groups[k]]
       PROVE  ByRows(groups, parts, b)
  <2>1. /\ groups \in Seq(Seq(Pieces)) /\ groups # <<>> /\ Chained(groups) = rows
        /\ \A k \in DOMAIN groups :
             /\ Costed(groups[k]) /\ groups[k] # <<>>
             /\ Len(groups[k]) <= 1 \/ Cost(groups[k]) <= budget
    BY <1>12, <1>16 DEF Grouped
  <2>2. PICK n \in Nat : n = Len(groups) /\ DOMAIN groups = 1 .. n
    BY <2>1
  <2>3. PICK p : p = parts
    OBVIOUS
  <2>4. p = [k \in 1 .. n |-> p[k]] /\ \A k \in 1 .. n : p[k] = h \o groups[k]
    BY <1>18, <2>2, <2>3
  <2>5. \A k \in 1 .. n : p[k] \in Seq(Pieces)
    <3>1. ASSUME NEW k \in 1 .. n PROVE p[k] \in Seq(Pieces)
      <4>1. PICK g : g = groups[k]
        OBVIOUS
      <4>2. g \in Seq(Pieces) /\ p[k] = h \o g
        BY <2>1, <2>2, <2>4, <4>1
      <4>. QED
        BY <1>9, <4>2
    <3>. QED
      BY <3>1
  <2>6. p \in Seq(Seq(Pieces)) /\ DOMAIN p = 1 .. n
    BY <2>4, <2>5, IsList
  <2>7. ASSUME NEW j \in DOMAIN groups, NEW k \in DOMAIN groups, j # k PROVE groups[j][1] # groups[k][1]
    <3>1. SUFFICES ASSUME groups[j][1] = groups[k][1] PROVE FALSE
      OBVIOUS
    <3>2. 1 \in DOMAIN groups[j] /\ 1 \in DOMAIN groups[k]
      BY <2>1
    <3>3. \A i, o \in DOMAIN Chained(groups) : Chained(groups)[i] = Chained(groups)[o] => i = o
      BY <1>13, <2>1
    <3>4. j = k
      BY <2>1, <3>1, <3>2, <3>3, PartsDiffer
    <3>. QED
      BY <2>7, <3>4
  <2>8. parts \in Seq(Seq(Pieces)) /\ DOMAIN parts = DOMAIN groups
    BY <2>2, <2>3, <2>6
  <2>9. \A k \in DOMAIN groups : parts[k] = Header(b) \o groups[k]
    BY <1>2, <2>2, <2>3, <2>4
  <2>10. Header(b) \in Seq(Pieces) /\ Costed(Header(b)) /\ Text(b) = Header(b) \o Chained(groups)
    BY <1>1, <1>2, <1>9, <1>12, <2>1
  <2>11. \A k \in DOMAIN groups :
             /\ Costed(groups[k]) /\ groups[k] # <<>>
             /\ Len(groups[k]) <= 1 \/ Cost(groups[k]) <= Budget(b)
    BY <1>3, <2>1
  <2>. QED
    BY <2>1, <2>7, <2>8, <2>9, <2>10, <2>11 DEF ByRows
<1>. QED
  BY <1>17, <1>18

(***************************************************************************)
(* The steps.                                                              *)
(***************************************************************************)
LEMMA NothingFresh ==
  ASSUME NEW made, made = <<>>, NEW from, NEW here
  PROVE  Fresh(made, from, here)
<1>1. made \in Seq(Node) /\ DOMAIN made = {}
  BY EmptySeq
<1>. QED
  BY <1>1 DEF Fresh, Sound, IdsDiffer, ParentsIn

LEMMA FreshWider ==
  ASSUME NEW made, NEW from, NEW here, NEW wider, Fresh(made, from, here), from \subseteq wider
  PROVE  Fresh(made, wider, here)
BY SoundWider DEF Fresh

(* Nodes of different blocks have different ids.                            *)
BlocksIn(made, from) == \A k \in DOMAIN made : made[k].blocks # <<>> /\ Range(made[k].blocks) \subseteq from

LEMMA IdsApart ==
  ASSUME NEW a \in Seq(Node), NEW b \in Seq(Node), IdsDiffer(a), IdsDiffer(b),
         NEW from, NEW other, from \cap other = {}, BlocksIn(a, from), BlocksIn(b, other),
         NEW c, c = a \o b
  PROVE  IdsDiffer(c)
<1>1. ASSUME NEW i \in DOMAIN a, NEW j \in DOMAIN b
      PROVE  NodeId(a[i]) # NodeId(b[j])
  <2>1. SUFFICES ASSUME NodeId(a[i]) = NodeId(b[j]) PROVE FALSE
    OBVIOUS
  <2>2. PICK bs : bs = a[i].blocks
    OBVIOUS
  <2>3. bs = b[j].blocks
    BY <2>1, <2>2, IdFields
  <2>4. bs \in Seq(Nat) /\ bs # <<>> /\ Range(bs) \subseteq from /\ Range(bs) \subseteq other
    <3>1. a[i] \in Node
      OBVIOUS
    <3>2. bs \in Seq(Nat)
      BY <2>2, <3>1 DEF Node
    <3>3. bs # <<>> /\ Range(bs) \subseteq from
      BY <2>2 DEF BlocksIn
    <3>4. Range(bs) \subseteq other
      BY <2>3 DEF BlocksIn
    <3>. QED
      BY <3>2, <3>3, <3>4
  <2>5. bs[1] \in Range(bs)
    BY <2>4 DEF Range
  <2>. QED
    BY <2>4, <2>5
<1>. QED
  BY <1>1, IdsJoined

LEMMA FreshJoined ==
  ASSUME NEW a, NEW b, NEW from, NEW other, NEW here, Fresh(a, from, here), Fresh(b, other, here),
         from \cap other = {}, NEW wider, wider = from \cup other, NEW c, c = a \o b
  PROVE  Fresh(c, wider, here)
<1>1. Sound(a, from, here) /\ Sound(b, other, here) /\ a \in Seq(Node) /\ b \in Seq(Node)
  BY DEF Fresh, Sound
<1>2. from \subseteq wider /\ other \subseteq wider
  OBVIOUS
<1>3. Sound(a, wider, here) /\ Sound(b, wider, here)
  BY <1>1, <1>2, SoundWider
<1>4. Sound(c, wider, here)
  BY <1>3, SoundJoined
<1>5. BlocksIn(a, from) /\ BlocksIn(b, other)
  BY <1>1 DEF Sound, SoundNode, BlocksIn
<1>6. ASSUME IdsHaveRoom PROVE IdsDiffer(c) /\ ParentsIn(c, c)
  <2>1. IdsDiffer(a) /\ IdsDiffer(b) /\ ParentsIn(a, a) /\ ParentsIn(b, b)
    BY <1>6 DEF Fresh
  <2>2. IdsDiffer(c)
    BY <1>1, <1>5, <2>1, IdsApart
  <2>3. ParentsIn(a \o b, a \o b)
    BY <1>1, <2>1, ParentsJoined
  <2>. QED
    BY <2>2, <2>3
<1>. QED
  BY <1>4, <1>6 DEF Fresh

(* The path that new nodes get.                                             *)
Here == IF setting.chunker = "ocr_page" THEN <<>> ELSE path

LEMMA NoGroup ==
  ASSUME ChunkTypeOK, InHand, setting.chunker \in {"fixed_token", "semantic_vector"}
  PROVE  group = <<>> /\ DOMAIN group = {} /\ Range(group) = {}
<1>1. Gathered = {}
  BY DEF Gathered
<1>2. Of(Gathered) = {}
  BY <1>1 DEF Of
<1>3. group \in Seq(Nat) /\ \A k \in DOMAIN group : FALSE
  BY <1>2 DEF ChunkTypeOK, InHand
<1>4. group = <<>>
  <2>1. PICK g : g = group
    OBVIOUS
  <2>2. g \in Seq(Nat) /\ (g # <<>> => 1 \in DOMAIN g)
    BY <1>3, <2>1
  <2>. QED
    BY <1>3, <2>1, <2>2
<1>. QED
  BY <1>3, <1>4 DEF Range

LEMMA AllFlushed ==
  ASSUME ChunkTypeOK, InHand, IdLength \in Nat, NEW made, made = Flushed(path)
  PROVE  Fresh(made, Range(group), Here) /\ Keeps(made)
<1>1. setting.chunker \in {"fixed_token", "section_aware", "table_aware", "ocr_page", "semantic_vector"}
  BY DEF ChunkTypeOK, Setting
<1>2. CASE setting.chunker \in {"fixed_token", "semantic_vector"}
  <2>1. made = <<>>
    BY <1>2 DEF Flushed
  <2>2. DOMAIN group = {}
    BY <1>2, NoGroup
  <2>3. PICK from : from = Range(group)
    OBVIOUS
  <2>4. PICK here : here = Here
    OBVIOUS
  <2>5. Fresh(made, from, here)
    BY <2>1, NothingFresh
  <2>. QED
    BY <2>2, <2>3, <2>4, <2>5 DEF Keeps
<1>3. CASE setting.chunker = "section_aware"
  BY <1>3, SectionFlushed DEF Here
<1>4. CASE setting.chunker = "table_aware"
  BY <1>4, ParagraphsFlushed DEF Here
<1>5. CASE setting.chunker = "ocr_page"
  BY <1>5, PagesFlushed DEF Here
<1>. QED
  BY <1>1, <1>2, <1>3, <1>4, <1>5

(* What a step of a loop does: it adds nodes of the blocks it has passed,   *)
(* and loses nothing.                                                       *)
Passing == {b \in Range(group) \cup {at} : b < at'}

Adds(made) ==
  /\ document' = document /\ setting' = setting /\ nodes' = nodes \o made
  /\ outcome = "chunking"
  /\ \/ at <= Len(document) /\ at' = at + 1 /\ outcome' = outcome
     \/ at > Len(document) /\ at' = at /\ outcome' = "chunked" /\ group' = <<>>
  /\ \/ path' = path /\ (at \in Of({"heading"}) => setting.chunker = "ocr_page")
     \/ at \in Of({"heading"}) /\ path' = PushHeading(at) /\ group' = <<>>
  /\ \/ group' = group /\ made = <<>>
     \/ group' = Append(group, at) /\ made = <<>> /\ at \in Of(Gathered)
     \/ group' = <<>>
  /\ Fresh(made, Passing, Here)
  /\ \A b \in Of(Served) : b \in Passing =>
       b \in Range(group') \/ \A i \in DOMAIN Text(b) : Holds(made, <<b, i>>)

(* The parts of a table follow one another, after the nodes of other blocks. *)
RowsOf(made, b) ==
  \E n \in 0 .. Len(made) :
    /\ Len(made) = n + Len(SplitRows(b))
    /\ \A k \in 1 .. n : b \notin Range(made[k].blocks)
    /\ \A k \in DOMAIN SplitRows(b) :
         /\ made[n + k].type = "table" /\ b \in Range(made[n + k].blocks)
         /\ made[n + k].text = SplitRows(b)[k]

Windows(made) ==
  \A k \in 1 .. Len(made) - 1 :
    made[k].blocks[1] = made[k + 1].blocks[1] /\ Overlapping(made[k].text, made[k + 1].text)

StepOK(made) ==
  /\ Adds(made)
  /\ setting.chunker = "fixed_token" => Windows(made)
  /\ setting.chunker = "table_aware" /\ at \in Of({"table"}) => RowsOf(made, at)

LEMMA KeepsServed ==
  ASSUME NEW made, Keeps(made), NEW b \in Of(Served), b \in Range(group)
  PROVE  \A i \in DOMAIN Text(b) : Holds(made, <<b, i>>)
<1>1. PICK k \in DOMAIN group : group[k] = b
  BY DEF Range
<1>2. document[b].type \in Served
  BY DEF Of
<1>. QED
  BY <1>1, <1>2 DEF Keeps

LEMMA GroupPassed ==
  ASSUME ChunkTypeOK, InHand
  PROVE  /\ Range(group) \subseteq 1 .. at - 1 /\ at \in Nat /\ at > 0 /\ at \notin Range(group)
         /\ Range(group) \subseteq Of(Gathered)
<1>1. \A k \in DOMAIN group : group[k] \in Of(Gathered) /\ group[k] < at /\ group[k] \in DOMAIN document
  BY DEF InHand, Of
<1>2. document \in Seq(Block) /\ at \in 1 .. Len(document) + 1
  BY DEF ChunkTypeOK
<1>3. DOMAIN document = 1 .. Len(document) /\ Len(document) \in Nat
  BY <1>2
<1>4. at \in Nat /\ at > 0
  BY <1>2, <1>3
<1>5. ASSUME NEW b \in Range(group) PROVE b \in 1 .. at - 1 /\ b \in Of(Gathered) /\ b # at
  <2>1. PICK k \in DOMAIN group : group[k] = b
    BY DEF Range
  <2>2. b \in Of(Gathered) /\ b < at /\ b \in 1 .. Len(document)
    BY <1>1, <1>3, <2>1
  <2>. QED
    BY <1>3, <1>4, <2>2
<1>. QED
  BY <1>4, <1>5

LEMMA NoWindows ==
  ASSUME NEW made, made = <<>>
  PROVE  Windows(made)
<1>1. Len(made) = 0
  OBVIOUS
<1>2. 1 .. Len(made) - 1 = {}
  BY <1>1
<1>. QED
  BY <1>2 DEF Windows

(* Nothing is added but what a flush makes.                                 *)
LEMMA OnlyFlushed ==
  ASSUME ChunkTypeOK, InHand, IdLength \in Nat, NEW made, made = Flushed(path),
         nodes' = nodes \o made, group' = <<>>, document' = document, setting' = setting,
         outcome = "chunking",
         \/ at \in Of({"heading"}) /\ path' = PushHeading(at)
              /\ at <= Len(document) /\ at' = at + 1 /\ outcome' = outcome
         \/ path' = path /\ at > Len(document) /\ at' = at /\ outcome' = "chunked"
  PROVE  StepOK(made)
<1>1. Fresh(made, Range(group), Here) /\ Keeps(made)
  BY AllFlushed
<1>2. /\ Range(group) \subseteq 1 .. at - 1 /\ at \in Nat /\ at > 0
  BY GroupPassed
<1>3. Range(group) \subseteq Passing
  BY <1>2 DEF Passing
<1>4. PICK wider : wider = Passing
  OBVIOUS
<1>5. Fresh(made, wider, Here)
  BY <1>1, <1>3, <1>4, FreshWider
<1>6. at \notin Of({"table"}) /\ (at' = at + 1 => at \notin Of(Served))
  <2>1. CASE at \in Of({"heading"})
    BY <2>1 DEF Of, Served
  <2>2. CASE at > Len(document) /\ at' = at
    <3>1. Len(document) \in Nat /\ DOMAIN document = 1 .. Len(document)
      BY DEF ChunkTypeOK
    <3>2. at \notin DOMAIN document
      BY <1>2, <2>2, <3>1
    <3>. QED
      BY <3>2 DEF Of
  <2>. QED
    BY <2>1, <2>2
<1>7. ASSUME NEW b \in Of(Served), b \in Passing
      PROVE  \A i \in DOMAIN Text(b) : Holds(made, <<b, i>>)
  <2>1. b \in Range(group) \/ (b = at /\ at < at')
    BY <1>7 DEF Passing
  <2>2. b \in Range(group)
    BY <1>2, <1>6, <2>1
  <2>. QED
    BY <1>1, <2>2, KeepsServed
<1>10. at' = at => at \notin Of({"heading"})
  <2>1. Len(document) \in Nat /\ DOMAIN document = 1 .. Len(document)
    BY DEF ChunkTypeOK
  <2>2. at' = at => at \notin DOMAIN document
    BY <1>2, <2>1
  <2>. QED
    BY <2>2 DEF Of
<1>8. Adds(made)
  BY <1>2, <1>4, <1>5, <1>7, <1>10 DEF Adds
<1>9. ASSUME setting.chunker = "fixed_token" PROVE Windows(made)
  <2>1. made = <<>>
    BY <1>9 DEF Flushed
  <2>. QED
    BY <2>1, NoWindows
<1>. QED
  BY <1>6, <1>8, <1>9 DEF StepOK

LEMMA StepPassHeading ==
  ASSUME ChunkTypeOK, InHand, IdLength \in Nat, PassHeading
  PROVE  \E made : StepOK(made)
<1>1. PICK made : made = Flushed(path)
  OBVIOUS
<1>2. /\ nodes' = nodes \o made /\ group' = <<>> /\ document' = document /\ setting' = setting
      /\ outcome = "chunking" /\ at \in Of({"heading"}) /\ path' = PushHeading(at)
      /\ at <= Len(document) /\ at' = at + 1 /\ outcome' = outcome
  BY <1>1 DEF PassHeading, Passed, More
<1>3. StepOK(made)
  BY <1>1, <1>2, OnlyFlushed
<1>. QED
  BY <1>3

LEMMA StepFinish ==
  ASSUME ChunkTypeOK, InHand, IdLength \in Nat, Finish
  PROVE  \E made : StepOK(made)
<1>1. PICK made : made = Flushed(path)
  OBVIOUS
<1>2. /\ nodes' = nodes \o made /\ group' = <<>> /\ document' = document /\ setting' = setting
      /\ outcome = "chunking" /\ path' = path /\ at > Len(document) /\ at' = at /\ outcome' = "chunked"
  BY <1>1 DEF Finish
<1>3. StepOK(made)
  BY <1>1, <1>2, OnlyFlushed
<1>. QED
  BY <1>3

LEMMA StepGather ==
  ASSUME ChunkTypeOK, InHand, Gather
  PROVE  \E made : StepOK(made)
<1>1. PICK made : made = <<>>
  OBVIOUS
<1>2. /\ nodes' = nodes \o made /\ group' = Append(group, at) /\ document' = document /\ setting' = setting
      /\ outcome = "chunking" /\ path' = path /\ at <= Len(document) /\ at' = at + 1 /\ outcome' = outcome
      /\ at \in Of(Gathered)
  BY <1>1 DEF Gather, Passed, More
<1>3. Range(group') = Range(group) \cup {at}
  <2>1. PICK g : g = Append(group, at)
    OBVIOUS
  <2>2. group \in Seq(Nat) /\ at \in Nat /\ g \in Seq(Nat)
    BY <2>1, GroupPassed DEF ChunkTypeOK
  <2>3. /\ DOMAIN g = DOMAIN group \cup {Len(group) + 1} /\ g[Len(group) + 1] = at
        /\ \A k \in DOMAIN group : g[k] = group[k]
    BY <2>1, <2>2
  <2>4. Range(g) = Range(group) \cup {at}
    BY <2>3 DEF Range
  <2>. QED
    BY <1>2, <2>1, <2>4
<1>4. Fresh(made, Passing, Here)
  <2>1. PICK from : from = Passing
    OBVIOUS
  <2>2. PICK here : here = Here
    OBVIOUS
  <2>3. Fresh(made, from, here)
    BY <1>1, NothingFresh
  <2>. QED
    BY <2>1, <2>2, <2>3
<1>5. \A b \in Passing : b \in Range(group')
  BY <1>3 DEF Passing
<1>9. at \notin Of({"heading"})
  BY <1>2 DEF Gathered, Of
<1>6. Adds(made)
  BY <1>1, <1>2, <1>4, <1>5, <1>9 DEF Adds
<1>7. setting.chunker = "table_aware" => at \notin Of({"table"})
  BY <1>2 DEF Gathered, Of
<1>8. Windows(made)
  BY <1>1, NoWindows
<1>. QED
  BY <1>6, <1>7, <1>8 DEF StepOK

LEMMA StepPassOver ==
  ASSUME ChunkTypeOK, InHand, PassOver
  PROVE  \E made : StepOK(made)
<1>1. PICK made : made = <<>>
  OBVIOUS
<1>2. /\ nodes' = nodes \o made /\ group' = group /\ document' = document /\ setting' = setting
      /\ outcome = "chunking" /\ path' = path /\ at <= Len(document) /\ at' = at + 1 /\ outcome' = outcome
  BY <1>1 DEF PassOver, Passed, More
<1>3. setting.chunker = "table_aware" => at \notin Of({"table"})
  <2>1. SUFFICES ASSUME setting.chunker = "table_aware" PROVE at \notin Of({"table"})
    OBVIOUS
  <2>2. at \notin Of({"heading", "table"})
    BY <2>1 DEF PassOver
  <2>. QED
    BY <2>2 DEF Of
<1>4. Fresh(made, Passing, Here)
  <2>1. PICK from : from = Passing
    OBVIOUS
  <2>2. PICK here : here = Here
    OBVIOUS
  <2>3. Fresh(made, from, here)
    BY <1>1, NothingFresh
  <2>. QED
    BY <2>1, <2>2, <2>3
<1>5. ASSUME at \in Of(Served) PROVE \A i \in DOMAIN Text(at) : FALSE
  <2>1. IsEmpty(at)
    BY <1>5 DEF PassOver, Served, Of
  <2>2. at \in DOMAIN document /\ document \in Seq(Block)
    BY <1>5 DEF Of, ChunkTypeOK
  <2>3. DOMAIN Text(at) = {}
    BY <2>1, <2>2, TextPieces
  <2>. QED
    BY <2>3
<1>6. \A b \in Of(Served) : b \in Passing =>
        b \in Range(group') \/ \A i \in DOMAIN Text(b) : Holds(made, <<b, i>>)
  BY <1>2, <1>5 DEF Passing
<1>9. at \in Of({"heading"}) => setting.chunker = "ocr_page"
  <2>1. SUFFICES ASSUME at \in Of({"heading"}), setting.chunker # "ocr_page" PROVE FALSE
    OBVIOUS
  <2>2. at \in Of({"heading", "table"})
    BY <2>1 DEF Of
  <2>. QED
    BY <2>1, <2>2 DEF PassOver
<1>7. Adds(made)
  BY <1>1, <1>2, <1>4, <1>6, <1>9 DEF Adds
<1>8. Windows(made)
  BY <1>1, NoWindows
<1>. QED
  BY <1>3, <1>7, <1>8 DEF StepOK

LEMMA RoomForIds ==
  ASSUME ChunkTypeOK, InHand, IdsHaveRoom, IdLength \in Nat
  PROVE  0 < IdLength
<1>1. Joined(path) \in Seq(Pieces) /\ Len(Joined(path)) < IdLength
  BY PathHasRoom
<1>2. Len(Joined(path)) \in Nat
  BY <1>1
<1>. QED
  BY <1>1, <1>2

(* Texts of one block: of its pieces, of all of them, with different        *)
(* beginnings.                                                              *)
PartsOf(texts, b) ==
  /\ texts \in Seq(Seq(Pieces))
  /\ \A k \in DOMAIN texts : \A i \in DOMAIN texts[k] : texts[k][i][1] = b
  /\ \A i \in DOMAIN Text(b) : \E k \in DOMAIN texts : \E m \in DOMAIN texts[k] : texts[k][m] = <<b, i>>
  /\ IdsHaveRoom => \A j, k \in DOMAIN texts : j # k =>
       \A x, y : x.text = texts[j] /\ y.text = texts[k] => NodeId(x) # NodeId(y)

OfBlock(made, texts, b, here) ==
  /\ Fresh(made, {b}, here) /\ Len(made) = Len(texts)
  /\ \A k \in DOMAIN made : /\ k \in DOMAIN texts /\ made[k].text = texts[k]
                            /\ made[k].blocks = <<b>> /\ b \in Range(made[k].blocks)
  /\ \A i \in DOMAIN Text(b) : Holds(made, <<b, i>>)

LEMMA PartsSound ==
  ASSUME document \in Seq(Block), NEW b \in DOMAIN document, NEW type \in {"paragraph", "table"},
         NEW texts, PartsOf(texts, b), NEW here \in Seq(Nat),
         NEW made, made = Nodes(type, <<b>>, texts, here, <<>>)
  PROVE  OfBlock(made, texts, b, here) /\ \A k \in DOMAIN made : made[k].type = type
<1>1. PICK bs : bs = <<b>>
  OBVIOUS
<1>2. PICK parent : parent = <<>>
  OBVIOUS
<1>3. bs \in Seq(DOMAIN document) /\ bs # <<>> /\ Range(bs) = {b} /\ bs[1] = b
  BY <1>1 DEF Range
<1>4. /\ texts \in Seq(Seq(Pieces))
      /\ \A k \in DOMAIN texts : \A i \in DOMAIN texts[k] : texts[k][i][1] = b
      /\ \A i \in DOMAIN Text(b) : \E k \in DOMAIN texts : \E m \in DOMAIN texts[k] : texts[k][m] = <<b, i>>
  BY DEF PartsOf
<1>5. /\ type \in {"section", "paragraph", "table", "ocr"} /\ type # "section"
      /\ parent \in {<<>>} \cup ParentId /\ (bs = <<>> => texts = <<>>)
      /\ made = Nodes(type, bs, texts, here, parent)
  BY <1>1, <1>2, <1>3
<1>6. \A k \in DOMAIN texts : \A i \in DOMAIN texts[k] :
        texts[k][i][1] \in Range(bs) \cup Of({"heading"})
  BY <1>3, <1>4
<1>7. OfTexts(made, type, bs, texts, here, parent)
  BY <1>3, <1>4, <1>5, <1>6, NodesSound
<1>8. /\ Sound(made, Range(bs), here) /\ Len(made) = Len(texts)
      /\ \A k \in DOMAIN made :
           k \in DOMAIN texts /\ made[k].type = type /\ made[k].blocks = bs /\ made[k].text = texts[k]
           /\ made[k].parent = parent
  BY <1>7 DEF OfTexts
<1>9. \A k \in DOMAIN texts : \A i \in DOMAIN texts[k] :
        texts[k][i][1] \in Range(bs) => Holds(made, texts[k][i])
  BY <1>5, <1>7 DEF OfTexts
<1>10. ASSUME NEW i \in DOMAIN Text(b) PROVE Holds(made, <<b, i>>)
  <2>1. PICK k \in DOMAIN texts : \E m \in DOMAIN texts[k] : texts[k][m] = <<b, i>>
    BY <1>4
  <2>2. PICK m \in DOMAIN texts[k] : texts[k][m] = <<b, i>>
    BY <2>1
  <2>3. texts[k][m][1] \in Range(bs)
    BY <1>3, <1>4
  <2>. QED
    BY <1>9, <2>2, <2>3
<1>11. ASSUME IdsHaveRoom PROVE IdsDiffer(made)
  <2>1. \A j, k \in DOMAIN texts : j # k =>
          \A x, y : x.text = texts[j] /\ y.text = texts[k] => NodeId(x) # NodeId(y)
    BY <1>11 DEF PartsOf
  <2>2. ASSUME NEW j \in DOMAIN made, NEW k \in DOMAIN made, j # k
        PROVE  NodeId(made[j]) # NodeId(made[k])
    <3>1. j \in DOMAIN texts /\ k \in DOMAIN texts /\ made[j].text = texts[j] /\ made[k].text = texts[k]
      BY <1>8
    <3>. QED
      BY <2>1, <2>2, <3>1
  <2>. QED
    BY <2>2 DEF IdsDiffer
<1>12. ParentsIn(made, made)
  BY <1>2, <1>8 DEF ParentsIn
<1>13. Fresh(made, {b}, here)
  BY <1>3, <1>8, <1>11, <1>12 DEF Fresh
<1>14. \A k \in DOMAIN made : /\ k \in DOMAIN texts /\ made[k].text = texts[k]
                              /\ made[k].blocks = <<b>> /\ b \in Range(made[k].blocks)
  BY <1>1, <1>3, <1>8
<1>. QED
  BY <1>8, <1>10, <1>13, <1>14 DEF OfBlock

(* The windows of a text are parts of its block,                            *)
LEMMA WindowParts ==
  ASSUME ChunkTypeOK, InHand, IdLength \in Nat, NEW b \in DOMAIN document,
         NEW texts, texts = SplitByTokens(Text(b), setting.size, setting.overlap)
  PROVE  PartsOf(texts, b)
<1>1. PICK text : text = Text(b)
  OBVIOUS
<1>2. document \in Seq(Block) /\ setting.size \in Nat \ {0} /\ setting.overlap \in Nat
  BY DEF ChunkTypeOK, Setting
<1>3. /\ text \in Seq(Pieces)
      /\ \A i \in DOMAIN text : text[i] = <<b, i>> /\ i \in Nat
  BY <1>1, <1>2, TextPieces
<1>4. AreWindows(texts, text, Pieces)
  BY <1>1, <1>2, <1>3, SplitElements
<1>5. /\ texts \in Seq(Seq(Pieces))
      /\ \A k \in DOMAIN texts : texts[k] # <<>>
      /\ \A k \in DOMAIN texts : \A i \in DOMAIN texts[k] : \E j \in DOMAIN text : texts[k][i] = text[j]
      /\ \A j \in DOMAIN text : \E k \in DOMAIN texts : \E i \in DOMAIN texts[k] : texts[k][i] = text[j]
      /\ \A k, l \in DOMAIN texts : k < l =>
           \E i, j \in DOMAIN text : i < j /\ texts[k][1] = text[i] /\ texts[l][1] = text[j]
  BY <1>4 DEF AreWindows
<1>6. \A k \in DOMAIN texts : \A i \in DOMAIN texts[k] : texts[k][i][1] = b
  BY <1>3, <1>5
<1>7. \A i \in DOMAIN Text(b) : \E k \in DOMAIN texts : \E m \in DOMAIN texts[k] : texts[k][m] = <<b, i>>
  BY <1>1, <1>3, <1>5
<1>8. \A k, l \in DOMAIN texts : k # l => texts[k][1] # texts[l][1]
  <2>1. ASSUME NEW k \in DOMAIN texts, NEW l \in DOMAIN texts, k < l PROVE texts[k][1] # texts[l][1]
    <3>1. PICK i \in DOMAIN text, j \in DOMAIN text :
            i < j /\ texts[k][1] = text[i] /\ texts[l][1] = text[j]
      BY <1>5, <2>1
    <3>2. text[i] = <<b, i>> /\ text[j] = <<b, j>> /\ i \in Nat /\ j \in Nat
      BY <1>3
    <3>3. <<b, i>> # <<b, j>>
      BY <3>1, <3>2
    <3>. QED
      BY <3>1, <3>2, <3>3
  <2>2. \A k \in DOMAIN texts : k \in Nat
    BY <1>5
  <2>. QED
    BY <2>1, <2>2
<1>9. ASSUME IdsHaveRoom, NEW j \in DOMAIN texts, NEW k \in DOMAIN texts, j # k,
             NEW x, NEW y, x.text = texts[j], y.text = texts[k]
      PROVE  NodeId(x) # NodeId(y)
  <2>1. PICK prefix : prefix = <<>>
    OBVIOUS
  <2>2. PICK s : s = texts[j]
    OBVIOUS
  <2>3. PICK t : t = texts[k]
    OBVIOUS
  <2>4. s \in Seq(Pieces) /\ t \in Seq(Pieces) /\ s # <<>> /\ t # <<>> /\ s[1] # t[1]
    BY <1>5, <1>8, <1>9, <2>2, <2>3
  <2>5. x.text = prefix \o s /\ y.text = prefix \o t
    <3>1. <<>> \o s = s /\ <<>> \o t = t
      BY <2>4
    <3>. QED
      BY <1>9, <2>1, <2>2, <2>3, <3>1
  <2>6. prefix \in Seq(Pieces) /\ Len(prefix) < IdLength
    <3>1. Len(prefix) = 0 /\ prefix \in Seq(Pieces)
      BY <2>1, EmptySeq
    <3>. QED
      BY <1>9, <3>1, RoomForIds
  <2>. QED
    BY <2>4, <2>5, <2>6, BeginningsDiffer
<1>. QED
  BY <1>5, <1>6, <1>7, <1>9 DEF PartsOf

(* a text that is kept whole is one,                                        *)
LEMMA WholePart ==
  ASSUME document \in Seq(Block), NEW b \in DOMAIN document, NEW texts, texts = <<Text(b)>>
  PROVE  PartsOf(texts, b)
<1>1. PICK text : text = Text(b)
  OBVIOUS
<1>2. /\ text \in Seq(Pieces)
      /\ \A i \in DOMAIN text : text[i] = <<b, i>>
  BY <1>1, TextPieces
<1>3. texts \in Seq(Seq(Pieces)) /\ DOMAIN texts = {1} /\ texts[1] = text
  BY <1>1, <1>2
<1>4. \A k \in DOMAIN texts : \A i \in DOMAIN texts[k] : texts[k][i][1] = b
  BY <1>2, <1>3
<1>5. \A i \in DOMAIN Text(b) : \E k \in DOMAIN texts : \E m \in DOMAIN texts[k] : texts[k][m] = <<b, i>>
  BY <1>1, <1>2, <1>3
<1>6. \A j, k \in DOMAIN texts : j = k
  BY <1>3
<1>. QED
  BY <1>3, <1>4, <1>5, <1>6 DEF PartsOf

(* and so are the rows of a table.                                          *)
LEMMA RowParts ==
  ASSUME ChunkTypeOK, InHand, IdLength \in Nat, NEW b \in Of({"table"}),
         NEW texts, texts = SplitRows(b)
  PROVE  PartsOf(texts, b)
<1>1. document \in Seq(Block) /\ setting \in Setting /\ b \in DOMAIN document
  BY DEF ChunkTypeOK, Of
<1>2. texts = <<Text(b)>> \/ \E groups : ByRows(groups, texts, b)
  BY <1>1, RowsSplit
<1>3. CASE texts = <<Text(b)>>
  BY <1>1, <1>3, WholePart
<1>4. CASE \E groups : ByRows(groups, texts, b)
  <2>1. PICK groups : ByRows(groups, texts, b)
    BY <1>4
  <2>2. PICK h : h = Header(b)
    OBVIOUS
  <2>3. PICK rows : rows = Chained(groups)
    OBVIOUS
  <2>4. PICK text : text = Text(b)
    OBVIOUS
  <2>0. h \in Seq(Pieces) /\ text = h \o rows
    BY <2>1, <2>2, <2>3, <2>4 DEF ByRows
  <2>5. /\ groups \in Seq(Seq(Pieces)) /\ groups # <<>>
        /\ texts \in Seq(Seq(Pieces)) /\ DOMAIN texts = DOMAIN groups
        /\ \A k \in DOMAIN groups : texts[k] = h \o groups[k] /\ groups[k] # <<>>
        /\ \A j, k \in DOMAIN groups : j # k => groups[j][1] # groups[k][1]
    BY <2>1, <2>2 DEF ByRows
  <2>6. /\ rows \in Seq(Pieces)
        /\ \A k \in DOMAIN groups : \A i \in DOMAIN groups[k] :
             \E j \in DOMAIN rows : rows[j] = groups[k][i]
        /\ \A j \in DOMAIN rows :
             \E k \in DOMAIN groups : \E i \in DOMAIN groups[k] : rows[j] = groups[k][i]
    BY <2>3, <2>5, ChainedElements
  <2>7. /\ \A i \in DOMAIN h : i \in DOMAIN text /\ text[i] = h[i]
        /\ \A i \in DOMAIN rows : Len(h) + i \in DOMAIN text /\ text[Len(h) + i] = rows[i]
        /\ \A i \in DOMAIN text :
             \/ i \in DOMAIN h
             \/ i > Len(h) /\ i - Len(h) \in DOMAIN rows /\ text[i] = rows[i - Len(h)]
    <3>1. rows \in Seq(Pieces)
      BY <2>6
    <3>. QED
      BY <2>0, <3>1, JoinedElements
  <2>8. \A i \in DOMAIN text : text[i] = <<b, i>>
    BY <1>1, <2>4, TextPieces
  <2>9. ASSUME NEW k \in DOMAIN groups
        PROVE  /\ \A i \in DOMAIN texts[k] : texts[k][i][1] = b
               /\ \A i \in DOMAIN h : i \in DOMAIN texts[k] /\ texts[k][i] = h[i]
               /\ \A i \in DOMAIN groups[k] : \E m \in DOMAIN texts[k] : texts[k][m] = groups[k][i]
    <3>1. PICK g : g = groups[k]
      OBVIOUS
    <3>2. PICK t : t = texts[k]
      OBVIOUS
    <3>3. g \in Seq(Pieces) /\ t = h \o g
      <4>1. groups[k] \in Seq(Pieces)
        BY <2>5
      <4>2. texts[k] = h \o groups[k]
        BY <2>5
      <4>. QED
        BY <3>1, <3>2, <4>1, <4>2
    <3>4. /\ \A i \in DOMAIN h : i \in DOMAIN t /\ t[i] = h[i]
          /\ \A i \in DOMAIN g : Len(h) + i \in DOMAIN t /\ t[Len(h) + i] = g[i]
          /\ \A i \in DOMAIN t :
               \/ i \in DOMAIN h
               \/ i > Len(h) /\ i - Len(h) \in DOMAIN g /\ t[i] = g[i - Len(h)]
      BY <2>0, <3>3, JoinedElements
    <3>5. \A i \in DOMAIN h : h[i][1] = b
      BY <2>7, <2>8
    <3>6. \A i \in DOMAIN g : g[i][1] = b
      <4>1. \A j \in DOMAIN rows : rows[j][1] = b
        BY <2>7, <2>8
      <4>. QED
        BY <2>6, <3>1, <4>1
    <3>7. \A i \in DOMAIN t : t[i][1] = b
      BY <3>4, <3>5, <3>6
    <3>. QED
      BY <3>1, <3>2, <3>4, <3>7
  <2>10. ASSUME NEW i \in DOMAIN text
         PROVE  \E k \in DOMAIN texts : \E m \in DOMAIN texts[k] : texts[k][m] = <<b, i>>
    <3>1. text[i] = <<b, i>>
      BY <2>8
    <3>2. CASE i \in DOMAIN h
      <4>1. 1 \in DOMAIN groups
        BY <2>5
      <4>2. i \in DOMAIN texts[1] /\ texts[1][i] = h[i]
        BY <2>9, <3>2, <4>1
      <4>3. h[i] = <<b, i>>
        BY <2>7, <3>1, <3>2
      <4>. QED
        BY <2>5, <4>1, <4>2, <4>3
    <3>3. CASE i > Len(h) /\ i - Len(h) \in DOMAIN rows /\ text[i] = rows[i - Len(h)]
      <4>1. PICK j \in DOMAIN rows : rows[j] = <<b, i>>
        BY <3>1, <3>3
      <4>2. PICK k \in DOMAIN groups : \E o \in DOMAIN groups[k] : rows[j] = groups[k][o]
        BY <2>6
      <4>3. PICK o \in DOMAIN groups[k] : rows[j] = groups[k][o]
        BY <4>2
      <4>4. \E m \in DOMAIN texts[k] : texts[k][m] = groups[k][o]
        BY <2>9
      <4>. QED
        BY <2>5, <4>1, <4>3, <4>4
    <3>. QED
      BY <2>7, <3>2, <3>3
  <2>11. ASSUME IdsHaveRoom, NEW j \in DOMAIN texts, NEW k \in DOMAIN texts, j # k,
                NEW x, NEW y, x.text = texts[j], y.text = texts[k]
         PROVE  NodeId(x) # NodeId(y)
    <3>1. PICK s : s = groups[j]
      OBVIOUS
    <3>2. PICK t : t = groups[k]
      OBVIOUS
    <3>3. s \in Seq(Pieces) /\ t \in Seq(Pieces) /\ s # <<>> /\ t # <<>> /\ s[1] # t[1]
      BY <2>5, <2>11, <3>1, <3>2
    <3>4. x.text = h \o s /\ y.text = h \o t
      BY <2>5, <2>11, <3>1, <3>2
    <3>5. Len(h) < IdLength
      BY <2>2, <2>11 DEF IdsHaveRoom
    <3>. QED
      BY <2>0, <3>3, <3>4, <3>5, BeginningsDiffer
  <2>12. texts \in Seq(Seq(Pieces)) /\ \A k \in DOMAIN texts : \A i \in DOMAIN texts[k] : texts[k][i][1] = b
    BY <2>5, <2>9
  <2>13. \A i \in DOMAIN Text(b) : \E k \in DOMAIN texts : \E m \in DOMAIN texts[k] : texts[k][m] = <<b, i>>
    BY <2>4, <2>10
  <2>. QED
    BY <2>11, <2>12, <2>13 DEF PartsOf
<1>. QED
  BY <1>2, <1>3, <1>4

LEMMA OneBlock ==
  ASSUME ChunkTypeOK, InHand, setting.chunker \in {"fixed_token", "semantic_vector"},
         NEW texts, NEW made, OfBlock(made, texts, at, path),
         nodes' = nodes \o made, group' = <<>>, document' = document, setting' = setting,
         outcome = "chunking", outcome' = outcome, path' = path, at <= Len(document), at' = at + 1,
         at \notin Of({"heading"})
  PROVE  Adds(made)
<1>1. Passing = {at}
  <2>1. Range(group) = {}
    BY NoGroup
  <2>2. at \in Nat
    BY GroupPassed
  <2>. QED
    BY <2>1, <2>2 DEF Passing
<1>2. Here = path
  BY DEF Here
<1>3. Fresh(made, Passing, Here)
  BY <1>1, <1>2 DEF OfBlock
<1>4. \A b \in Of(Served) : b \in Passing => \A i \in DOMAIN Text(b) : Holds(made, <<b, i>>)
  BY <1>1 DEF OfBlock
<1>. QED
  BY <1>3, <1>4 DEF Adds

LEMMA StepKeepTable ==
  ASSUME ChunkTypeOK, InHand, KeepTable
  PROVE  \E made : StepOK(made)
<1>1. PICK made : made = <<MakeNode("table", <<at>>, Text(at), path, <<>>)>>
  OBVIOUS
<1>2. /\ nodes' = nodes \o made /\ group' = <<>> /\ document' = document /\ setting' = setting
      /\ outcome = "chunking" /\ outcome' = outcome /\ path' = path /\ at <= Len(document) /\ at' = at + 1
  BY <1>1 DEF KeepTable, Passed, More
<1>3. /\ setting.chunker \in {"fixed_token", "semantic_vector"} /\ at \in DOMAIN document
      /\ at \notin Of({"heading"})
      /\ document \in Seq(Block) /\ path \in Seq(Nat)
  BY DEF KeepTable, Of, ChunkTypeOK
<1>4. PICK texts : texts = <<Text(at)>>
  OBVIOUS
<1>5. PartsOf(texts, at)
  BY <1>3, <1>4, WholePart
<1>6. PICK type \in {"paragraph", "table"} : type = "table"
  OBVIOUS
<1>7. made = Nodes(type, <<at>>, texts, path, <<>>)
  <2>1. DOMAIN texts = {1} /\ DOMAIN texts = 1 .. 1
    BY <1>4
  <2>2. PICK n : n = MakeNode("table", <<at>>, Text(at), path, <<>>)
    OBVIOUS
  <2>3. Nodes(type, <<at>>, texts, path, <<>>) = [k \in 1 .. 1 |-> n]
    BY <1>4, <1>6, <2>1, <2>2 DEF Nodes
  <2>4. <<n>> = [k \in 1 .. 1 |-> n]
    OBVIOUS
  <2>. QED
    BY <1>1, <2>2, <2>3, <2>4
<1>8. OfBlock(made, texts, at, path)
  BY <1>3, <1>5, <1>7, PartsSound
<1>9. Adds(made)
  BY <1>2, <1>3, <1>8, OneBlock
<1>10. PICK n : n = Len(made) - 1
  OBVIOUS
<1>11. 1 .. Len(made) - 1 = {}
  <2>1. n = 0
    BY <1>1, <1>10
  <2>2. 1 .. n = {}
    BY <2>1
  <2>. QED
    BY <1>10, <2>2
<1>12. Windows(made)
  BY <1>11 DEF Windows
<1>. QED
  BY <1>3, <1>9, <1>12 DEF StepOK

LEMMA StepCut ==
  ASSUME ChunkTypeOK, InHand, IdLength \in Nat, Cut
  PROVE  \E made : StepOK(made)
<1>1. PICK texts : texts = SplitByTokens(Text(at), setting.size, setting.overlap)
  OBVIOUS
<1>2. PICK made : made = Nodes("paragraph", <<at>>, texts, path, <<>>)
  OBVIOUS
<1>3. /\ nodes' = nodes \o made /\ group' = <<>> /\ document' = document /\ setting' = setting
      /\ outcome = "chunking" /\ outcome' = outcome /\ path' = path /\ at <= Len(document) /\ at' = at + 1
  BY <1>1, <1>2 DEF Cut, Passed, More
<1>4. /\ setting.chunker = "fixed_token" /\ at \in DOMAIN document /\ at \notin Of({"heading"})
      /\ document \in Seq(Block) /\ path \in Seq(Nat)
      /\ setting.size \in Nat \ {0} /\ setting.overlap \in Nat
  BY DEF Cut, Of, ChunkTypeOK, Setting
<1>5. PartsOf(texts, at)
  BY <1>1, <1>4, WindowParts
<1>6. PICK type \in {"paragraph", "table"} : type = "paragraph"
  OBVIOUS
<1>7. OfBlock(made, texts, at, path)
  BY <1>2, <1>4, <1>5, <1>6, PartsSound
<1>8. Adds(made)
  BY <1>3, <1>4, <1>7, OneBlock
<1>9. /\ Len(made) = Len(texts) /\ made \in Seq(Node)
      /\ \A k \in DOMAIN made : made[k].text = texts[k] /\ made[k].blocks[1] = at
  BY <1>7 DEF OfBlock, Fresh, Sound
<1>10. ASSUME NEW k \in 1 .. Len(made) - 1
       PROVE  /\ made[k].blocks[1] = made[k + 1].blocks[1]
              /\ Overlapping(made[k].text, made[k + 1].text)
  <2>1. PICK text : text = Text(at)
    OBVIOUS
  <2>2. /\ text \in Seq(Pieces)
        /\ \A i \in DOMAIN text : text[i] = <<at, i>> /\ i \in Nat
    BY <1>4, <2>1, TextPieces
  <2>3. k \in 1 .. Len(texts) - 1 /\ k \in DOMAIN made /\ k + 1 \in DOMAIN made
    BY <1>9
  <2>11. PICK size : size = setting.size
    OBVIOUS
  <2>12. PICK overlap : overlap = setting.overlap
    OBVIOUS
  <2>4. /\ texts = SplitByTokens(text, size, overlap)
        /\ size \in Nat \ {0} /\ overlap \in Nat
    BY <1>1, <1>4, <2>1, <2>11, <2>12
  <2>5. PICK this : this = texts[k]
    OBVIOUS
  <2>6. PICK next : next = texts[k + 1]
    OBVIOUS
  <2>7. SharedPlaces(texts[k], texts[k + 1], text, size, overlap)
    BY <2>2, <2>3, <2>4, SplitOverlap
  <2>8. PICK i \in DOMAIN text, j \in DOMAIN text, m \in DOMAIN text :
          /\ next[1] = text[i] /\ this[Len(this)] = text[j] /\ next[Len(next)] = text[m]
          /\ Len(this) = size /\ Len(next) <= size
          /\ m > j
          /\ IF overlap < size THEN i = j - overlap + 1 ELSE i <= j + 1
    BY <2>5, <2>6, <2>7 DEF SharedPlaces
  <2>9. next[1][2] = i /\ this[Len(this)][2] = j /\ next[Len(next)][2] = m
    BY <2>2, <2>8
  <2>10. Overlapping(this, next)
    BY <2>8, <2>9, <2>11, <2>12 DEF Overlapping
  <2>. QED
    BY <1>9, <2>3, <2>5, <2>6, <2>10
<1>11. Windows(made)
  BY <1>10 DEF Windows
<1>. QED
  BY <1>4, <1>8, <1>11 DEF StepOK

LEMMA StepSplitTable ==
  ASSUME ChunkTypeOK, InHand, IdLength \in Nat, SplitTable
  PROVE  \E made : StepOK(made)
<1>1. PICK before : before = Flushed(path)
  OBVIOUS
<1>2. PICK texts : texts = SplitRows(at)
  OBVIOUS
<1>3. PICK rows : rows = Nodes("table", <<at>>, texts, path, <<>>)
  OBVIOUS
<1>4. PICK made : made = before \o rows
  OBVIOUS
<1>5. /\ nodes' = nodes \o made /\ group' = <<>> /\ document' = document /\ setting' = setting
      /\ outcome = "chunking" /\ outcome' = outcome /\ path' = path /\ at <= Len(document) /\ at' = at + 1
  BY <1>1, <1>2, <1>3, <1>4 DEF SplitTable, Passed, More
<1>6. /\ setting.chunker = "table_aware" /\ at \in Of({"table"}) /\ at \in DOMAIN document
      /\ at \notin Of({"heading"})
      /\ document \in Seq(Block) /\ path \in Seq(Nat)
  BY DEF SplitTable, Of, ChunkTypeOK
<1>7. Here = path
  BY <1>6 DEF Here
<1>8. Fresh(before, Range(group), path) /\ Keeps(before)
  BY <1>1, <1>7, AllFlushed
<1>9. PartsOf(texts, at)
  BY <1>2, <1>6, RowParts
<1>10. PICK type \in {"paragraph", "table"} : type = "table"
  OBVIOUS
<1>11. OfBlock(rows, texts, at, path) /\ \A k \in DOMAIN rows : rows[k].type = type
  BY <1>3, <1>6, <1>9, <1>10, PartsSound
<1>12. /\ Fresh(rows, {at}, path) /\ Len(rows) = Len(texts)
       /\ \A k \in DOMAIN rows : /\ k \in DOMAIN texts /\ rows[k].text = texts[k]
                                 /\ at \in Range(rows[k].blocks)
       /\ \A i \in DOMAIN Text(at) : Holds(rows, <<at, i>>)
  BY <1>11 DEF OfBlock
<1>13. /\ Range(group) \subseteq 1 .. at - 1 /\ at \in Nat /\ at > 0 /\ at \notin Range(group)
  BY GroupPassed
<1>14. Passing = Range(group) \cup {at}
  BY <1>5, <1>13 DEF Passing
<1>15. Fresh(made, Range(group) \cup {at}, path)
  BY <1>4, <1>8, <1>12, <1>13, FreshJoined
<1>16. before \in Seq(Node) /\ rows \in Seq(Node) /\ made \in Seq(Node)
  BY <1>8, <1>12, <1>15 DEF Fresh, Sound
<1>17. ASSUME NEW b \in Of(Served), b \in Passing
       PROVE  \A i \in DOMAIN Text(b) : Holds(made, <<b, i>>)
  <2>1. CASE b \in Range(group)
    <3>1. \A i \in DOMAIN Text(b) : Holds(before, <<b, i>>)
      BY <1>8, <2>1, KeepsServed
    <3>. QED
      BY <1>4, <1>16, <3>1, HoldsJoined
  <2>2. CASE b = at
    BY <1>4, <1>12, <1>16, <2>2, HoldsJoined
  <2>. QED
    BY <1>14, <1>17, <2>1, <2>2
<1>18. Adds(made)
  BY <1>5, <1>6, <1>7, <1>14, <1>15, <1>17 DEF Adds
<1>19. RowsOf(made, at)
  <2>1. PICK n \in Nat : n = Len(before)
    BY <1>16
  <2>2. /\ Len(made) = n + Len(rows)
        /\ \A i \in DOMAIN before : made[i] = before[i]
        /\ \A i \in DOMAIN rows : made[n + i] = rows[i]
    BY <1>4, <1>16, <2>1, JoinedElements
  <2>3. n \in 0 .. Len(made)
    BY <1>16, <2>1, <2>2
  <2>4. \A k \in 1 .. n : at \notin Range(made[k].blocks)
    <3>1. ASSUME NEW k \in 1 .. n PROVE at \notin Range(made[k].blocks)
      <4>1. k \in DOMAIN before
        BY <1>16, <2>1
      <4>2. Range(before[k].blocks) \subseteq Range(group)
        BY <1>8, <4>1 DEF Fresh, Sound, SoundNode
      <4>. QED
        BY <1>13, <2>2, <4>1, <4>2
    <3>. QED
      BY <3>1
  <2>5. ASSUME NEW k \in DOMAIN SplitRows(at)
        PROVE  /\ made[n + k].type = "table" /\ at \in Range(made[n + k].blocks)
               /\ made[n + k].text = SplitRows(at)[k]
    <3>1. k \in DOMAIN texts
      BY <1>2
    <3>2. DOMAIN rows = DOMAIN texts
      <4>1. texts \in Seq(Seq(Pieces))
        BY <1>9 DEF PartsOf
      <4>2. DOMAIN rows = 1 .. Len(rows) /\ DOMAIN texts = 1 .. Len(texts)
        BY <1>16, <4>1
      <4>. QED
        BY <1>12, <4>2
    <3>3. k \in DOMAIN rows /\ made[n + k] = rows[k]
      BY <2>2, <3>1, <3>2
    <3>. QED
      BY <1>2, <1>10, <1>11, <1>12, <3>3
  <2>. QED
    BY <1>2, <1>12, <2>2, <2>3, <2>4, <2>5 DEF RowsOf
<1>. QED
  BY <1>6, <1>18, <1>19 DEF StepOK

(* Each step but the one that breaks off is such a step.                    *)
LEMMA EachStep ==
  ASSUME ChunkTypeOK, InHand, IdLength \in Nat, ChunkNext
  PROVE  BreakOff \/ \E made : StepOK(made)
BY StepPassHeading, StepGather, StepCut, StepKeepTable, StepSplitTable, StepPassOver, StepFinish
   DEF ChunkNext

-----------------------------------------------------------------------------
(* What the steps preserve.                                                 *)
IsPushed(p, m) ==
  /\ m \in Nat /\ m <= Len(path) /\ m = Least(document[at].level - 1, Len(path))
  /\ p \in Seq(Nat) /\ Len(p) = m + 1 /\ p[m + 1] = at
  /\ \A k \in 1 .. m : k \in DOMAIN path /\ p[k] = path[k]

LEMMA Pushed ==
  ASSUME ChunkTypeOK, InHand, at \in Of({"heading"}), NEW p, p = PushHeading(at)
  PROVE  \E m : IsPushed(p, m)
<1>1. /\ document \in Seq(Block) /\ path \in Seq(Nat) /\ at \in DOMAIN document /\ at \in Nat
      /\ Len(path) \in Nat
  BY GroupPassed DEF ChunkTypeOK, Of
<1>2. document[at].level \in 1 .. 6
  BY <1>1, BlockFields
<1>3. PICK n \in Nat : n = document[at].level - 1
  BY <1>2
<1>4. PICK m : m = Least(n, Len(path))
  OBVIOUS
<1>5. m \in Nat /\ m <= Len(path)
  BY <1>1, <1>3, <1>4, LeastOf
<1>6. PICK q : q = SubSeq(path, 1, m)
  OBVIOUS
<1>7. q \in Seq(Nat) /\ Len(q) = m /\ \A k \in 1 .. m : k \in DOMAIN path /\ q[k] = path[k]
  BY <1>1, <1>5, <1>6
<1>8. p = Append(q, at)
  BY <1>3, <1>4, <1>6 DEF PushHeading
<1>9. p \in Seq(Nat) /\ Len(p) = m + 1 /\ p[m + 1] = at /\ \A k \in 1 .. m : p[k] = q[k]
  BY <1>1, <1>5, <1>7, <1>8
<1>. QED
  BY <1>3, <1>4, <1>5, <1>7, <1>9 DEF IsPushed

LEMMA Unchanged ==
  ASSUME document' = document, setting' = setting
  PROVE  /\ \A types : Of(types)' = Of(types)
         /\ Served' = Served /\ Gathered' = Gathered
  BY DEF Of, Served, Gathered

LEMMA TypeStep ==
  ASSUME ChunkTypeOK, InHand, NEW made, Adds(made)
  PROVE  ChunkTypeOK'
<1>1. document' \in Seq(Block) /\ setting' \in Setting
  BY DEF Adds, ChunkTypeOK
<1>2. at' \in 1 .. Len(document') + 1
  <2>1. Len(document) \in Nat /\ at \in 1 .. Len(document) + 1
    BY DEF ChunkTypeOK
  <2>. QED
    BY <2>1 DEF Adds
<1>3. path' \in Seq(Nat)
  <2>1. CASE path' = path
    BY <2>1 DEF ChunkTypeOK
  <2>2. CASE at \in Of({"heading"}) /\ path' = PushHeading(at)
    <3>1. PICK p : p = PushHeading(at)
      OBVIOUS
    <3>2. PICK m : IsPushed(p, m)
      BY <2>2, <3>1, Pushed
    <3>3. p \in Seq(Nat)
      BY <3>2 DEF IsPushed
    <3>. QED
      BY <2>2, <3>1, <3>3
  <2>. QED
    BY <2>1, <2>2 DEF Adds
<1>4. group' \in Seq(Nat)
  <2>1. group \in Seq(Nat) /\ at \in Nat
    BY GroupPassed DEF ChunkTypeOK
  <2>2. CASE group' = Append(group, at)
    BY <2>1, <2>2
  <2>3. CASE group' = <<>>
    BY <2>3, EmptySeq
  <2>. QED
    BY <2>1, <2>2, <2>3 DEF Adds
<1>5. nodes' \in Seq(Node)
  <2>1. nodes \in Seq(Node) /\ made \in Seq(Node)
    BY DEF ChunkTypeOK, Adds, Fresh, Sound
  <2>2. nodes \o made \in Seq(Node)
    BY <2>1, JoinedElements
  <2>. QED
    BY <2>2 DEF Adds
<1>6. outcome' \in {"chunking", "chunked", "failed"}
  BY DEF Adds
<1>. QED
  BY <1>1, <1>2, <1>3, <1>4, <1>5, <1>6 DEF ChunkTypeOK

LEMMA HandStep ==
  ASSUME ChunkTypeOK, InHand, NEW made, Adds(made)
  PROVE  InHand'
<1>1. /\ Of({"heading"})' = Of({"heading"}) /\ Gathered' = Gathered /\ document' = document
      /\ Of(Gathered)' = Of(Gathered)
  BY Unchanged DEF Adds, Of, Gathered
<1>2. /\ at \in Nat /\ at' \in Nat /\ at <= at'
      /\ path \in Seq(Nat) /\ group \in Seq(Nat) /\ Len(path) \in Nat /\ Len(group) \in Nat
      /\ DOMAIN path = 1 .. Len(path) /\ DOMAIN group = 1 .. Len(group)
  BY GroupPassed DEF Adds, ChunkTypeOK
<1>3. /\ Ascends(path) /\ \A k \in DOMAIN path : path[k] \in Of({"heading"}) /\ path[k] < at
      /\ Ascends(group) /\ \A k \in DOMAIN group : group[k] \in Of(Gathered) /\ group[k] < at
  BY DEF InHand
<1>4. /\ Ascends(path') /\ \A k \in DOMAIN path' : path'[k] \in Of({"heading"}) /\ path'[k] < at'
  <2>1. CASE path' = path
    <3>1. \A k \in DOMAIN path : path[k] < at'
      <4>1. \A k \in DOMAIN path : path[k] \in Nat
        BY <1>2
      <4>. QED
        BY <1>2, <1>3, <4>1
    <3>. QED
      BY <1>3, <2>1, <3>1
  <2>2. CASE at \in Of({"heading"}) /\ path' = PushHeading(at)
    <3>1. PICK p : p = PushHeading(at)
      OBVIOUS
    <3>2. PICK m : IsPushed(p, m)
      BY <2>2, <3>1, Pushed
    <3>3. /\ m \in Nat /\ p \in Seq(Nat) /\ Len(p) = m + 1 /\ p[m + 1] = at
          /\ \A k \in 1 .. m : k \in DOMAIN path /\ p[k] = path[k]
      BY <3>2 DEF IsPushed
    <3>4. DOMAIN p = 1 .. m + 1
      BY <3>3
    <3>5. at' = at + 1
      <4>1. at \in 1 .. Len(document)
        BY <2>2 DEF Of, ChunkTypeOK
      <4>2. Len(document) \in Nat
        BY DEF ChunkTypeOK
      <4>. QED
        BY <4>1, <4>2 DEF Adds
    <3>6. ASSUME NEW k \in DOMAIN p PROVE p[k] \in Of({"heading"}) /\ p[k] < at' /\ p[k] <= at
      <4>1. CASE k = m + 1
        BY <1>2, <2>2, <3>3, <3>5, <4>1
      <4>2. CASE k \in 1 .. m
        <5>1. k \in DOMAIN path /\ p[k] = path[k]
          BY <3>3, <4>2
        <5>2. p[k] \in Of({"heading"}) /\ p[k] < at /\ p[k] \in Nat
          BY <1>2, <1>3, <5>1
        <5>. QED
          BY <1>2, <3>5, <5>2
      <4>. QED
        BY <3>3, <3>4, <4>1, <4>2
    <3>7. ASSUME NEW j \in DOMAIN p, NEW k \in DOMAIN p, j < k PROVE p[j] < p[k]
      <4>1. j \in 1 .. m
        BY <3>3, <3>4, <3>7
      <4>2. j \in DOMAIN path /\ p[j] = path[j] /\ p[j] < at
        BY <1>3, <3>3, <4>1
      <4>3. CASE k = m + 1
        BY <3>3, <4>2, <4>3
      <4>4. CASE k \in 1 .. m
        <5>1. k \in DOMAIN path /\ p[k] = path[k]
          BY <3>3, <4>4
        <5>. QED
          BY <1>3, <3>7, <4>2, <5>1 DEF Ascends
      <4>. QED
        BY <3>3, <3>4, <4>3, <4>4
    <3>8. Ascends(p)
      BY <3>7 DEF Ascends
    <3>9. p = path'
      BY <2>2, <3>1
    <3>. QED
      BY <3>6, <3>8, <3>9
  <2>. QED
    BY <2>1, <2>2 DEF Adds
<1>5. /\ Ascends(group') /\ \A k \in DOMAIN group' : group'[k] \in Of(Gathered) /\ group'[k] < at'
  <2>1. CASE group' = group
    <3>1. \A k \in DOMAIN group : group[k] < at'
      <4>1. \A k \in DOMAIN group : group[k] \in Nat
        BY <1>2
      <4>. QED
        BY <1>2, <1>3, <4>1
    <3>. QED
      BY <1>3, <2>1, <3>1
  <2>2. CASE group' = Append(group, at) /\ at \in Of(Gathered)
    <3>1. PICK g : g = Append(group, at)
      OBVIOUS
    <3>2. PICK m \in Nat : m = Len(group)
      BY <1>2
    <3>3. /\ g \in Seq(Nat) /\ DOMAIN g = 1 .. m + 1 /\ g[m + 1] = at
          /\ \A k \in 1 .. m : k \in DOMAIN group /\ g[k] = group[k]
      BY <1>2, <3>1, <3>2
    <3>5. at' = at + 1
      <4>1. at \in 1 .. Len(document)
        BY <2>2 DEF Of, ChunkTypeOK
      <4>2. Len(document) \in Nat
        BY DEF ChunkTypeOK
      <4>. QED
        BY <4>1, <4>2 DEF Adds
    <3>6. ASSUME NEW k \in DOMAIN g PROVE g[k] \in Of(Gathered) /\ g[k] < at' /\ g[k] <= at
      <4>1. CASE k = m + 1
        BY <1>2, <2>2, <3>3, <3>5, <4>1
      <4>2. CASE k \in 1 .. m
        <5>1. k \in DOMAIN group /\ g[k] = group[k]
          BY <3>3, <4>2
        <5>2. g[k] \in Of(Gathered) /\ g[k] < at /\ g[k] \in Nat
          BY <1>2, <1>3, <5>1
        <5>. QED
          BY <1>2, <3>5, <5>2
      <4>. QED
        BY <3>2, <3>3, <4>1, <4>2
    <3>7. ASSUME NEW j \in DOMAIN g, NEW k \in DOMAIN g, j < k PROVE g[j] < g[k]
      <4>1. j \in 1 .. m
        BY <3>2, <3>3, <3>7
      <4>2. j \in DOMAIN group /\ g[j] = group[j] /\ g[j] < at
        BY <1>3, <3>3, <4>1
      <4>3. CASE k = m + 1
        BY <3>3, <4>2, <4>3
      <4>4. CASE k \in 1 .. m
        <5>1. k \in DOMAIN group /\ g[k] = group[k]
          BY <3>3, <4>4
        <5>. QED
          BY <1>3, <3>7, <4>2, <5>1 DEF Ascends
      <4>. QED
        BY <3>2, <3>3, <4>3, <4>4
    <3>8. Ascends(g)
      BY <3>7 DEF Ascends
    <3>9. g = group'
      BY <2>2, <3>1
    <3>. QED
      BY <3>6, <3>8, <3>9
  <2>3. CASE group' = <<>>
    <3>1. PICK g : g = <<>>
      OBVIOUS
    <3>2. DOMAIN g = {}
      BY <3>1
    <3>3. g = group'
      BY <2>3, <3>1
    <3>4. Ascends(g)
      BY <3>2 DEF Ascends
    <3>. QED
      BY <3>2, <3>3, <3>4
  <2>. QED
    BY <2>1, <2>2, <2>3 DEF Adds
<1>6. outcome' = "chunked" => at' > Len(document') /\ group' = <<>>
  <2>1. outcome = "chunking"
    BY DEF Adds
  <2>. QED
    BY <1>1, <2>1 DEF Adds
<1>. QED
  BY <1>1, <1>4, <1>5, <1>6 DEF InHand, Ascends

LEMMA AddedNodes ==
  ASSUME ChunkTypeOK, NEW made, Adds(made)
  PROVE  /\ nodes \in Seq(Node) /\ made \in Seq(Node) /\ nodes' \in Seq(Node)
         /\ Len(nodes') = Len(nodes) + Len(made)
         /\ \A i \in DOMAIN nodes : i \in DOMAIN nodes' /\ nodes'[i] = nodes[i]
         /\ \A i \in DOMAIN made : Len(nodes) + i \in DOMAIN nodes' /\ nodes'[Len(nodes) + i] = made[i]
         /\ \A i \in DOMAIN nodes' :
              \/ i \in DOMAIN nodes
              \/ i > Len(nodes) /\ i - Len(nodes) \in DOMAIN made /\ nodes'[i] = made[i - Len(nodes)]
<1>1. nodes \in Seq(Node) /\ made \in Seq(Node) /\ nodes' = nodes \o made
  BY DEF ChunkTypeOK, Adds, Fresh, Sound
<1>. QED
  BY <1>1, JoinedElements

LEMMA PassedBlocks ==
  ASSUME ChunkTypeOK, InHand, NEW made, Adds(made)
  PROVE  /\ Passing \subseteq 1 .. at' - 1 /\ at \in Nat /\ at' \in Nat /\ at <= at' /\ at' <= at + 1
         /\ Passing \cap ((1 .. at - 1) \ Range(group)) = {}
         /\ made = <<>> \/ Range(group') = {}
         /\ Range(group') \subseteq Range(group) \cup {at}
         /\ Range(group) \subseteq Passing
<1>1. /\ Range(group) \subseteq 1 .. at - 1 /\ at \in Nat /\ at > 0 /\ at \notin Range(group)
  BY GroupPassed
<1>2. at' \in Nat /\ at <= at' /\ at' <= at + 1
  BY <1>1 DEF Adds
<1>3. Passing \subseteq 1 .. at' - 1
  <2>1. ASSUME NEW b \in Passing PROVE b \in 1 .. at' - 1
    <3>1. b < at' /\ (b = at \/ b \in 1 .. at - 1)
      BY <1>1 DEF Passing
    <3>. QED
      BY <1>1, <1>2, <3>1
  <2>. QED
    BY <2>1
<1>4. Passing \cap ((1 .. at - 1) \ Range(group)) = {}
  <2>1. at \notin 1 .. at - 1
    BY <1>1
  <2>. QED
    BY <2>1 DEF Passing
<1>5. group' = <<>> => Range(group') = {}
  BY DEF Range
<1>6. group' = Append(group, at) => Range(group') \subseteq Range(group) \cup {at}
  <2>1. SUFFICES ASSUME group' = Append(group, at) PROVE Range(group') \subseteq Range(group) \cup {at}
    OBVIOUS
  <2>2. PICK g : g = Append(group, at)
    OBVIOUS
  <2>3. group \in Seq(Nat)
    BY DEF ChunkTypeOK
  <2>4. \A k \in DOMAIN g : g[k] = at \/ (k \in DOMAIN group /\ g[k] = group[k])
    BY <1>1, <2>2, <2>3
  <2>5. Range(g) \subseteq Range(group) \cup {at}
    BY <2>4 DEF Range
  <2>. QED
    BY <2>1, <2>2, <2>5
<1>7. Range(group) \subseteq Passing
  BY <1>1, <1>2 DEF Passing
<1>. QED
  BY <1>1, <1>2, <1>3, <1>4, <1>5, <1>6, <1>7 DEF Adds

LEMMA FromBlocksStep ==
  ASSUME ChunkTypeOK, InHand, NodesFromBlocks, NEW made, Adds(made)
  PROVE  NodesFromBlocks'
<1>1. SUFFICES ASSUME NEW k \in DOMAIN nodes'
               PROVE  /\ nodes'[k].blocks # <<>>
                      /\ \A j \in DOMAIN nodes'[k].blocks :
                           nodes'[k].blocks[j] \in 1 .. at' - 1 /\ nodes'[k].blocks[j] \notin Range(group')
                      /\ \A j \in DOMAIN nodes'[k].text :
                           nodes'[k].text[j][1] \in Range(nodes'[k].blocks) \cup Of({"heading"})
  <2>1. Of({"heading"})' = Of({"heading"})
    BY Unchanged DEF Adds, Of
  <2>. QED
    BY <1>1, <2>1 DEF NodesFromBlocks, Range
<1>2. PICK n : n = nodes'[k]
  OBVIOUS
<1>3. /\ Passing \subseteq 1 .. at' - 1 /\ at \in Nat /\ at' \in Nat /\ at <= at'
      /\ made = <<>> \/ Range(group') = {}
      /\ Range(group') \subseteq Range(group) \cup {at}
  BY PassedBlocks
<1>4. \/ k \in DOMAIN nodes /\ n = nodes[k]
      \/ k - Len(nodes) \in DOMAIN made /\ n = made[k - Len(nodes)]
  BY <1>2, AddedNodes
<1>5. CASE k \in DOMAIN nodes /\ n = nodes[k]
  <2>1. /\ n.blocks # <<>>
        /\ \A j \in DOMAIN n.blocks : n.blocks[j] \in 1 .. at - 1 /\ n.blocks[j] \notin Range(group)
        /\ \A j \in DOMAIN n.text : n.text[j][1] \in Range(n.blocks) \cup Of({"heading"})
    BY <1>5 DEF NodesFromBlocks
  <2>2. \A j \in DOMAIN n.blocks : n.blocks[j] \in 1 .. at' - 1 /\ n.blocks[j] # at
    BY <1>3, <2>1
  <2>. QED
    BY <1>2, <1>3, <2>1, <2>2
<1>6. CASE k - Len(nodes) \in DOMAIN made /\ n = made[k - Len(nodes)]
  <2>1. SoundNode(n, Passing, Here)
    BY <1>6 DEF Adds, Fresh, Sound
  <2>2. /\ n.blocks # <<>> /\ Range(n.blocks) \subseteq Passing
        /\ \A j \in DOMAIN n.text : n.text[j][1] \in Range(n.blocks) \cup Of({"heading"})
    BY <2>1 DEF SoundNode
  <2>3. \A j \in DOMAIN n.blocks : n.blocks[j] \in 1 .. at' - 1
    BY <1>3, <2>2 DEF Range
  <2>4. Range(group') = {}
    <3>1. made # <<>>
      BY <1>6
    <3>. QED
      BY <1>3, <3>1
  <2>. QED
    BY <1>2, <2>2, <2>3, <2>4
<1>. QED
  BY <1>4, <1>5, <1>6

LEMMA KeptStep ==
  ASSUME ChunkTypeOK, InHand, KeptSoFar, NEW made, Adds(made)
  PROVE  KeptSoFar'
<1>1. /\ nodes \in Seq(Node) /\ made \in Seq(Node) /\ nodes' = nodes \o made
  BY AddedNodes DEF Adds
<1>2. /\ at \in Nat /\ at' \in Nat /\ at <= at' /\ at' <= at + 1 /\ Range(group) \subseteq Passing
  BY PassedBlocks
<1>3. \A b \in Of(Served) : b \in Passing =>
        b \in Range(group') \/ \A i \in DOMAIN Text(b) : Holds(made, <<b, i>>)
  BY DEF Adds
<1>4. \A p : Holds(nodes, p) \/ Holds(made, p) => Holds(nodes \o made, p)
  BY <1>1, HoldsJoined
<1>5. ASSUME NEW b \in Of(Served), b < at'
      PROVE  b \in Range(group') \/ \A i \in DOMAIN Text(b) : Holds(nodes \o made, <<b, i>>)
  <2>1. b \in Nat
    BY BlockFields DEF Of, ChunkTypeOK
  <2>2. CASE b \in Passing
    BY <1>3, <1>4, <2>2
  <2>3. CASE b \notin Passing
    <3>1. b < at /\ b \notin Range(group)
      BY <1>2, <1>5, <2>1, <2>3 DEF Passing
    <3>2. \A i \in DOMAIN Text(b) : Holds(nodes, <<b, i>>)
      BY <3>1 DEF KeptSoFar
    <3>. QED
      BY <1>4, <3>2
  <2>. QED
    BY <2>2, <2>3
<1>6. \A b : Text(b)' = Text(b)
  BY DEF Text, Adds
<1>7. \A p : Holds(nodes, p)' = Holds(nodes \o made, p)
  BY <1>1 DEF Holds, Range
<1>8. Of(Served)' = Of(Served)
  BY DEF Of, Served, Adds
<1>. QED
  BY <1>5, <1>6, <1>7, <1>8 DEF KeptSoFar, Range

(* The headings above a block.                                              *)
LEMMA SameHeadings ==
  ASSUME document' = document, setting' = setting
  PROVE  (WellNested)' = WellNested /\ \A b : HeadingsAbove(b)' = HeadingsAbove(b)
  BY DEF WellNested, HeadingsAbove, Of

LEMMA LowerPart ==
  ASSUME NEW n \in Nat, NEW K \in SUBSET (1 .. n),
         \A k \in K : \A j \in 1 .. k : j \in K
  PROVE  \E c \in Nat : K = 1 .. c
<1>1. IsFiniteSet(1 .. n)
  BY FS_Interval
<1>2. IsFiniteSet(K)
  BY <1>1, FS_Subset
<1>3. K \subseteq Int
  OBVIOUS
<1>4. PICK c : c = Cardinality(K)
  OBVIOUS
<1>5. PICK a : a = Ascending(K)
  OBVIOUS
<1>6. /\ c \in Nat /\ a \in [1 .. c -> K]
      /\ \A m \in K : \E k \in 1 .. c : a[k] = m
      /\ \A k \in 1 .. c : Cardinality({m \in K : m <= a[k]}) = k
  <2>1. Cardinality(K) \in Nat /\ Ascending(K) \in [1 .. Cardinality(K) -> K]
    BY <1>2, <1>3, AscendingRanks, Zenon
  <2>2. \A m \in K : \E k \in 1 .. Cardinality(K) : Ascending(K)[k] = m
    BY <1>2, <1>3, AscendingRanks, Zenon
  <2>3. \A k \in 1 .. Cardinality(K) : Cardinality({m \in K : m <= Ascending(K)[k]}) = k
    BY <1>2, <1>3, AscendingRanks, Zenon
  <2>. QED
    BY <1>4, <1>5, <2>1, <2>2, <2>3, Zenon
<1>7. ASSUME NEW k \in 1 .. c PROVE a[k] = k
  <2>1. PICK i : i = a[k]
    OBVIOUS
  <2>2. i \in K /\ i \in Nat /\ i > 0
    BY <1>6, <2>1
  <2>3. {m \in K : m <= i} = 1 .. i
    <3>1. \A j \in 1 .. i : j \in K /\ j <= i
      BY <2>2
    <3>2. \A m \in K : m <= i => m \in 1 .. i
      <4>1. \A m \in K : m \in Nat /\ m > 0
        OBVIOUS
      <4>. QED
        BY <2>2, <4>1
    <3>. QED
      BY <3>1, <3>2
  <2>4. Cardinality(1 .. i) = (IF 1 > i THEN 0 ELSE i - 1 + 1)
    BY <2>2, FS_Interval
  <2>5. Cardinality(1 .. i) = i
    BY <2>2, <2>4
  <2>6. Cardinality({m \in K : m <= i}) = k
    BY <1>6, <2>1
  <2>. QED
    BY <2>1, <2>3, <2>5, <2>6
<1>8. K = 1 .. c
  <2>1. \A k \in 1 .. c : k \in K
    BY <1>6, <1>7
  <2>2. \A m \in K : m \in 1 .. c
    BY <1>6, <1>7
  <2>. QED
    BY <2>1, <2>2
<1>. QED
  BY <1>6, <1>8

LEMMA NextHeadings ==
  ASSUME document \in Seq(Block), NEW b \in Nat
  PROVE  HeadingsAbove(b + 1) =
           IF b \in Of({"heading"})
           THEN {b} \cup {h \in HeadingsAbove(b) : document[h].level < document[b].level}
           ELSE HeadingsAbove(b)
<1>1. PICK H : H = Of({"heading"})
  OBVIOUS
<1>2. \A h \in H : h \in Nat /\ document[h].level \in Nat
  <2>1. ASSUME NEW h \in H PROVE h \in Nat /\ document[h].level \in Nat
    <3>1. h \in DOMAIN document
      BY <1>1 DEF Of
    <3>2. h \in Nat /\ document[h].level \in 1 .. 6
      BY <3>1, BlockFields, Zenon
    <3>. QED
      BY <3>2
  <2>. QED
    BY <2>1
<1>3. HeadingsAbove(b) = {h \in H : h < b /\ \A g \in H : h < g /\ g < b => document[g].level > document[h].level}
  BY <1>1 DEF HeadingsAbove
<1>4. HeadingsAbove(b + 1) =
        {h \in H : h < b + 1 /\ \A g \in H : h < g /\ g < b + 1 => document[g].level > document[h].level}
  BY <1>1 DEF HeadingsAbove
<1>5. \A h \in H : h < b + 1 <=> h < b \/ h = b
  BY <1>2
<1>6. CASE b \notin H
  <2>1. \A h \in H : h < b + 1 <=> h < b
    BY <1>5, <1>6
  <2>. QED
    BY <1>1, <1>3, <1>4, <1>6, <2>1
<1>7. CASE b \in H
  <2>1. ASSUME NEW h \in HeadingsAbove(b + 1)
        PROVE  h = b \/ (h \in HeadingsAbove(b) /\ document[h].level < document[b].level)
    <3>1. h \in H /\ (h < b \/ h = b)
      BY <1>4, <1>5
    <3>2. \A g \in H : h < g /\ (g < b \/ g = b) => document[g].level > document[h].level
      BY <1>4, <1>5
    <3>3. CASE h < b
      <4>1. document[h].level < document[b].level
        BY <1>2, <1>7, <3>1, <3>2, <3>3
      <4>. QED
        BY <1>3, <3>1, <3>2, <3>3, <4>1
    <3>. QED
      BY <3>1, <3>3
  <2>2. b \in HeadingsAbove(b + 1)
    <3>1. \A g \in H : ~(b < g /\ g < b + 1)
      BY <1>2
    <3>. QED
      BY <1>4, <1>7, <3>1
  <2>3. ASSUME NEW h \in HeadingsAbove(b), document[h].level < document[b].level
        PROVE  h \in HeadingsAbove(b + 1)
    <3>1. h \in H /\ h < b /\ \A g \in H : h < g /\ g < b => document[g].level > document[h].level
      BY <1>3
    <3>2. h < b + 1
      BY <1>5, <3>1
    <3>3. ASSUME NEW g \in H, h < g, g < b + 1 PROVE document[g].level > document[h].level
      <4>1. g < b \/ g = b
        BY <1>5, <3>3
      <4>2. document[b].level > document[h].level
        BY <1>2, <1>7, <2>3, <3>1
      <4>. QED
        BY <3>1, <3>3, <4>1, <4>2
    <3>. QED
      BY <1>4, <3>1, <3>2, <3>3
  <2>. QED
    BY <1>1, <1>7, <2>1, <2>2, <2>3
<1>. QED
  BY <1>1, <1>6, <1>7

(* In a document that skips no level, the headings above a heading are as   *)
(* many as its level says, so that the path of the next block is found.     *)
LEMMA PushedHeadings ==
  ASSUME ChunkTypeOK, InHand, WellNested, at \in Of({"heading"}), Range(path) = HeadingsAbove(at),
         NEW p, p = PushHeading(at)
  PROVE  Range(p) = HeadingsAbove(at + 1)
<1>1. PICK n \in Nat : n = Len(path) /\ DOMAIN path = 1 .. n
  BY DEF ChunkTypeOK
<1>2. PICK level : level = [k \in 1 .. n |-> document[path[k]].level]
  OBVIOUS
<1>3. PICK l : l = document[at].level
  OBVIOUS
<1>4. /\ document \in Seq(Block) /\ path \in Seq(Nat) /\ at \in DOMAIN document /\ at \in Nat
      /\ \A k \in 1 .. n : path[k] \in DOMAIN document
  BY <1>1, GroupPassed DEF ChunkTypeOK, Of, InHand
<1>0. \A b \in DOMAIN document : document[b].level \in 1 .. 6
  <2>1. document \in Seq(Block)
    BY <1>4
  <2>. QED
    BY <2>1, BlockFields
<1>5. l \in Nat /\ l > 0 /\ \A k \in 1 .. n : level[k] = document[path[k]].level /\ level[k] \in Nat
  <2>1. l \in 1 .. 6
    BY <1>0, <1>3, <1>4
  <2>2. \A k \in 1 .. n : level[k] = document[path[k]].level /\ level[k] \in 1 .. 6
    BY <1>0, <1>2, <1>4
  <2>. QED
    BY <2>1, <2>2
<1>6. ASSUME NEW j \in 1 .. n, NEW k \in 1 .. n, j < k PROVE level[j] < level[k]
  <2>1. path[j] < path[k] /\ path[k] < at /\ path[k] \in Of({"heading"})
    BY <1>1, <1>6 DEF InHand, Ascends
  <2>2. path[j] \in HeadingsAbove(at)
    BY <1>1 DEF Range
  <2>3. document[path[k]].level > document[path[j]].level
    BY <2>1, <2>2 DEF HeadingsAbove
  <2>. QED
    BY <1>5, <2>3
<1>7. PICK K : K = {k \in 1 .. n : level[k] < l}
  OBVIOUS
<1>8. ASSUME NEW k \in K, NEW j \in 1 .. k PROVE j \in K
  <2>1. k \in 1 .. n /\ level[k] < l /\ j \in 1 .. n /\ (j < k \/ j = k)
    BY <1>7
  <2>2. level[j] < l
    BY <1>5, <1>6, <2>1
  <2>. QED
    BY <1>7, <2>1, <2>2
<1>9. K \in SUBSET (1 .. n)
  BY <1>7
<1>10. PICK c \in Nat : K = 1 .. c
  BY <1>8, <1>9, LowerPart
<1>11. c <= n
  <2>1. c > 0 => c \in K
    BY <1>10
  <2>. QED
    BY <1>7, <2>1
<1>12. PICK above : above = {h \in HeadingsAbove(at) : document[h].level < l}
  OBVIOUS
<1>13. above = {path[k] : k \in 1 .. c}
  <2>1. ASSUME NEW h \in above PROVE \E k \in 1 .. c : path[k] = h
    <3>1. h \in Range(path) /\ document[h].level < l
      BY <1>12
    <3>2. PICK k \in 1 .. n : path[k] = h
      BY <1>1, <3>1 DEF Range
    <3>. QED
      BY <1>5, <1>7, <1>10, <3>1, <3>2
  <2>2. ASSUME NEW k \in 1 .. c PROVE path[k] \in above
    <3>1. k \in 1 .. n /\ level[k] < l
      BY <1>7, <1>10
    <3>2. path[k] \in HeadingsAbove(at)
      BY <1>1, <3>1 DEF Range
    <3>. QED
      BY <1>5, <1>12, <3>1, <3>2
  <2>. QED
    BY <2>1, <2>2
<1>14. Cardinality(above) = c
  <2>1. PICK s : s = SubSeq(path, 1, c)
    OBVIOUS
  <2>2. s \in Seq(Nat) /\ Len(s) = c /\ DOMAIN s = 1 .. c /\ \A k \in 1 .. c : s[k] = path[k]
    BY <1>1, <1>4, <1>11, <2>1
  <2>3. \A j, k \in 1 .. c : j < k => s[j] < s[k]
    BY <1>1, <1>11, <2>2 DEF InHand, Ascends
  <2>4. above = {s[k] : k \in DOMAIN s}
    BY <1>13, <2>2
  <2>5. s \in Seq(Int)
    BY <2>2
  <2>6. Cardinality(above) = Len(s)
    BY <2>2, <2>3, <2>4, <2>5, AscendingIs
  <2>. QED
    BY <2>2, <2>6
<1>15. l = c + 1
  <2>1. document[at].level = Cardinality(HeadingsAbove(at) \
          {g \in HeadingsAbove(at) : document[g].level >= document[at].level}) + 1
    BY DEF WellNested
  <2>2. \A h \in HeadingsAbove(at) : document[h].level \in Nat
    <3>1. \A h \in HeadingsAbove(at) : h \in DOMAIN document
      BY DEF HeadingsAbove, Of
    <3>. QED
      BY <1>0, <3>1
  <2>3. above = HeadingsAbove(at) \ {g \in HeadingsAbove(at) : document[g].level >= l}
    BY <1>5, <1>12, <2>2
  <2>. QED
    BY <1>3, <1>14, <2>1, <2>3
<1>16. PICK m : IsPushed(p, m)
  BY Pushed
<1>17. /\ m = Least(l - 1, n) /\ p \in Seq(Nat) /\ Len(p) = m + 1 /\ p[m + 1] = at
       /\ \A k \in 1 .. m : p[k] = path[k]
  BY <1>1, <1>3, <1>16 DEF IsPushed
<1>18. m = c
  BY <1>11, <1>15, <1>17 DEF Least
<1>19. Range(p) = {at} \cup above
  <2>1. DOMAIN p = 1 .. c + 1
    BY <1>17, <1>18
  <2>2. \A k \in 1 .. c + 1 : k \in 1 .. c \/ k = c + 1
    OBVIOUS
  <2>3. Range(p) \subseteq {at} \cup above
    BY <1>13, <1>17, <1>18, <2>1, <2>2 DEF Range
  <2>4. at \in Range(p)
    <3>1. c + 1 \in 1 .. c + 1
      OBVIOUS
    <3>. QED
      BY <1>17, <1>18, <2>1, <3>1 DEF Range
  <2>5. above \subseteq Range(p)
    <3>1. 1 .. c \subseteq 1 .. c + 1
      OBVIOUS
    <3>. QED
      BY <1>13, <1>17, <1>18, <2>1, <3>1 DEF Range
  <2>. QED
    BY <2>3, <2>4, <2>5
<1>20. HeadingsAbove(at + 1) = {at} \cup {h \in HeadingsAbove(at) : document[h].level < document[at].level}
  BY <1>4, NextHeadings
<1>. QED
  BY <1>3, <1>12, <1>19, <1>20

LEMMA SectionStep ==
  ASSUME ChunkTypeOK, InHand, InSection, NEW made, Adds(made)
  PROVE  InSection'
<1>1. SUFFICES ASSUME WellNested, setting.chunker # "ocr_page"
               PROVE  /\ Range(path') = HeadingsAbove(at')
                      /\ \A k \in DOMAIN group' : \A h \in Of({"heading"}) : h < at' => h < group'[k]
  <2>1. WellNested' = WellNested /\ Of({"heading"})' = Of({"heading"}) /\ setting' = setting
    BY SameHeadings DEF Adds, Of
  <2>2. HeadingsAbove(at)' = HeadingsAbove(at')
    BY DEF HeadingsAbove, Of, Adds
  <2>3. Range(path)' = Range(path')
    BY DEF Range
  <2>. QED
    BY <1>1, <2>1, <2>2, <2>3 DEF InSection
<1>2. /\ Range(path) = HeadingsAbove(at)
      /\ \A k \in DOMAIN group : \A h \in Of({"heading"}) : h < at => h < group[k]
  BY <1>1 DEF InSection
<1>3. document \in Seq(Block) /\ at \in Nat
  BY GroupPassed DEF ChunkTypeOK
<1>4. CASE at \in Of({"heading"}) /\ path' = PushHeading(at) /\ group' = <<>>
  <2>1. PICK p : p = PushHeading(at)
    OBVIOUS
  <2>2. Range(p) = HeadingsAbove(at + 1)
    BY <1>1, <1>2, <1>4, <2>1, PushedHeadings
  <2>3. at' = at + 1
    <3>1. Len(document) \in Nat /\ at \in 1 .. Len(document)
      BY <1>3, <1>4 DEF Of
    <3>. QED
      BY <3>1 DEF Adds
  <2>4. DOMAIN group' = {}
    BY <1>4
  <2>5. path' = p
    BY <1>4, <2>1
  <2>. QED
    BY <2>2, <2>3, <2>4, <2>5
<1>5. CASE at \notin Of({"heading"}) /\ at' = at + 1
  <2>1. path' = path
    BY <1>5 DEF Adds
  <2>2. HeadingsAbove(at + 1) = HeadingsAbove(at)
    BY <1>3, <1>5, NextHeadings
  <2>3. \A h \in Of({"heading"}) : h \in Nat
    BY <1>3 DEF Of
  <2>4. \A h \in Of({"heading"}) : h < at + 1 => h < at
    BY <1>3, <1>5, <2>3
  <2>5. CASE group' = group
    BY <1>2, <1>5, <2>1, <2>2, <2>4, <2>5
  <2>6. CASE group' = Append(group, at)
    <3>1. PICK g : g = Append(group, at)
      OBVIOUS
    <3>2. group \in Seq(Nat)
      BY DEF ChunkTypeOK
    <3>3. \A k \in DOMAIN g : g[k] = at \/ (k \in DOMAIN group /\ g[k] = group[k])
      BY <1>3, <3>1, <3>2
    <3>4. \A k \in DOMAIN g : \A h \in Of({"heading"}) : h < at + 1 => h < g[k]
      BY <1>2, <2>4, <3>3
    <3>5. g = group'
      BY <2>6, <3>1
    <3>. QED
      BY <1>2, <1>5, <2>1, <2>2, <3>4, <3>5
  <2>7. CASE group' = <<>>
    <3>1. DOMAIN group' = {}
      BY <2>7
    <3>. QED
      BY <1>2, <1>5, <2>1, <2>2, <3>1
  <2>. QED
    BY <2>5, <2>6, <2>7 DEF Adds
<1>6. CASE at \notin Of({"heading"}) /\ at' = at /\ group' = <<>>
  <2>1. DOMAIN group' = {}
    BY <1>6
  <2>2. path' = path
    BY <1>6 DEF Adds
  <2>. QED
    BY <1>2, <1>6, <2>1, <2>2
<1>. QED
  BY <1>1, <1>4, <1>5, <1>6 DEF Adds

LEMMA PathOfNode ==
  ASSUME ChunkTypeOK, InHand, InSection, WellNested, setting.chunker # "ocr_page",
         NEW b \in Range(group) \cup {at}
  PROVE  path = Ascending(HeadingsAbove(b))
<1>1. /\ Range(path) = HeadingsAbove(at)
      /\ \A k \in DOMAIN group : \A h \in Of({"heading"}) : h < at => h < group[k]
  BY DEF InSection
<1>2. \A j, k \in DOMAIN path : j < k => path[j] < path[k]
  BY DEF InHand, Ascends
<1>3. path \in Seq(Int) /\ Range(path) = {path[k] : k \in DOMAIN path}
  BY DEF ChunkTypeOK, Range
<1>4. path = Ascending(Range(path))
  BY <1>2, <1>3, AscendingIs
<1>5. HeadingsAbove(b) = HeadingsAbove(at)
  <2>1. CASE b = at
    BY <2>1
  <2>2. CASE b \in Range(group)
    <3>1. \A h \in Of({"heading"}) : h < at => h < b
      BY <1>1, <2>2 DEF Range
    <3>2. b \in Nat /\ at \in Nat /\ b < at
      <4>1. Range(group) \subseteq 1 .. at - 1 /\ at \in Nat
        BY GroupPassed
      <4>. QED
        BY <2>2, <4>1
    <3>3. \A h \in Of({"heading"}) : h \in Nat
      BY DEF Of, ChunkTypeOK
    <3>4. \A h \in Of({"heading"}) : h < at <=> h < b
      BY <3>1, <3>2, <3>3
    <3>. QED
      BY <3>4 DEF HeadingsAbove
  <2>. QED
    BY <2>1, <2>2
<1>. QED
  BY <1>1, <1>4, <1>5

LEMMA PathsStep ==
  ASSUME ChunkTypeOK, InHand, InSection, NodesKeepTheirSection, NEW made, Adds(made)
  PROVE  NodesKeepTheirSection'
<1>1. SUFFICES ASSUME WellNested, NEW k \in DOMAIN nodes', NEW n, n = nodes'[k]
               PROVE  n.path = IF document[n.blocks[1]].hint # <<>> THEN document[n.blocks[1]].hint
                               ELSE IF setting.chunker = "ocr_page" THEN <<>>
                               ELSE Ascending(HeadingsAbove(n.blocks[1]))
  <2>1. WellNested' = WellNested /\ setting' = setting /\ document' = document
    BY SameHeadings DEF Adds
  <2>2. \A b : Ascending(HeadingsAbove(b))' = Ascending(HeadingsAbove(b))
    BY SameHeadings DEF Adds, HeadingsAbove, Of, Ascending
  <2>. QED
    BY <1>1, <2>1, <2>2 DEF NodesKeepTheirSection, Range
<1>2. \/ k \in DOMAIN nodes /\ n = nodes[k]
      \/ k - Len(nodes) \in DOMAIN made /\ n = made[k - Len(nodes)]
  BY <1>1, AddedNodes
<1>3. CASE k \in DOMAIN nodes /\ n = nodes[k]
  <2>1. n \in Range(nodes)
    BY <1>3 DEF Range
  <2>. QED
    BY <1>1, <2>1 DEF NodesKeepTheirSection
<1>4. CASE k - Len(nodes) \in DOMAIN made /\ n = made[k - Len(nodes)]
  <2>1. SoundNode(n, Passing, Here) /\ n \in Node
    BY <1>4, AddedNodes DEF Adds, Fresh, Sound
  <2>2. PICK b : b = n.blocks[1]
    OBVIOUS
  <2>3. b \in Range(group) \cup {at}
    <3>1. n.blocks \in Seq(Nat)
      BY <2>1 DEF Node
    <3>2. n.blocks # <<>> /\ Range(n.blocks) \subseteq Passing
      BY <2>1 DEF SoundNode
    <3>3. n.blocks[1] \in Range(n.blocks)
      BY <3>1, <3>2 DEF Range
    <3>. QED
      BY <2>2, <3>2, <3>3 DEF Passing
  <2>4. n.path = IF document[b].hint # <<>> THEN document[b].hint ELSE Here
    BY <2>1, <2>2 DEF SoundNode
  <2>5. Here = IF setting.chunker = "ocr_page" THEN <<>> ELSE Ascending(HeadingsAbove(b))
    BY <1>1, <2>3, PathOfNode DEF Here
  <2>. QED
    BY <2>2, <2>4, <2>5
<1>. QED
  BY <1>2, <1>3, <1>4

LEMMA WindowsStep ==
  ASSUME ChunkTypeOK, InHand, NodesFromBlocks, WindowsOverlapAsAsked, NEW made, StepOK(made)
  PROVE  WindowsOverlapAsAsked'
<1>0. Adds(made)
  BY DEF StepOK
<1>1. SUFFICES ASSUME setting.chunker = "fixed_token", NEW k \in 1 .. Len(nodes') - 1
               PROVE  \/ nodes'[k].blocks[1] < nodes'[k + 1].blocks[1]
                      \/ /\ nodes'[k].blocks[1] = nodes'[k + 1].blocks[1]
                         /\ Overlapping(nodes'[k].text, nodes'[k + 1].text)
  <2>1. \A a, b : Overlapping(a, b)' = Overlapping(a, b)
    BY <1>0 DEF Overlapping, Adds
  <2>2. setting' = setting
    BY <1>0 DEF Adds
  <2>. QED
    BY <1>1, <2>1, <2>2 DEF WindowsOverlapAsAsked, Overlapping
<1>2. PICK m \in Nat : m = Len(nodes) /\ DOMAIN nodes = 1 .. m
  BY DEF ChunkTypeOK
<1>3. PICK o \in Nat : o = Len(made) /\ DOMAIN made = 1 .. o
  BY <1>0, AddedNodes
<1>4. /\ Len(nodes') = m + o
      /\ \A i \in 1 .. m : nodes'[i] = nodes[i]
      /\ \A i \in 1 .. o : nodes'[m + i] = made[i]
  <2>1. /\ Len(nodes') = Len(nodes) + Len(made)
        /\ \A i \in DOMAIN nodes : nodes'[i] = nodes[i]
        /\ \A i \in DOMAIN made : nodes'[Len(nodes) + i] = made[i]
    BY <1>0, AddedNodes, Zenon
  <2>. QED
    BY <1>2, <1>3, <2>1, Zenon
<1>5. \A i \in 1 .. o : made[i].blocks[1] = at
  <2>1. Passing \subseteq {at}
    BY <1>1, NoGroup DEF Passing
  <2>2. ASSUME NEW i \in 1 .. o PROVE made[i].blocks[1] = at
    <3>1. SoundNode(made[i], Passing, Here) /\ made[i] \in Node
      BY <1>0, <1>3, AddedNodes DEF Adds, Fresh, Sound
    <3>2. PICK bs : bs = made[i].blocks
      OBVIOUS
    <3>3. bs \in Seq(Nat) /\ bs # <<>> /\ Range(bs) \subseteq Passing
      BY <3>1, <3>2 DEF SoundNode, Node
    <3>4. bs[1] \in Range(bs)
      BY <3>3 DEF Range
    <3>. QED
      BY <2>1, <3>2, <3>3, <3>4
  <2>. QED
    BY <2>2
<1>6. CASE k < m
  <2>1. k \in 1 .. m /\ k + 1 \in 1 .. m /\ k \in 1 .. Len(nodes) - 1
    BY <1>2, <1>6
  <2>2. \/ nodes[k].blocks[1] < nodes[k + 1].blocks[1]
        \/ nodes[k].blocks[1] = nodes[k + 1].blocks[1] /\ Overlapping(nodes[k].text, nodes[k + 1].text)
    BY <1>1, <2>1 DEF WindowsOverlapAsAsked
  <2>. QED
    BY <1>4, <2>1, <2>2
<1>7. CASE k = m
  <2>1. m \in 1 .. m /\ 1 \in 1 .. o /\ k + 1 = m + 1
    BY <1>4, <1>7
  <2>2. nodes'[k] = nodes[m] /\ nodes'[k + 1] = made[1]
    BY <1>4, <1>7, <2>1
  <2>3. nodes[m].blocks[1] \in 1 .. at - 1
    <3>1. nodes[m] \in Node /\ m \in DOMAIN nodes
      BY <1>2, <2>1 DEF ChunkTypeOK
    <3>2. PICK bs : bs = nodes[m].blocks
      OBVIOUS
    <3>3. bs \in Seq(Nat) /\ bs # <<>> /\ \A j \in DOMAIN bs : bs[j] \in 1 .. at - 1
      BY <3>1, <3>2 DEF NodesFromBlocks, Node
    <3>4. 1 \in DOMAIN bs
      BY <3>3
    <3>. QED
      BY <3>2, <3>3, <3>4
  <2>4. at \in Nat
    BY GroupPassed
  <2>5. nodes[m].blocks[1] < at
    BY <2>3, <2>4
  <2>6. made[1].blocks[1] = at
    BY <1>5, <2>1
  <2>. QED
    BY <2>2, <2>5, <2>6
<1>8. CASE k > m
  <2>1. PICK i : i = k - m
    OBVIOUS
  <2>2. i \in 1 .. o - 1 /\ i \in 1 .. o /\ i + 1 \in 1 .. o /\ k = m + i /\ k + 1 = m + (i + 1)
    BY <1>2, <1>3, <1>4, <1>8, <2>1
  <2>3. nodes'[k] = made[i] /\ nodes'[k + 1] = made[i + 1]
    BY <1>4, <2>2
  <2>4. Windows(made) /\ i \in 1 .. Len(made) - 1
    BY <1>1, <1>3, <2>2 DEF StepOK
  <2>5. Overlapping(made[i].text, made[i + 1].text) /\ made[i].blocks[1] = made[i + 1].blocks[1]
    BY <2>4 DEF Windows
  <2>. QED
    BY <2>3, <2>5
<1>. QED
  BY <1>2, <1>6, <1>7, <1>8

LEMMA SameRoom ==
  ASSUME document' = document, setting' = setting
  PROVE  IdsHaveRoom' = IdsHaveRoom
<1>1. \A b : Header(b)' = Header(b)
  BY DEF Header, Text
<1>2. \A bs : Joined(bs)' = Joined(bs)
  BY DEF Joined, Text
<1>3. \A types : Of(types)' = Of(types)
  BY DEF Of
<1>4. Joined(Ascending(Of({"heading"})))' = Joined(Ascending(Of({"heading"})))
  BY DEF Joined, Text, Of
<1>. QED
  BY <1>1, <1>3, <1>4 DEF IdsHaveRoom

LEMMA IdsAre ==
  ASSUME nodes \in Seq(Node)
  PROVE  NodeIdsDiffer <=> (IdsHaveRoom => IdsDiffer(nodes) /\ ParentsIn(nodes, nodes))
<1>1. (\A n \in Range(nodes) : n.parent # <<>> =>
         \E p \in Range(nodes) : p.type = "section" /\ NodeId(p) = n.parent
                                   /\ Range(n.blocks) \subseteq Range(p.blocks))
        <=> ParentsIn(nodes, nodes)
  <2>1. ASSUME \A n \in Range(nodes) : n.parent # <<>> =>
                 \E p \in Range(nodes) : p.type = "section" /\ NodeId(p) = n.parent
                                           /\ Range(n.blocks) \subseteq Range(p.blocks),
               NEW k \in DOMAIN nodes, nodes[k].parent # <<>>
        PROVE  \E j \in DOMAIN nodes : IsParent(nodes[j], nodes[k])
    <3>1. nodes[k] \in Range(nodes)
      BY DEF Range
    <3>2. PICK p \in Range(nodes) : p.type = "section" /\ NodeId(p) = nodes[k].parent
                                     /\ Range(nodes[k].blocks) \subseteq Range(p.blocks)
      BY <2>1, <3>1
    <3>3. PICK j \in DOMAIN nodes : nodes[j] = p
      BY DEF Range
    <3>. QED
      BY <3>2, <3>3 DEF IsParent
  <2>2. ASSUME ParentsIn(nodes, nodes), NEW n \in Range(nodes), n.parent # <<>>
        PROVE  \E p \in Range(nodes) : p.type = "section" /\ NodeId(p) = n.parent
                                         /\ Range(n.blocks) \subseteq Range(p.blocks)
    <3>1. PICK k \in DOMAIN nodes : nodes[k] = n
      BY DEF Range
    <3>2. PICK j \in DOMAIN nodes : IsParent(nodes[j], n)
      BY <2>2, <3>1 DEF ParentsIn
    <3>3. nodes[j] \in Range(nodes)
      BY DEF Range
    <3>. QED
      BY <3>2, <3>3 DEF IsParent
  <2>. QED
    BY <2>1, <2>2 DEF ParentsIn
<1>. QED
  BY <1>1 DEF NodeIdsDiffer, IdsDiffer

LEMMA IdsStep ==
  ASSUME ChunkTypeOK, InHand, NodesFromBlocks, NodeIdsDiffer, NEW made, Adds(made)
  PROVE  NodeIdsDiffer'
<1>1. /\ nodes \in Seq(Node) /\ made \in Seq(Node) /\ nodes' \in Seq(Node) /\ nodes' = nodes \o made
  BY AddedNodes DEF Adds
<1>2. PICK all : all = nodes'
  OBVIOUS
<1>3. ASSUME IdsHaveRoom PROVE IdsDiffer(all) /\ ParentsIn(all, all)
  <2>1. IdsDiffer(nodes) /\ ParentsIn(nodes, nodes)
    BY <1>1, <1>3, IdsAre
  <2>2. Fresh(made, Passing, Here)
    BY DEF Adds
  <2>3. IdsDiffer(made) /\ ParentsIn(made, made)
    BY <1>3, <2>2 DEF Fresh
  <2>4. PICK other : other = Passing
    OBVIOUS
  <2>5. BlocksIn(made, other)
    BY <2>2, <2>4 DEF Fresh, Sound, SoundNode, BlocksIn
  <2>6. PICK from : from = (1 .. at - 1) \ Range(group)
    OBVIOUS
  <2>7. BlocksIn(nodes, from)
    <3>1. ASSUME NEW k \in DOMAIN nodes
          PROVE  nodes[k].blocks # <<>> /\ Range(nodes[k].blocks) \subseteq from
      <4>1. /\ nodes[k].blocks # <<>>
            /\ \A j \in DOMAIN nodes[k].blocks :
                 nodes[k].blocks[j] \in 1 .. at - 1 /\ nodes[k].blocks[j] \notin Range(group)
        BY DEF NodesFromBlocks
      <4>2. \A j \in DOMAIN nodes[k].blocks : nodes[k].blocks[j] \in from
        BY <2>6, <4>1
      <4>. QED
        BY <4>1, <4>2 DEF Range
    <3>. QED
      BY <3>1 DEF BlocksIn
  <2>8. from \cap other = {}
    <3>1. Passing \cap ((1 .. at - 1) \ Range(group)) = {}
      BY PassedBlocks
    <3>. QED
      BY <2>4, <2>6, <3>1
  <2>9. all = nodes \o made
    BY <1>1, <1>2
  <2>10. IdsDiffer(all)
    BY <1>1, <2>1, <2>3, <2>5, <2>7, <2>8, <2>9, IdsApart
  <2>11. ParentsIn(nodes \o made, nodes \o made)
    BY <1>1, <2>1, <2>3, ParentsJoined
  <2>. QED
    BY <2>9, <2>10, <2>11
<1>4. IdsHaveRoom' = IdsHaveRoom
  BY SameRoom DEF Adds
<1>6. IdsHaveRoom =>
        /\ \A j, k \in DOMAIN all : j # k => NodeId(all[j]) # NodeId(all[k])
        /\ \A n \in Range(all) : n.parent # <<>> =>
             \E p \in Range(all) : p.type = "section" /\ NodeId(p) = n.parent
                                       /\ Range(n.blocks) \subseteq Range(p.blocks)
  BY <1>3 DEF IdsDiffer, ParentsIn, IsParent, Range
<1>7. NodeIdsDiffer' <=> (IdsHaveRoom' =>
        /\ \A j, k \in DOMAIN nodes' : j # k => NodeId(nodes'[j]) # NodeId(nodes'[k])
        /\ \A n \in Range(nodes') : n.parent # <<>> =>
             \E p \in Range(nodes') : p.type = "section" /\ NodeId(p) = n.parent
                                       /\ Range(n.blocks) \subseteq Range(p.blocks))
  BY DEF NodeIdsDiffer
<1>. QED
  BY <1>2, <1>4, <1>6, <1>7

LEMMA SameRows ==
  ASSUME document' = document, setting' = setting
  PROVE  \A b : SplitRows(b)' = SplitRows(b)
<1>1. /\ \A b : Text(b)' = Text(b) /\ Header(b)' = Header(b)
      /\ \A t : Cost(t)' = Cost(t)
  BY DEF Text, Header, Cost, Costs
<1>2. \A b : Budget(b)' = Budget(b)
  BY <1>1 DEF Budget, Tokens, Cost, Costs, Header, Text
<1>3. \A rows, budget : RowGroups(rows, budget)' = RowGroups(rows, budget)
  BY DEF RowGroups, WithRow, Fits, Cost, Costs
<1>. QED
  BY <1>1, <1>2, <1>3 DEF SplitRows

(* The parts of a table that the loop has passed stay where they are, and   *)
(* those of the next table come last.                                       *)
LEMMA TablesStep ==
  ASSUME ChunkTypeOK, InHand, NodesFromBlocks, TablesTogether, IdLength \in Nat, NEW made, StepOK(made)
  PROVE  TablesTogether'
<1>0. Adds(made)
  BY DEF StepOK
<1>1. PICK places : places = [b \in Of({"table"}) |->
        {k \in DOMAIN nodes' : b \in Range(nodes'[k].blocks) /\ nodes'[k].type # "section"}]
  OBVIOUS
<1>2. SUFFICES ASSUME setting.chunker = "table_aware", NEW b \in Of({"table"}), b < at'
               PROVE  \E from \in 0 .. Len(nodes') :
                        /\ places[b] = from + 1 .. from + Len(SplitRows(b))
                        /\ \A k \in DOMAIN SplitRows(b) : nodes'[from + k].text = SplitRows(b)[k]
  <2>1. /\ Of({"table"})' = Of({"table"}) /\ setting' = setting
    BY <1>0 DEF Adds, Of
  <2>2. \A b : SplitRows(b)' = SplitRows(b)
    BY <1>0, SameRows DEF Adds
  <2>3. \A b \in Of({"table"}) : PlacesOf(b)' = places[b]
    BY <1>1 DEF PlacesOf, Range
  <2>. QED
    BY <1>2, <2>1, <2>2, <2>3 DEF TablesTogether
<1>3. PICK m \in Nat : m = Len(nodes) /\ DOMAIN nodes = 1 .. m
  BY DEF ChunkTypeOK
<1>4. PICK o \in Nat : o = Len(made) /\ DOMAIN made = 1 .. o
  BY <1>0, AddedNodes
<1>5. /\ Len(nodes') = m + o /\ DOMAIN nodes' = 1 .. m + o
      /\ \A i \in 1 .. m : nodes'[i] = nodes[i]
      /\ \A i \in 1 .. o : nodes'[m + i] = made[i]
      /\ \A i \in 1 .. m + o : i \in 1 .. m \/ i - m \in 1 .. o
  <2>1. /\ nodes' \in Seq(Node) /\ Len(nodes') = m + o
        /\ \A i \in 1 .. m : nodes'[i] = nodes[i]
        /\ \A i \in 1 .. o : nodes'[m + i] = made[i]
    <3>1. /\ nodes' \in Seq(Node) /\ Len(nodes') = Len(nodes) + Len(made)
          /\ \A i \in DOMAIN nodes : nodes'[i] = nodes[i]
          /\ \A i \in DOMAIN made : nodes'[Len(nodes) + i] = made[i]
      BY <1>0, AddedNodes, Zenon
    <3>. QED
      BY <1>3, <1>4, <3>1, Zenon
  <2>2. DOMAIN nodes' = 1 .. m + o
    BY <2>1
  <2>. QED
    BY <2>1, <2>2
<1>6. at \in Nat /\ at' \in Nat /\ at' <= at + 1 /\ b \in Nat /\ b \in DOMAIN document
  BY <1>0, PassedBlocks DEF ChunkTypeOK, Of
<1>7. PICK rows : rows = SplitRows(b)
  OBVIOUS
<1>8. PICK r \in Nat : r = Len(rows) /\ DOMAIN rows = 1 .. r
  <2>1. PartsOf(rows, b)
    BY <1>7, RowParts
  <2>2. rows \in Seq(Seq(Pieces))
    BY <2>1 DEF PartsOf
  <2>. QED
    BY <2>2
<1>9. \A k : k \in places[b] <=> k \in DOMAIN nodes' /\ b \in Range(nodes'[k].blocks) /\ nodes'[k].type # "section"
  BY <1>1
<1>10. CASE b < at
  <2>1. PICK from \in 0 .. Len(nodes) :
          /\ PlacesOf(b) = from + 1 .. from + r
          /\ \A k \in 1 .. r : nodes[from + k].text = rows[k]
    BY <1>2, <1>7, <1>8, <1>10 DEF TablesTogether
  <2>2. b \notin Passing
    <3>1. b \notin Of(Gathered)
      BY <1>2 DEF Gathered, Of
    <3>2. Range(group) \subseteq Of(Gathered)
      BY GroupPassed
    <3>. QED
      BY <1>6, <1>10, <3>1, <3>2 DEF Passing
  <2>3. \A i \in 1 .. o : b \notin Range(made[i].blocks)
    BY <1>0, <1>4, <2>2 DEF Adds, Fresh, Sound, SoundNode
  <2>4. \A k : k \in PlacesOf(b) <=> k \in 1 .. m /\ b \in Range(nodes[k].blocks) /\ nodes[k].type # "section"
    BY <1>3 DEF PlacesOf
  <2>5. ASSUME NEW k \in places[b] PROVE k \in PlacesOf(b)
    <3>1. k \in 1 .. m + o /\ b \in Range(nodes'[k].blocks) /\ nodes'[k].type # "section"
      BY <1>5, <1>9
    <3>2. CASE k \in 1 .. m
      BY <1>5, <2>4, <3>1, <3>2
    <3>3. CASE k - m \in 1 .. o
      <4>1. PICK i \in 1 .. o : i = k - m
        BY <3>3
      <4>2. k = m + i
        BY <3>1, <4>1
      <4>3. nodes'[k] = made[i]
        BY <1>5, <4>2
      <4>. QED
        BY <2>3, <3>1, <4>3
    <3>. QED
      BY <1>5, <3>1, <3>2, <3>3
  <2>6. ASSUME NEW k \in PlacesOf(b) PROVE k \in places[b]
    <3>1. k \in 1 .. m /\ b \in Range(nodes[k].blocks) /\ nodes[k].type # "section"
      BY <2>4
    <3>2. k \in DOMAIN nodes' /\ nodes'[k] = nodes[k]
      BY <1>5, <3>1
    <3>. QED
      BY <1>9, <3>1, <3>2
  <2>7. places[b] = from + 1 .. from + r
    <3>1. places[b] = PlacesOf(b)
      BY <2>5, <2>6
    <3>. QED
      BY <2>1, <3>1
  <2>8. ASSUME NEW k \in 1 .. r PROVE nodes'[from + k].text = rows[k]
    <3>1. from + k \in from + 1 .. from + r
      BY <1>3, <2>1
    <3>2. from + k \in 1 .. m
      BY <2>1, <2>4, <3>1
    <3>. QED
      BY <1>5, <2>1, <3>2
  <2>9. from \in 0 .. Len(nodes')
    BY <1>3, <1>5
  <2>. QED
    BY <1>7, <1>8, <2>7, <2>8, <2>9
<1>11. CASE b = at
  <2>1. RowsOf(made, at)
    BY <1>2, <1>11 DEF StepOK
  <2>9. PICK n \in 0 .. Len(made) :
          /\ Len(made) = n + Len(SplitRows(at))
          /\ \A k \in 1 .. n : at \notin Range(made[k].blocks)
          /\ \A k \in DOMAIN SplitRows(at) :
               /\ made[n + k].type = "table" /\ at \in Range(made[n + k].blocks)
               /\ made[n + k].text = SplitRows(at)[k]
    BY <2>1 DEF RowsOf
  <2>10. rows = SplitRows(at)
    BY <1>7, <1>11
  <2>2. /\ n \in 0 .. o /\ o = n + r
        /\ \A k \in 1 .. n : b \notin Range(made[k].blocks)
        /\ \A k \in 1 .. r :
             /\ made[n + k].type = "table" /\ b \in Range(made[n + k].blocks)
             /\ made[n + k].text = rows[k]
    BY <1>4, <1>8, <1>11, <2>9, <2>10
  <2>3. PICK from \in Nat : from = m + n
    OBVIOUS
  <2>4. \A k \in 1 .. m : b \notin Range(nodes[k].blocks)
    <3>1. ASSUME NEW k \in 1 .. m, b \in Range(nodes[k].blocks) PROVE FALSE
      <4>1. PICK j \in DOMAIN nodes[k].blocks : nodes[k].blocks[j] = b
        BY <3>1 DEF Range
      <4>2. b \in 1 .. at - 1
        BY <1>3, <4>1 DEF NodesFromBlocks
      <4>. QED
        BY <1>6, <1>11, <4>2
    <3>. QED
      BY <3>1
  <2>5. ASSUME NEW k \in places[b] PROVE k \in from + 1 .. from + r
    <3>1. k \in 1 .. m + o /\ b \in Range(nodes'[k].blocks)
      BY <1>5, <1>9
    <3>2. k \notin 1 .. m
      BY <1>5, <2>4, <3>1
    <3>3. PICK i \in 1 .. o : i = k - m
      BY <1>5, <3>1, <3>2
    <3>4. k = m + i
      BY <3>1, <3>3
    <3>5. nodes'[k] = made[i]
      BY <1>5, <3>4
    <3>6. i \notin 1 .. n
      BY <2>2, <3>1, <3>5
    <3>. QED
      BY <2>2, <2>3, <3>4, <3>6
  <2>6. ASSUME NEW k \in 1 .. r
        PROVE  from + k \in places[b] /\ nodes'[from + k].text = rows[k]
    <3>1. n + k \in 1 .. o /\ from + k = m + (n + k) /\ from + k \in 1 .. m + o
      BY <2>2, <2>3
    <3>2. nodes'[from + k] = made[n + k]
      BY <1>5, <3>1
    <3>. QED
      BY <1>5, <1>9, <2>2, <3>1, <3>2
  <2>7. places[b] = from + 1 .. from + r
    <3>1. ASSUME NEW k \in from + 1 .. from + r PROVE k \in places[b]
      <4>1. PICK j \in 1 .. r : k = from + j
        <5>1. k - from \in 1 .. r /\ k = from + (k - from)
          BY <2>3
        <5>. QED
          BY <5>1
      <4>. QED
        BY <2>6, <4>1
    <3>. QED
      BY <2>5, <3>1
  <2>8. from \in 0 .. Len(nodes')
    BY <1>5, <2>2, <2>3
  <2>. QED
    BY <1>7, <1>8, <2>6, <2>7, <2>8
<1>. QED
  BY <1>2, <1>6, <1>10, <1>11

-----------------------------------------------------------------------------
(* What the invariant says of the nodes.                                    *)
LEMMA NoPlaces ==
  ASSUME ChunkTypeOK, NodesFromBlocks, NEW b \in DOMAIN document, ~(b < at)
  PROVE  PlacesOf(b) = {}
<1>1. SUFFICES ASSUME NEW k \in DOMAIN nodes, b \in Range(nodes[k].blocks) PROVE FALSE
  BY DEF PlacesOf
<1>2. PICK j \in DOMAIN nodes[k].blocks : nodes[k].blocks[j] = b
  BY <1>1 DEF Range
<1>3. b \in 1 .. at - 1
  BY <1>2 DEF NodesFromBlocks
<1>4. at \in Nat
  <2>1. Len(document) \in Nat
    BY DEF ChunkTypeOK
  <2>. QED
    BY <2>1 DEF ChunkTypeOK
<1>. QED
  BY <1>3, <1>4

LEMMA KeptInTheEnd ==
  ASSUME ChunkTypeOK, InHand, NodesFromBlocks, KeptSoFar
  PROVE  ContentIsKept
<1>1. document \in Seq(Block) /\ nodes \in Seq(Node) /\ Len(document) \in Nat /\ DOMAIN document = 1 .. Len(document)
  BY DEF ChunkTypeOK
<1>2. ASSUME outcome = "chunked", NEW b \in Of(Served), NEW p \in Range(Text(b))
      PROVE  p \in UNION {Range(n.text) : n \in Range(NodesOf(b))}
  <2>1. at > Len(document) /\ DOMAIN group = {} /\ b \in DOMAIN document /\ at \in Nat
    BY <1>1, <1>2 DEF InHand, Of, ChunkTypeOK
  <2>2. b < at /\ b \notin Range(group)
    BY <1>1, <2>1 DEF Range
  <2>3. PICK i \in DOMAIN Text(b) : Text(b)[i] = p
    BY DEF Range
  <2>4. p = <<b, i>>
    BY <1>1, <2>1, <2>3, TextPieces
  <2>5. Holds(nodes, <<b, i>>)
    BY <2>2 DEF KeptSoFar
  <2>6. PICK k \in DOMAIN nodes : /\ nodes[k].type # "section" /\ b \in Range(nodes[k].blocks)
                                  /\ p \in Range(nodes[k].text)
    BY <2>4, <2>5 DEF Holds
  <2>7. PICK K : K = PlacesOf(b)
    OBVIOUS
  <2>8. k \in K /\ K \in SUBSET (DOMAIN nodes)
    BY <2>6, <2>7 DEF PlacesOf
  <2>9. PICK j \in DOMAIN Picked(nodes, K) : Picked(nodes, K)[j] = nodes[k]
    BY <1>1, <2>8, PickedElements
  <2>10. nodes[k] \in Range(NodesOf(b))
    BY <2>7, <2>9 DEF NodesOf, Range
  <2>. QED
    BY <2>6, <2>10
<1>3. ASSUME NEW n \in Range(nodes)
      PROVE  {p[1] : p \in Range(n.text)} \subseteq Range(n.blocks) \cup Of({"heading"})
  <2>1. PICK k \in DOMAIN nodes : nodes[k] = n
    BY DEF Range
  <2>2. \A j \in DOMAIN n.text : n.text[j][1] \in Range(n.blocks) \cup Of({"heading"})
    BY <2>1 DEF NodesFromBlocks
  <2>. QED
    BY <2>2 DEF Range
<1>4. outcome = "chunked" =>
        \A b \in Of(Served) : Range(Text(b)) \subseteq UNION {Range(n.text) : n \in Range(NodesOf(b))}
  BY <1>2
<1>. QED
  BY <1>3, <1>4 DEF ContentIsKept

LEMMA Halves ==
  ASSUME NEW h \in Seq(Pieces), NEW g \in Seq(Pieces), NEW t, t = h \o g
  PROVE  /\ SubSeq(t, 1, Len(h)) = h /\ SubSeq(t, Len(h) + 1, Len(t)) = g
         /\ Len(t) = Len(h) + Len(g) /\ Len(h) \in Nat /\ Len(g) \in Nat
<1>1. PICK m \in Nat : m = Len(h) /\ DOMAIN h = 1 .. m
  OBVIOUS
<1>2. PICK n \in Nat : n = Len(g) /\ DOMAIN g = 1 .. n
  OBVIOUS
<1>3. /\ t \in Seq(Pieces) /\ Len(t) = m + n
      /\ \A i \in 1 .. m : t[i] = h[i]
      /\ \A i \in 1 .. n : t[m + i] = g[i]
  BY <1>1, <1>2, JoinedElements
<1>4. PICK a : a = SubSeq(t, 1, m)
  OBVIOUS
<1>5. a \in Seq(Pieces) /\ Len(a) = m /\ \A i \in 1 .. m : a[i] = t[i]
  BY <1>3, <1>4
<1>6. a = h
  BY <1>1, <1>3, <1>5
<1>7. PICK b : b = SubSeq(t, m + 1, m + n)
  OBVIOUS
<1>8. b \in Seq(Pieces) /\ Len(b) = n /\ \A i \in 1 .. n : b[i] = t[m + i]
  <2>1. PICK x \in Nat : x = m + 1
    OBVIOUS
  <2>2. PICK y \in Nat : y = m + n
    OBVIOUS
  <2>3. b = SubSeq(t, x, y) /\ \A i \in x .. y : i \in 1 .. Len(t) /\ t[i] \in Pieces
    BY <1>3, <1>7, <2>1, <2>2
  <2>4. b \in Seq(Pieces)
    BY <1>3, <2>1, <2>2, <2>3
  <2>5. Len(b) = n
    BY <1>3, <2>1, <2>2, <2>3
  <2>6. \A i \in 1 .. n : b[i] = t[x + i - 1]
    BY <1>3, <2>1, <2>2, <2>3
  <2>7. ASSUME NEW i \in 1 .. n PROVE b[i] = t[m + i]
    <3>1. x + i - 1 = m + i
      BY <2>1
    <3>2. b[i] = t[x + i - 1]
      BY <2>6
    <3>. QED
      BY <3>1, <3>2
  <2>. QED
    BY <2>4, <2>5, <2>7
<1>9. b = g
  <2>1. b = [i \in 1 .. n |-> b[i]] /\ g = [i \in 1 .. n |-> g[i]]
    BY <1>2, <1>8
  <2>. QED
    BY <1>3, <1>8, <2>1
<1>. QED
  BY <1>1, <1>2, <1>3, <1>4, <1>6, <1>7, <1>9

(* A text of one row, or over the size only by its line breaks.             *)
NotTooLong(text, rows) == rows = 1 \/ Tokens(text) <= setting.size + LineBreak * rows - Margin

OnceRows(parts, h, start, b) ==
  /\ \A k \in DOMAIN parts : SubSeq(parts[k].text, 1, Len(h)) = h
  /\ Text(b) = h \o Chained([k \in DOMAIN parts |-> SubSeq(parts[k].text, start, Len(parts[k].text))])
  /\ \A k \in DOMAIN parts : NotTooLong(parts[k].text, Len(parts[k].text) - Len(h))

(* Line breaks between the rows of two parts that are put together.         *)
LEMMA OneLess ==
  ASSUME NEW l \in Nat, NEW m \in Nat, NEW n \in Nat
  PROVE  /\ m = 0 => l * (m + n - 1) <= l * n
         /\ l * (m + n - 1) = l * (m - 1) + l * n
<1>1. l * (m + n - 1) = l * (m - 1) + l * n
  OBVIOUS
<1>2. l * (0 - 1) = -l
  OBVIOUS
<1>3. m = 0 => l * (m + n - 1) = l * n - l
  BY <1>1, <1>2
<1>4. l * n \in Int
  OBVIOUS
<1>. QED
  BY <1>1, <1>3, <1>4

(* Nothing costs nothing.                                                   *)
LEMMA CostOfNothing == Cost(<<>>) = 0
<1>1. <<>> \in Seq(Pieces) /\ Len(<<>>) = 0
  OBVIOUS
<1>2. Costs(<<>>)[0] = 0
  BY <1>1, CostSteps
<1>. QED
  BY <1>1, <1>2 DEF Cost

LEMMA RowsOnce ==
  ASSUME ChunkTypeOK, NodesFromBlocks, TablesTogether, setting.chunker = "table_aware",
         NEW b \in Of({"table"}), NEW parts, parts = NodesOf(b), Len(parts) > 1,
         NEW h, h = Header(b), NEW start, start = Len(h) + 1
  PROVE  OnceRows(parts, h, start, b)
<1>1. /\ document \in Seq(Block) /\ nodes \in Seq(Node) /\ b \in DOMAIN document /\ setting \in Setting
  BY DEF ChunkTypeOK, Of
<1>2. PICK K : K = PlacesOf(b)
  OBVIOUS
<1>3. K \in SUBSET (DOMAIN nodes) /\ parts = Picked(nodes, K)
  BY <1>2 DEF PlacesOf, NodesOf
<1>4. b < at
  <2>1. SUFFICES ASSUME ~(b < at) PROVE FALSE
    OBVIOUS
  <2>2. K = {}
    BY <1>1, <1>2, <2>1, NoPlaces
  <2>3. parts \in Seq(Node) /\ \A k \in DOMAIN parts : \E i \in K : parts[k] = nodes[i]
    BY <1>1, <1>3, PickedElements
  <2>4. 1 \in DOMAIN parts
    BY <2>3
  <2>. QED
    BY <2>2, <2>3, <2>4
<1>5. PICK rows : rows = SplitRows(b)
  OBVIOUS
<1>6. rows = <<Text(b)>> \/ \E groups : ByRows(groups, rows, b)
  BY <1>1, <1>5, RowsSplit
<1>7. PICK r \in Nat : r = Len(rows) /\ DOMAIN rows = 1 .. r
  <2>1. CASE rows = <<Text(b)>>
    BY <2>1
  <2>2. CASE \E groups : ByRows(groups, rows, b)
    <3>1. rows \in Seq(Seq(Pieces))
      BY <2>2 DEF ByRows
    <3>. QED
      BY <3>1
  <2>. QED
    BY <1>6, <2>1, <2>2
<1>8. PICK from \in 0 .. Len(nodes) :
        /\ K = from + 1 .. from + r
        /\ \A k \in 1 .. r : nodes[from + k].text = rows[k]
  BY <1>2, <1>4, <1>5, <1>7 DEF TablesTogether
<1>9. from \in Nat /\ from + r <= Len(nodes) /\ Len(nodes) \in Nat
  <2>1. Len(nodes) \in Nat /\ DOMAIN nodes = 1 .. Len(nodes)
    BY <1>1
  <2>2. from \in Nat
    BY <2>1
  <2>3. CASE r = 0
    BY <2>1, <2>2, <2>3
  <2>4. CASE r > 0
    <3>1. from + r \in K
      BY <1>8, <2>2, <2>4
    <3>. QED
      BY <1>3, <2>1, <2>2, <3>1
  <2>. QED
    BY <2>1, <2>2, <2>3, <2>4
<1>10. /\ parts \in Seq(Node) /\ Len(parts) = r /\ \A k \in 1 .. r : parts[k] = nodes[from + k]
  <2>1. PICK picked : picked = Picked(nodes, K)
    OBVIOUS
  <2>2. K = from + 1 .. from + r
    BY <1>8
  <2>3. /\ Picked(nodes, K) \in Seq(Node) /\ Len(Picked(nodes, K)) = r
        /\ \A k \in 1 .. r : Picked(nodes, K)[k] = nodes[from + k]
    BY <1>1, <1>9, <2>2, PickedRun, SMTT(30)
  <2>. QED
    BY <1>3, <2>3
<1>11. DOMAIN parts = 1 .. r /\ \A k \in 1 .. r : parts[k].text = rows[k]
  BY <1>8, <1>10
<1>12. PICK groups : ByRows(groups, rows, b)
  <2>1. rows = <<Text(b)>> => r = 1
    BY <1>7
  <2>. QED
    BY <1>6, <1>10, <2>1
<1>13. /\ groups \in Seq(Seq(Pieces)) /\ DOMAIN groups = 1 .. r /\ h \in Seq(Pieces) /\ Costed(h)
       /\ Text(b) = h \o Chained(groups)
       /\ \A k \in 1 .. r :
            /\ rows[k] = h \o groups[k] /\ Costed(groups[k]) /\ groups[k] # <<>>
            /\ Len(groups[k]) <= 1 \/ Cost(groups[k]) <= Budget(b)
  BY <1>7, <1>12 DEF ByRows
<1>14. ASSUME NEW k \in 1 .. r
       PROVE  /\ SubSeq(parts[k].text, 1, Len(h)) = h
              /\ SubSeq(parts[k].text, start, Len(parts[k].text)) = groups[k]
              /\ NotTooLong(parts[k].text, Len(parts[k].text) - Len(h))
  <2>1. PICK g : g = groups[k]
    OBVIOUS
  <2>2. PICK t : t = parts[k].text
    OBVIOUS
  <2>3. g \in Seq(Pieces) /\ Costed(g) /\ g # <<>> /\ (Len(g) <= 1 \/ Cost(g) <= Budget(b))
    BY <1>13, <2>1
  <2>4. t = h \o g
    BY <1>11, <1>13, <2>1, <2>2
  <2>5. /\ SubSeq(t, 1, Len(h)) = h /\ SubSeq(t, Len(h) + 1, Len(t)) = g
        /\ Len(t) = Len(h) + Len(g) /\ Len(h) \in Nat /\ Len(g) \in Nat
    BY <1>13, <2>3, <2>4, Halves, SMTT(30)
  <2>6. Cost(t) = Cost(h) + Cost(g) /\ Cost(h) \in Nat /\ Cost(g) \in Nat
    BY <1>13, <2>3, <2>4, CostOfJoined, CostIsNatural
  <2>7. NotTooLong(t, Len(t) - Len(h))
    <3>1. setting.size \in Nat /\ LineBreak \in Nat /\ Margin \in Nat
      BY <1>1, ChunksAssumption DEF Setting, Margin
    <3>2. PICK m \in Nat, n \in Nat : m = Len(h) /\ n = Len(g)
      BY <2>5
    <3>3. n # 0 /\ t # <<>> /\ Len(t) = m + n
      BY <2>3, <2>5, <3>2
    <3>4. Tokens(t) = Cost(h) + Cost(g) + LineBreak * (m + n - 1)
      BY <2>6, <3>3 DEF Tokens
    <3>5. CASE n = 1
      BY <3>2, <3>3, <3>5 DEF NotTooLong
    <3>6. CASE n # 1
      <4>1. Cost(g) <= Budget(b)
        BY <2>3, <3>2, <3>6
      <4>2. PICK c \in Nat, d \in Nat : c = Cost(h) /\ d = Cost(g)
        BY <2>6
      <4>3. CASE m = 0
        <5>1. h = <<>>
          <6>1. <<>> \in Seq(Pieces) /\ Len(<<>>) = 0
            OBVIOUS
          <6>2. Len(h) = Len(<<>>) /\ \A i \in 1 .. Len(h) : h[i] = <<>>[i]
            BY <3>2, <4>3, <6>1
          <6>. QED
            BY <1>13, <6>1, <6>2, SeqEqual
        <5>2. Tokens(h) = 0
          BY <5>1 DEF Tokens
        <5>3. c = 0
          BY <4>2, <5>1, CostOfNothing
        <5>4. d <= setting.size - Margin
          BY <4>1, <4>2, <5>2, <3>1 DEF Budget
        <5>5. LineBreak * (m + n - 1) <= LineBreak * n
          BY <3>1, <3>3, <4>3, OneLess
        <5>6. LineBreak * (m + n - 1) \in Int /\ LineBreak * n \in Int
          BY <3>1
        <5>7. Tokens(t) <= setting.size + LineBreak * n - Margin
          BY <3>1, <3>4, <4>2, <5>3, <5>4, <5>5, <5>6
        <5>. QED
          BY <3>2, <3>3, <5>7 DEF NotTooLong
      <4>4. CASE m # 0
        <5>1. h # <<>>
          BY <3>2, <4>4
        <5>2. Tokens(h) = c + LineBreak * (m - 1)
          BY <3>2, <4>2, <5>1 DEF Tokens
        <5>3. LineBreak * (m + n - 1) = LineBreak * (m - 1) + LineBreak * n
          BY <3>1, <4>4, OneLess
        <5>4. LineBreak * (m - 1) \in Int /\ LineBreak * n \in Int
          BY <3>1
        <5>5. d <= setting.size - (c + LineBreak * (m - 1)) - Margin
          BY <4>1, <4>2, <5>2 DEF Budget
        <5>6. Tokens(t) <= setting.size + LineBreak * n - Margin
          <6>1. PICK x \in Int, y \in Int : x = LineBreak * (m - 1) /\ y = LineBreak * n
            BY <5>4
          <6>2. Tokens(t) = c + d + (x + y) /\ d <= setting.size - (c + x) - Margin
            BY <3>4, <4>2, <5>3, <5>5, <6>1
          <6>3. Tokens(t) <= setting.size + y - Margin
            BY <3>1, <6>2
          <6>. QED
            BY <6>1, <6>3
        <5>. QED
          BY <3>2, <3>3, <5>6 DEF NotTooLong
      <4>. QED
        BY <4>3, <4>4
    <3>. QED
      BY <3>5, <3>6
  <2>. QED
    BY <2>1, <2>2, <2>5, <2>7
<1>15. groups = [k \in DOMAIN parts |-> SubSeq(parts[k].text, start, Len(parts[k].text))]
  <2>1. groups = [k \in 1 .. r |-> groups[k]]
    BY <1>13
  <2>. QED
    BY <1>11, <1>14, <2>1
<1>. QED
  BY <1>11, <1>13, <1>14, <1>15 DEF OnceRows

LEMMA TablesOnce ==
  ASSUME ChunkTypeOK, NodesFromBlocks, TablesTogether
  PROVE  TableRowsOnce
<1>1. SUFFICES ASSUME setting.chunker = "table_aware", NEW b \in Of({"table"}),
                      NEW parts, parts = NodesOf(b), NEW start, start = Len(Header(b)) + 1,
                      Len(parts) > 1
               PROVE  /\ \A k \in DOMAIN parts : SubSeq(parts[k].text, 1, Len(Header(b))) = Header(b)
                      /\ Text(b) = Header(b) \o
                           Chained([k \in DOMAIN parts |-> SubSeq(parts[k].text, start, Len(parts[k].text))])
                      /\ \A k \in DOMAIN parts :
                           NotTooLong(parts[k].text, Len(parts[k].text) - Len(Header(b)))
  BY DEF TableRowsOnce, NotTooLong
<1>2. PICK h : h = Header(b)
  OBVIOUS
<1>3. start = Len(h) + 1
  BY <1>1, <1>2
<1>4. OnceRows(parts, h, start, b)
  BY <1>1, <1>2, <1>3, RowsOnce
<1>. QED
  BY <1>2, <1>4 DEF OnceRows

-----------------------------------------------------------------------------
(* The invariant is inductive.                                              *)
LEMMA RoomIsNumber == IdLength \in Nat
BY ChunksAssumption

LEMMA ChunkInvInit == ChunkInit => ChunkInv
<1>1. SUFFICES ASSUME ChunkInit PROVE ChunkInv
  OBVIOUS
<1>2. document \in Seq(Block) /\ Len(document) > 0 /\ Len(document) \in Nat /\ setting \in Setting
  <2>1. PICK n \in 1 .. MaxBlocks : document \in [1 .. n -> Kinds]
    BY <1>1 DEF ChunkInit
  <2>2. Kinds \subseteq Block /\ Settings \subseteq Setting /\ MaxBlocks \in Nat
    BY ChunksAssumption
  <2>3. n \in Nat /\ n > 0
    BY <2>2
  <2>4. document \in Seq(Block) /\ Len(document) = n
    BY <2>1, <2>2, <2>3
  <2>. QED
    BY <1>1, <2>2, <2>3, <2>4 DEF ChunkInit
<1>3. /\ at = 1 /\ outcome = "chunking"
      /\ path \in Seq(Nat) /\ DOMAIN path = {} /\ group \in Seq(Nat) /\ DOMAIN group = {}
      /\ nodes \in Seq(Node) /\ DOMAIN nodes = {} /\ Len(nodes) = 0
  <2>1. PICK e : e = <<>>
    OBVIOUS
  <2>2. e \in Seq(Nat) /\ e \in Seq(Node) /\ DOMAIN e = {} /\ Len(e) = 0
    BY <2>1, EmptySeq
  <2>3. path = e /\ group = e /\ nodes = e
    BY <1>1, <2>1 DEF ChunkInit
  <2>. QED
    BY <1>1, <2>2, <2>3 DEF ChunkInit
<1>4. \A b \in DOMAIN document : ~(b < at)
  BY <1>2, <1>3
<1>5. ChunkTypeOK
  BY <1>2, <1>3 DEF ChunkTypeOK
<1>6. InHand
  BY <1>3 DEF InHand, Ascends
<1>7. NodesFromBlocks
  BY <1>3 DEF NodesFromBlocks
<1>8. KeptSoFar
  BY <1>4 DEF KeptSoFar, Of
<1>9. InSection
  <2>1. Range(path) = {}
    BY <1>3 DEF Range
  <2>2. HeadingsAbove(at) = {}
    BY <1>4 DEF HeadingsAbove, Of
  <2>. QED
    BY <1>3, <2>1, <2>2 DEF InSection
<1>10. TablesTogether
  BY <1>4 DEF TablesTogether, Of
<1>11. NodesKeepTheirSection
  BY <1>3 DEF NodesKeepTheirSection, Range
<1>12. WindowsOverlapAsAsked
  <2>1. PICK n : n = Len(nodes) - 1
    OBVIOUS
  <2>2. 1 .. n = {}
    <3>1. n = 0 - 1
      BY <1>3, <2>1
    <3>. QED
      BY <3>1
  <2>. QED
    BY <2>1, <2>2 DEF WindowsOverlapAsAsked
<1>13. NodeIdsDiffer
  BY <1>3 DEF NodeIdsDiffer, Range
<1>. QED
  BY <1>5, <1>6, <1>7, <1>8, <1>9, <1>10, <1>11, <1>12, <1>13 DEF ChunkInv

LEMMA ChunkInvStep == ChunkInv /\ [ChunkNext]_chunkVars => ChunkInv'
<1>1. SUFFICES ASSUME ChunkInv, [ChunkNext]_chunkVars PROVE ChunkInv'
  OBVIOUS
<1>2. /\ ChunkTypeOK /\ InHand /\ NodesFromBlocks /\ KeptSoFar /\ InSection /\ TablesTogether
      /\ NodesKeepTheirSection /\ WindowsOverlapAsAsked /\ NodeIdsDiffer
  BY <1>1 DEF ChunkInv
<1>3. CASE \E made : StepOK(made)
  <2>1. PICK made : StepOK(made)
    BY <1>3
  <2>2. Adds(made)
    BY <2>1 DEF StepOK
  <2>3. ChunkTypeOK' /\ InHand'
    BY <1>2, <2>2, TypeStep, HandStep
  <2>4. NodesFromBlocks' /\ KeptSoFar'
    BY <1>2, <2>2, FromBlocksStep, KeptStep
  <2>5. InSection' /\ NodesKeepTheirSection'
    BY <1>2, <2>2, SectionStep, PathsStep
  <2>6. WindowsOverlapAsAsked' /\ NodeIdsDiffer'
    BY <1>2, <2>1, <2>2, WindowsStep, IdsStep
  <2>7. TablesTogether'
    BY <1>2, <2>1, TablesStep, RoomIsNumber
  <2>. QED
    BY <2>3, <2>4, <2>5, <2>6, <2>7 DEF ChunkInv
<1>4. CASE BreakOff \/ UNCHANGED chunkVars
  <2>1. /\ document' = document /\ setting' = setting /\ at' = at /\ path' = path /\ group' = group
        /\ nodes' = nodes /\ (outcome' = outcome \/ outcome' = "failed")
    BY <1>4 DEF BreakOff, chunkVars
  <2>2. ChunkTypeOK'
    BY <1>2, <2>1 DEF ChunkTypeOK
  <2>3. InHand'
    BY <1>2, <2>1 DEF InHand, Ascends, Of, Gathered
  <2>4. NodesFromBlocks'
    BY <1>2, <2>1 DEF NodesFromBlocks, Of, Range
  <2>5. KeptSoFar'
    <3>1. /\ \A b : Text(b)' = Text(b)
          /\ Of(Served)' = Of(Served)
      BY <2>1 DEF Text, Of, Served
    <3>2. \A p : Holds(nodes, p)' = Holds(nodes, p)
      BY <2>1 DEF Holds
    <3>. QED
      BY <1>2, <2>1, <3>1, <3>2 DEF KeptSoFar, Range
  <2>6. InSection'
    <3>1. WellNested' = WellNested /\ HeadingsAbove(at)' = HeadingsAbove(at)
      BY <2>1, SameHeadings DEF HeadingsAbove, Of
    <3>. QED
      BY <1>2, <2>1, <3>1 DEF InSection, Of, Range
  <2>8. NodesKeepTheirSection'
    <3>1. WellNested' = WellNested /\ \A b : Ascending(HeadingsAbove(b))' = Ascending(HeadingsAbove(b))
      BY <2>1, SameHeadings DEF HeadingsAbove, Of, Ascending
    <3>. QED
      BY <1>2, <2>1, <3>1 DEF NodesKeepTheirSection, Range
  <2>9. WindowsOverlapAsAsked'
    BY <1>2, <2>1 DEF WindowsOverlapAsAsked, Overlapping
  <2>10. NodeIdsDiffer'
    <3>1. IdsHaveRoom' = IdsHaveRoom
      BY <2>1, SameRoom
    <3>. QED
      BY <1>2, <2>1, <3>1 DEF NodeIdsDiffer
  <2>11. TablesTogether'
    <3>1. \A b : SplitRows(b)' = SplitRows(b)
      BY <2>1, SameRows
    <3>2. \A b : PlacesOf(b)' = PlacesOf(b)
      BY <2>1 DEF PlacesOf
    <3>3. Of({"table"})' = Of({"table"})
      BY <2>1 DEF Of
    <3>. QED
      BY <1>2, <2>1, <3>1, <3>2, <3>3 DEF TablesTogether
  <2>. QED
    BY <2>2, <2>3, <2>4, <2>5, <2>6, <2>8, <2>9, <2>10, <2>11 DEF ChunkInv
<1>. QED
  BY <1>1, <1>2, <1>3, <1>4, EachStep, RoomIsNumber

LEMMA ChunkInvariant == ChunkSpec => []ChunkInv
BY ChunkInvInit, ChunkInvStep, PTL DEF ChunkSpec

(* What the chunkers keep in their hands is of its type.                    *)
THEOREM ChunksWellTyped == ChunkSpec => []ChunkTypeOK
BY ChunkInvariant, PTL DEF ChunkInv

(* Whatever chunker a document goes through, and whatever it is configured  *)
(* to: when the loop has ended, every piece of every block that this        *)
(* chunker serves is in a node that cites the block, and at no time has a   *)
(* node a text that is neither of its blocks nor of a heading.              *)
THEOREM EveryPieceIsKept == ChunkSpec => []ContentIsKept
<1>1. ChunkInv => ContentIsKept
  BY KeptInTheEnd DEF ChunkInv
<1>. QED
  BY <1>1, ChunkInvariant, PTL

(* Windows of _split_by_tokens, for every size of at least one token and    *)
(* every overlap, the ones that are not less than the size included: each   *)
(* adds something to the one before, and shares with it what was asked.     *)
THEOREM WindowsShareWhatWasAsked == ChunkSpec => []WindowsOverlapAsAsked
BY ChunkInvariant, PTL DEF ChunkInv

(* No node of a document whose headings skip no level gets the path of      *)
(* another section, whichever chunker made it.                              *)
THEOREM PathsAreTheirSections == ChunkSpec => []NodesKeepTheirSection
BY ChunkInvariant, PTL DEF ChunkInv

(* A table that _split_table_with_header_recovery splits is put together    *)
(* again from its parts: the header is repeated in each, each row is in     *)
(* one, and a part of several rows is over the size at most by what its     *)
(* line breaks have more tokens than the margin.                            *)
THEOREM TablesAreSplitOnce == ChunkSpec => []TableRowsOnce
<1>1. ChunkInv => TableRowsOnce
  BY TablesOnce DEF ChunkInv
<1>. QED
  BY <1>1, ChunkInvariant, PTL

(* The nodes of an index are as many as its rows: no two have one id, as    *)
(* long as what is repeated in front of their texts leaves room for it, and *)
(* the parent that a child names is there, and has its blocks.              *)
THEOREM NodesHaveTheirOwnIds == ChunkSpec => []NodeIdsDiffer
BY ChunkInvariant, PTL DEF ChunkInv
=============================================================================
