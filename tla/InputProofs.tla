----------------------------- MODULE InputProofs ------------------------------
(***************************************************************************)
(* Proofs about what comes from outside: the advertised limits of a        *)
(* request, in bytes (BatchWire), the lines of the stdio listener          *)
(* (LineReader), and the preflight of serialized models (GraphScan).       *)
(***************************************************************************)
EXTENDS Inputs, FiniteSetTheorems, SequenceTheorems, WellFoundedInduction, TLAPS

(***************************************************************************)
(* The limits hold, whatever the limit of an image, and whatever a client  *)
(* writes around its images: none beyond them is admitted, and no compact  *)
(* request within them is refused for its size.                            *)
(***************************************************************************)
\* What is composed adds up, item by item.
TypeOK ==
    /\ limit \in Nat
    /\ route \in Routes
    /\ items \in Seq([size : Nat, end : Nat])
    /\ bytes \in Nat /\ groups \in Nat /\ overhead \in Nat /\ around \in Nat
    /\ stage \in {"compose", "sent", "decode"} \cup Answers
    /\ decoded \in 0..Len(items)
    /\ total \in Nat

Sums ==
    /\ bytes = (IF Len(items) = 0 THEN 0 ELSE items[Len(items)].end)
    /\ \A i \in 1..Len(items) :
          /\ items[i].size <= bytes /\ items[i].end <= bytes
          /\ items[i].end = items[i].size + (IF i = 1 THEN 0 ELSE items[i - 1].end)

\* How long it gets.
Sizes ==
    /\ Len(items) \in 0..9
    /\ 3 * groups <= bytes + 2 * Len(items)
    /\ route = "single" => Len(items) <= 1 /\ around = 0
    /\ route = "single" /\ stage # "compose" => Len(items) = 1

\* One image is encoded as WireLimits expects.
Single == Len(items) = 1 => groups = Groups(bytes)

Decoding ==
    /\ total = (IF decoded = 0 THEN 0 ELSE items[decoded].end)
    /\ stage \in {"compose", "sent"} => decoded = 0
    /\ stage = "decode" => Len(items) \in 1..MaxBatchItems /\ total <= limit

Inv == TypeOK /\ Sums /\ Sizes /\ Single /\ Decoding /\ LimitsAreExact

\* The products of the number of items with the size of an item are ordered as the
\* numbers are.
LEMMA ShellsFit ==
    ASSUME NEW n \in 0..8, NEW s \in Nat
    PROVE  n * s \in Nat /\ n * s <= 8 * s
<1>1. /\ 0 * s = 0 /\ 1 * s = s /\ 2 * s = s + s /\ 3 * s = s + s + s
      /\ 4 * s = s + s + s + s /\ 5 * s = s + s + s + s + s
      /\ 6 * s = s + s + s + s + s + s /\ 7 * s = s + s + s + s + s + s + s
      /\ 8 * s = s + s + s + s + s + s + s + s
  OBVIOUS
<1>2. n \in {0, 1, 2, 3, 4, 5, 6, 7, 8}
  OBVIOUS
<1> QED
  BY <1>1, <1>2

\* What an element of a sequence is, and what Append keeps.
LEMMA ElementType ==
    ASSUME NEW T, NEW s \in Seq(T), NEW i \in 1..Len(s)
    PROVE  s[i] \in T
OBVIOUS

\* What a sequence becomes when one element is appended to it.
LEMMA AppendType ==
    ASSUME NEW T, NEW s \in Seq(T), NEW e \in T
    PROVE  /\ Append(s, e) \in Seq(T) /\ Len(Append(s, e)) = Len(s) + 1
           /\ \A i \in 1..Len(s) : Append(s, e)[i] = s[i]
           /\ Append(s, e)[Len(s) + 1] = e
OBVIOUS

\* The fields of an item.
LEMMA ItemType ==
    ASSUME NEW e \in [size : Nat, end : Nat]
    PROVE  e.size \in Nat /\ e.end \in Nat
OBVIOUS

\* A group of four characters has three bytes, up to two of them missing.
LEMMA GroupsBound ==
    ASSUME NEW n \in Nat
    PROVE  Groups(n) \in Nat /\ n <= 3 * Groups(n) /\ 3 * Groups(n) <= n + 2
BY DEF Groups

\* The heart of the matter: up to eight images need five groups more than one image of
\* all their bytes, twenty characters, and seven commas; 4 * (8 - 1) characters are
\* set aside for them.
LEMMA BodyFits ==
    ASSUME TypeOK, Sizes, Single, stage # "compose", Legal, Compact
    PROVE  Body <= BodyLimit
<1>1. ItemOverhead \in Nat /\ BatchShell \in Nat /\ McpShell \in Nat /\ MaxBatchItems = 8
  BY WireAssumption
<1>2. Len(items) \in 1..8 /\ bytes <= limit
  BY <1>1 DEF Legal
<1>3. /\ limit \in Nat /\ bytes \in Nat /\ groups \in Nat /\ overhead \in Nat /\ around \in Nat
      /\ route \in Routes /\ Commas = Len(items) - 1
  <2>1. /\ limit \in Nat /\ bytes \in Nat /\ groups \in Nat /\ overhead \in Nat
        /\ around \in Nat /\ route \in Routes
    BY DEF TypeOK
  <2>2. items # <<>>
    <3>1. Len(<<>>) = 0 /\ 0 \notin 1..8
      OBVIOUS
    <3> QED
      BY <1>2, <3>1, Zenon
  <2> QED
    BY <2>1, <2>2 DEF Commas
<1>4. overhead <= 8 * ItemOverhead /\ 8 * ItemOverhead \in Nat
  <2>1. Len(items) \in 0..8
    BY <1>2
  <2>2. Len(items) * ItemOverhead \in Nat /\ Len(items) * ItemOverhead <= 8 * ItemOverhead
    BY <2>1, <1>1, ShellsFit, Zenon
  <2>3. overhead <= Len(items) * ItemOverhead
    BY DEF Compact
  <2>4. 8 * ItemOverhead \in Nat
    BY <1>1
  <2> DEFINE shells == Len(items) * ItemOverhead
             most == 8 * ItemOverhead
  <2>5. shells \in Nat /\ shells <= most /\ overhead <= shells /\ most \in Nat
    BY <2>2, <2>3, <2>4
  <2> HIDE DEF shells, most
  <2>6. overhead <= most
    BY <1>3, <2>5
  <2> QED
    BY <2>4, <2>6 DEF most
<1>5. Groups(limit) \in Nat /\ limit <= 3 * Groups(limit)
  BY <1>3, GroupsBound
<1>6. 3 * groups <= bytes + 2 * Len(items)
  BY DEF Sizes
<1>7. 4 * groups + Len(items) - 1 <= 4 * Groups(limit) + 28
  <2> DEFINE g == Groups(limit)
             n == Len(items)
  <2>1. /\ n \in 1..8 /\ bytes <= limit /\ g \in Nat /\ limit <= 3 * g
        /\ 3 * groups <= bytes + 2 * n
    BY <1>2, <1>5, <1>6
  <2> HIDE DEF g, n
  <2>2. 4 * groups + n - 1 <= 4 * g + 28
    BY <1>3, <2>1
  <2> QED
    BY <2>2 DEF g, n
<1>8. CASE route = "single"
  <2>1. Len(items) = 1
    BY <1>8 DEF Sizes
  <2>2. groups = Groups(bytes)
    BY <2>1 DEF Single
  <2>3. overhead <= ItemOverhead
    BY <2>1, <1>1 DEF Compact
  <2>4. Groups(bytes) <= Groups(limit)
    BY <1>2, <1>3 DEF Groups
  <2>5. around = 0 /\ Commas = 0
    BY <1>3, <1>8, <2>1 DEF Sizes
  <2> QED
    BY <1>1, <1>3, <1>5, <1>8, <2>2, <2>3, <2>4, <2>5 DEF Body, BodyLimit, JsonSingle, Base64
<1>9. JsonBatch = 4 * Groups(limit) + 28 + 8 * ItemOverhead + BatchShell
  BY <1>1, <1>3, <1>5 DEF JsonBatch, Base64
<1>10. 4 * groups + overhead + Commas + BatchShell <= JsonBatch
  <2> DEFINE coded == 4 * Groups(limit)
             shells == 8 * ItemOverhead
             n == Len(items)
  <2>1. /\ coded \in Nat /\ shells \in Nat /\ n \in 1..8 /\ overhead <= shells
        /\ 4 * groups + n - 1 <= coded + 28 /\ JsonBatch = coded + 28 + shells + BatchShell
        /\ Commas = n - 1
    <3>1. coded \in Nat
      BY <1>5
    <3>2. shells \in Nat /\ overhead <= shells
      BY <1>4, Zenon
    <3>3. n \in 1..8 /\ Commas = n - 1
      BY <1>2, <1>3, Zenon
    <3>4. 4 * groups + n - 1 <= coded + 28
      BY <1>7, Zenon
    <3>5. JsonBatch = coded + 28 + shells + BatchShell
      BY <1>9, Zenon
    <3> QED
      BY <3>1, <3>2, <3>3, <3>4, <3>5, Zenon
  <2> HIDE DEF coded, shells, n
  <2> QED
    BY <1>1, <1>3, <2>1
<1>11. JsonBatch \in Int /\ Commas \in Int
  <2>1. 4 * Groups(limit) \in Int
    BY <1>5
  <2> QED
    BY <1>1, <1>2, <1>3, <1>4, <1>9, <2>1
<1>12. CASE route = "batch"
  <2>1. around <= BatchShell
    BY <1>12 DEF Compact, Expected
  <2>2. Body = 4 * groups + overhead + Commas + around /\ BodyLimit = JsonBatch
    BY <1>12 DEF Body, BodyLimit
  <2> QED
    BY <1>1, <1>3, <1>10, <1>11, <2>1, <2>2
<1>13. CASE route = "mcp"
  <2>1. around <= McpShell + BatchShell
    BY <1>13 DEF Compact, Expected
  <2>2. Body = 4 * groups + overhead + Commas + around /\ BodyLimit = JsonBatch + McpShell
    BY <1>13 DEF Body, BodyLimit, Mcp
  <2> QED
    BY <1>1, <1>3, <1>10, <1>11, <2>1, <2>2
<1> QED
  BY <1>3, <1>8, <1>12, <1>13 DEF Routes

\* A request begins with nothing.
LEMMA InitInv == Init => Inv
<1>1. Init => TypeOK
  BY WireAssumption DEF Init, TypeOK, Routes
<1>2. Init => Sums /\ Sizes
  BY DEF Init, Sums, Sizes
<1> QED
  BY <1>1, <1>2 DEF Init, Inv, Single, Decoding, LimitsAreExact, Answers

\* One more image, in its shell.
LEMMA ComposeInv ==
    ASSUME Inv, Compose
    PROVE  Inv'
<1>1. PICK size \in Images, shell \in Shells :
         /\ items' = Append(items, [size |-> size, end |-> bytes + size])
         /\ bytes' = bytes + size
         /\ groups' = groups + Groups(size)
         /\ overhead' = overhead + shell
  BY DEF Compose
<1>2. size \in Nat /\ shell \in Nat
  BY WireAssumption
<1>3. Groups(size) \in Nat /\ 3 * Groups(size) <= size + 2
  BY <1>2, GroupsBound
<1>4. /\ limit \in Nat /\ route \in Routes /\ bytes \in Nat /\ groups \in Nat /\ overhead \in Nat
      /\ around \in Nat /\ decoded \in 0..Len(items) /\ total \in Nat
      /\ items \in Seq([size : Nat, end : Nat])
  BY DEF Inv, TypeOK
<1>5. /\ UNCHANGED <<limit, route, around, stage, decoded, total>> /\ stage = "compose"
      /\ Len(items) \in 0..8 /\ (route = "single" => Len(items) = 0)
  <2>1. Len(items) \in Nat
    BY <1>4
  <2> QED
    <3>1. /\ UNCHANGED <<limit, route, around, stage, decoded, total>> /\ stage = "compose"
          /\ Len(items) <= MaxBatchItems /\ (route = "single" => Len(items) = 0)
      BY DEF Compose
    <3>2. Len(items) \in 0..8
      <4> DEFINE n == Len(items)
      <4>1. n \in Nat /\ n <= 8
        BY <2>1, <3>1, WireAssumption, Zenon
      <4> HIDE DEF n
      <4>2. n \in 0..8
        BY <4>1
      <4> QED
        BY <4>2 DEF n
    <3> QED
      BY <3>1, <3>2, Zenon
<1>6. [size |-> size, end |-> bytes + size] \in [size : Nat, end : Nat]
  BY <1>2, <1>4
<1>7. /\ items' \in Seq([size : Nat, end : Nat]) /\ Len(items') = Len(items) + 1
      /\ \A i \in 1..Len(items) : items'[i] = items[i]
      /\ items'[Len(items) + 1] = [size |-> size, end |-> bytes + size]
  <2> DEFINE Item == [size : Nat, end : Nat]
             e == [size |-> size, end |-> bytes + size]
  <2>1. items \in Seq(Item) /\ e \in Item /\ items' = Append(items, e)
    BY <1>1, <1>4, <1>6
  <2> HIDE DEF Item, e
  <2>2. /\ items' \in Seq(Item) /\ Len(items') = Len(items) + 1
        /\ \A i \in 1..Len(items) : items'[i] = items[i]
        /\ items'[Len(items) + 1] = e
    BY <2>1, AppendType
  <2> QED
    BY <2>2 DEF Item, e
<1>8. TypeOK'
  BY <1>1, <1>2, <1>3, <1>4, <1>5, <1>7 DEF TypeOK
<1>9. Sums'
  <2>1. bytes' = items'[Len(items')].end /\ Len(items') # 0
    BY <1>1, <1>5, <1>7
  <2>2. ASSUME NEW i \in 1..Len(items')
        PROVE  /\ items'[i].size <= bytes' /\ items'[i].end <= bytes'
               /\ items'[i].end = items'[i].size + (IF i = 1 THEN 0 ELSE items'[i - 1].end)
    <3>1. CASE i = Len(items) + 1
      <4>1. items'[i].size = size /\ items'[i].end = bytes + size
        <5>1. items'[i] = [size |-> size, end |-> bytes + size]
          BY <1>7, <3>1, Zenon
        <5> QED
          BY <5>1
      <4>2. bytes = (IF Len(items) = 0 THEN 0 ELSE items[Len(items)].end)
        BY DEF Inv, Sums
      <4>3. bytes = (IF i = 1 THEN 0 ELSE items'[i - 1].end)
        <5> DEFINE n == Len(items)
        <5>1. n \in 0..8 /\ i = n + 1 /\ (n = 0 \/ items'[n] = items[n])
          BY <1>5, <1>7, <3>1
        <5>2. (i = 1 <=> n = 0) /\ i - 1 = n
          BY <5>1
        <5> QED
          BY <4>2, <5>1, <5>2
      <4>4. items'[i].size <= bytes' /\ items'[i].end <= bytes'
        BY <1>1, <1>2, <1>4, <4>1
      <4>5. bytes + size = size + bytes
        BY <1>2, <1>4
      <4> QED
        BY <4>1, <4>3, <4>4, <4>5
    <3>2. CASE i \in 1..Len(items)
      <4>1. items'[i] = items[i] /\ (i # 1 => items'[i - 1] = items[i - 1])
        <5>1. i # 1 => i - 1 \in 1..Len(items)
          BY <1>5, <3>2
        <5> QED
          BY <1>7, <3>2, <5>1, Zenon
      <4>2. items[i].size \in Nat /\ items[i].end \in Nat
        <5>1. items[i] \in [size : Nat, end : Nat]
          BY <1>4, <3>2, ElementType, Zenon
        <5> QED
          BY <5>1, ItemType
      <4>3. /\ items[i].size <= bytes /\ items[i].end <= bytes
            /\ items[i].end = items[i].size + (IF i = 1 THEN 0 ELSE items[i - 1].end)
        BY <3>2 DEF Inv, Sums
      <4>4. items'[i].size <= bytes' /\ items'[i].end <= bytes'
        <5> DEFINE s == items[i].size
                   e == items[i].end
        <5>1. s \in Nat /\ e \in Nat /\ s <= bytes /\ e <= bytes /\ bytes' = bytes + size
          BY <1>1, <4>2, <4>3
        <5>2. items'[i].size = s /\ items'[i].end = e
          BY <4>1
        <5> HIDE DEF s, e
        <5>3. s <= bytes' /\ e <= bytes'
          BY <1>2, <1>4, <5>1
        <5> QED
          BY <5>2, <5>3, Zenon
      <4>5. items'[i].end = items'[i].size + (IF i = 1 THEN 0 ELSE items'[i - 1].end)
        <5>1. CASE i = 1
          BY <4>1, <4>3, <5>1, Zenon
        <5>2. CASE i # 1
          BY <4>1, <4>3, <5>2, Zenon
        <5> QED
          BY <5>1, <5>2
      <4> QED
        BY <4>4, <4>5
    <3> QED
      BY <1>5, <1>7, <3>1, <3>2
  <2> QED
    BY <2>1, <2>2 DEF Sums
<1>10. Sizes'
  <2>1. 3 * groups <= bytes + 2 * Len(items) /\ (route = "single" => around = 0)
    BY DEF Inv, Sizes
  <2>2. 3 * groups' <= bytes' + 2 * Len(items')
    <3> DEFINE g == Groups(size)
               n == Len(items)
    <3>1. /\ g \in Nat /\ 3 * g <= size + 2 /\ n \in 0..8 /\ 3 * groups <= bytes + 2 * n
          /\ groups' = groups + g /\ Len(items') = n + 1
      BY <1>1, <1>3, <1>5, <1>7, <2>1
    <3> HIDE DEF g, n
    <3> QED
      BY <1>1, <1>2, <1>4, <3>1
  <2> QED
    <3> DEFINE n == Len(items)
    <3>1. n \in 0..8 /\ Len(items') = n + 1 /\ (route = "single" => n = 0)
          /\ route' = route /\ stage' = "compose"
      BY <1>5, <1>7
    <3>2. Len(items') \in 0..9 /\ (route' = "single" => Len(items') <= 1)
      <4> HIDE DEF n
      <4>1. n + 1 \in 0..9 /\ (n = 0 => n + 1 <= 1)
        BY <3>1
      <4> QED
        BY <3>1, <4>1, Zenon
    <3> QED
      BY <1>5, <2>1, <2>2, <3>1, <3>2, Zenon DEF Sizes
<1>11. Single'
  <2>1. Len(items) = 0 => groups = 0 /\ bytes = 0
    BY <1>4 DEF Inv, Sums, Sizes
  <2> QED
    BY <1>1, <1>2, <1>3, <1>4, <1>5, <1>7, <2>1 DEF Single, Groups
<1>12. Decoding'
  BY <1>5 DEF Inv, Decoding
<1>13. LimitsAreExact'
  BY <1>5 DEF LimitsAreExact, Answers
<1> QED
  BY <1>8, <1>9, <1>10, <1>11, <1>12, <1>13 DEF Inv

\* A request that was sent stays as it is.
LEMMA RequestKept ==
    ASSUME Inv, UNCHANGED request, stage # "compose" \/ (route = "single" => Len(items) = 1)
    PROVE  /\ Sums' /\ Sizes' /\ Single'
           /\ (Legal' <=> Legal) /\ (Compact' <=> Compact)
<1>1. /\ limit' = limit /\ route' = route /\ items' = items /\ bytes' = bytes
      /\ groups' = groups /\ overhead' = overhead /\ around' = around
  BY DEF request
<1> QED
  BY <1>1 DEF Inv, Sums, Sizes, Single, Legal, Compact, Expected

\* The request is complete.
LEMMA SendInv ==
    ASSUME Inv, Send
    PROVE  Inv'
<1>1. /\ UNCHANGED <<limit, route, items, bytes, groups, overhead, decoded, total>>
      /\ stage = "compose" /\ stage' = "sent"
      /\ route = "single" => Len(items) = 1 /\ around' = around
      /\ around' \in Wrappers \cup {around}
  BY DEF Send
<1>2. around' \in Nat
  BY <1>1, WireAssumption DEF Inv, TypeOK
<1>3. Sums' /\ Sizes' /\ Single'
  BY <1>1 DEF Inv, Sums, Sizes, Single
<1>5. TypeOK'
  BY <1>1, <1>2 DEF Inv, TypeOK
<1>6. Decoding'
  BY <1>1 DEF Inv, Decoding
<1>7. LimitsAreExact'
  BY <1>1 DEF LimitsAreExact, Answers
<1> QED
  BY <1>3, <1>5, <1>6, <1>7 DEF Inv

\* The limit of the body lets a request in, or not.
LEMMA ReceiveInv ==
    ASSUME Inv, Receive
    PROVE  Inv'
<1>1. /\ UNCHANGED request /\ UNCHANGED <<decoded, total>> /\ stage = "sent"
      /\ stage' = IF Body > BodyLimit THEN "too_large"
                  ELSE IF Len(items) \in 1..MaxBatchItems THEN "decode" ELSE "invalid"
  BY DEF Receive
<1>2. Sums' /\ Sizes' /\ Single' /\ (Legal' <=> Legal) /\ (Compact' <=> Compact)
  BY <1>1, RequestKept
<1>3. Legal /\ Compact => Body <= BodyLimit
  BY <1>1, BodyFits DEF Inv
<1>4. Body \in Int /\ BodyLimit \in Int
  <2>1. /\ groups \in Nat /\ overhead \in Nat /\ around \in Nat /\ Commas \in Int
        /\ limit \in Nat /\ route \in Routes
    BY DEF Inv, TypeOK, Commas
  <2>2. ItemOverhead \in Nat /\ BatchShell \in Nat /\ McpShell \in Nat /\ MaxBatchItems = 8
    BY WireAssumption
  <2>3. Groups(limit) \in Nat
    BY <2>1, GroupsBound
  <2>4. Body \in Int
    BY <2>1 DEF Body
  <2>5. JsonSingle \in Int /\ JsonBatch \in Int
    <3>1. Base64(limit) \in Int /\ MaxBatchItems * ItemOverhead \in Int
      BY <2>2, <2>3 DEF Base64
    <3> QED
      BY <2>2, <3>1 DEF JsonSingle, JsonBatch
  <2>6. Mcp \in Int
    BY <2>2, <2>5 DEF Mcp
  <2>7. BodyLimit \in Int
    BY <2>1, <2>5, <2>6 DEF BodyLimit, Routes
  <2> QED
    BY <2>4, <2>7
<1>5. LimitsAreExact'
  <2>1. stage' = "too_large" => ~(Legal /\ Compact)
    BY <1>1, <1>3, <1>4
  <2>2. stage' = "invalid" => ~Legal
    BY <1>1 DEF Legal
  <2>3. stage' # "admitted"
    BY <1>1
  <2> QED
    BY <1>2, <2>1, <2>2, <2>3 DEF LimitsAreExact, Answers
<1>6. Decoding'
  <2>1. decoded = 0 /\ total = 0 /\ limit \in Nat
    BY <1>1 DEF Inv, TypeOK, Decoding
  <2> QED
    BY <1>1, <2>1 DEF Decoding, request
<1>7. TypeOK'
  BY <1>1 DEF Inv, TypeOK, request, Answers
<1> QED
  BY <1>2, <1>5, <1>6, <1>7 DEF Inv

\* The bytes that are decoded with an item are those up to its end.
LEMMA DecodeInv ==
    ASSUME Inv, DecodeItem
    PROVE  Inv'
<1> DEFINE i == decoded + 1
           size == items[i].size
<1>1. /\ UNCHANGED request /\ stage = "decode" /\ decoded < Len(items) /\ decoded' = i
      /\ total' = total + size
      /\ stage' = IF size > limit THEN "invalid"
                  ELSE IF total + size > limit THEN "too_large" ELSE "decode"
  BY DEF DecodeItem
<1>2. Sums' /\ Sizes' /\ Single' /\ (Legal' <=> Legal) /\ (Compact' <=> Compact)
  BY <1>1, RequestKept
<1>3. /\ limit \in Nat /\ bytes \in Nat /\ total \in Nat /\ decoded \in 0..Len(items)
      /\ Len(items) \in Nat /\ items \in Seq([size : Nat, end : Nat])
  BY DEF Inv, TypeOK
<1>4. i \in 1..Len(items)
  BY <1>1, <1>3
<1>5. size \in Nat /\ items[i].end \in Nat
  <2>1. items[i] \in [size : Nat, end : Nat]
    BY <1>3, <1>4, ElementType, Zenon
  <2> QED
    BY <2>1, ItemType
<1>6. /\ size <= bytes /\ items[i].end <= bytes
      /\ items[i].end = size + (IF i = 1 THEN 0 ELSE items[i - 1].end)
  BY <1>4 DEF Inv, Sums
<1>7. total = (IF decoded = 0 THEN 0 ELSE items[decoded].end)
  BY DEF Inv, Decoding
<1>8. i - 1 = decoded /\ (i = 1 <=> decoded = 0)
  BY <1>3
<1>9. items[i].end = total + size
  BY <1>3, <1>5, <1>6, <1>7, <1>8
<1>10. LimitsAreExact'
  <2>1. stage' # "decode" => bytes > limit
    <3>1. stage' # "decode" => size > limit \/ total + size > limit
      BY <1>1
    <3>2. size <= bytes /\ total + size <= bytes
      BY <1>6, <1>9
    <3> HIDE DEF size
    <3> QED
      BY <1>3, <1>5, <3>1, <3>2
  <2>2. stage' # "admitted"
    BY <1>1
  <2>3. stage' # "decode" => ~Legal
    BY <2>1, <1>3 DEF Legal
  <2> QED
    BY <1>2, <2>2, <2>3 DEF LimitsAreExact, Answers
<1>11. Decoding'
  <2>1. Len(items) \in 1..MaxBatchItems /\ items' = items /\ limit' = limit /\ i # 0
    BY <1>1, <1>3 DEF Inv, Decoding, request
  <2>2. total' = items'[decoded'].end
    BY <1>1, <1>9, <2>1
  <2>3. stage' = "decode" => total' <= limit
    BY <1>1, <1>3, <1>5
  <2>4. stage' \notin {"compose", "sent"}
    BY <1>1
  <2> QED
    <3>1. decoded' # 0
      BY <1>1, <2>1
    <3> QED
      BY <2>1, <2>2, <2>3, <2>4, <3>1 DEF Decoding
<1>12. TypeOK'
  <2>1. /\ total' \in Nat /\ decoded' \in 0..Len(items)
        /\ stage' \in {"compose", "sent", "decode"} \cup Answers
    <3>1. total' \in Nat
      <4>1. total' = total + size /\ size \in Nat /\ total \in Nat
        BY <1>1, <1>3, <1>5
      <4> HIDE DEF size
      <4> QED
        BY <4>1
    <3>2. decoded' \in 0..Len(items)
      BY <1>1, <1>3, <1>4
    <3>3. stage' \in {"invalid", "too_large", "decode"}
      BY <1>1
    <3> QED
      BY <3>1, <3>2, <3>3 DEF Answers
  <2> QED
    BY <1>1, <2>1 DEF Inv, TypeOK, request
<1> QED
  BY <1>2, <1>10, <1>11, <1>12 DEF Inv

\* All images are decoded.
LEMMA AdmitInv ==
    ASSUME Inv, AllDecoded
    PROVE  Inv'
<1>1. /\ UNCHANGED request /\ stage = "decode" /\ decoded = Len(items) /\ stage' = "admitted"
      /\ decoded' = decoded /\ total' = total
  BY DEF AllDecoded
<1>2. Sums' /\ Sizes' /\ Single' /\ (Legal' <=> Legal) /\ (Compact' <=> Compact)
  BY <1>1, RequestKept
<1>3. Legal
  <2>1. Len(items) \in 1..MaxBatchItems /\ total <= limit /\ total = items[Len(items)].end
    BY <1>1, WireAssumption DEF Inv, Decoding
  <2>2. bytes = items[Len(items)].end
    BY <2>1, WireAssumption DEF Inv, Sums
  <2> QED
    BY <2>1, <2>2 DEF Legal
<1>4. TypeOK' /\ Decoding'
  BY <1>1 DEF Inv, TypeOK, Decoding, Answers, request
<1>5. LimitsAreExact'
  BY <1>1, <1>2, <1>3 DEF LimitsAreExact
<1> QED
  BY <1>2, <1>4, <1>5 DEF Inv

\* The inductive invariant of a request: what was composed adds up, what was decoded is
\* the beginning of it, and its groups are bounded by its images and their number.
THEOREM RequestSafe == Spec => []Inv
<1>1. Inv /\ [Next]_wire => Inv'
  <2> SUFFICES ASSUME Inv, [Next]_wire
               PROVE  Inv'
    OBVIOUS
  <2>1. CASE UNCHANGED wire
    BY <2>1 DEF Inv, TypeOK, Sums, Sizes, Single, Decoding, LimitsAreExact,
                Legal, Compact, Expected, wire
  <2> QED
    BY <2>1, ComposeInv, SendInv, ReceiveInv, DecodeInv, AdmitInv DEF Next
<1> QED
  BY InitInv, <1>1, PTL DEF Spec

\* Of WireLimits::new, recognize_batch and mcp_call: nothing beyond the advertised limits
\* is admitted, and no compact request within them is refused for its size.
THEOREM LimitsAgree == Spec => []LimitsAreExact
<1>1. Inv => LimitsAreExact
  BY DEF Inv
<1> QED
  BY RequestSafe, <1>1, PTL

------------------------------------------------------------------------------
(***************************************************************************)
(* The lines of the stdio listener, module LineReader: whatever comes and  *)
(* however it is cut into reads.                                           *)
(***************************************************************************)
\* The counting of the instance is the counting of the theorems about finite sets.
LEMMA SameCounting == \A S : Reader!Cardinality(S) = Cardinality(S)
  BY DEF Reader!Cardinality, Cardinality

\* The line feeds of a stream are among its positions.
LEMMA FeedsAreFinite ==
    ASSUME NEW T, NEW whole \in Seq(T)
    PROVE  /\ Reader!Feeds(whole) \subseteq 1..Len(whole)
           /\ \A S \in SUBSET Reader!Feeds(whole) : IsFiniteSet(S) /\ Cardinality(S) \in Nat
<1>1. Reader!Feeds(whole) \subseteq 1..Len(whole)
  BY DEF Reader!Feeds
<1>2. Len(whole) \in Nat
  OBVIOUS
<1>3. IsFiniteSet(1..Len(whole))
  BY <1>2, FS_Interval
<1>4. ASSUME NEW S \in SUBSET Reader!Feeds(whole)
      PROVE  IsFiniteSet(S) /\ Cardinality(S) \in Nat
  <2>1. S \in SUBSET (1..Len(whole))
    BY <1>1
  <2>2. IsFiniteSet(S)
    BY <1>3, <2>1, FS_Subset
  <2> QED
    BY <2>2, FS_CardinalityType
<1> QED
  BY <1>1, <1>4

\* The line feeds before an earlier end are fewer.
LEMMA EarlierHasFewer ==
    ASSUME NEW T, NEW whole \in Seq(T), NEW i \in Reader!Feeds(whole), NEW j \in Int, i < j
    PROVE  Cardinality(Reader!FeedsBefore(whole, i)) < Cardinality(Reader!FeedsBefore(whole, j))
<1> DEFINE A == Reader!FeedsBefore(whole, i)
           B == Reader!FeedsBefore(whole, j)
<1>1. Reader!Feeds(whole) \subseteq Int /\ i \in Int
  BY FeedsAreFinite
<1>2. A \subseteq Reader!Feeds(whole) /\ B \subseteq Reader!Feeds(whole)
  BY DEF Reader!FeedsBefore
<1>3. A \cup {i} \subseteq B /\ i \notin A
  BY <1>1 DEF Reader!FeedsBefore
<1>4. IsFiniteSet(A) /\ IsFiniteSet(B) /\ Cardinality(A) \in Nat /\ Cardinality(B) \in Nat
  BY <1>2, FeedsAreFinite
<1> HIDE DEF A, B
<1>5. Cardinality(A \cup {i}) = Cardinality(A) + 1
  BY <1>3, <1>4, FS_AddElement
<1>6. Cardinality(A \cup {i}) <= Cardinality(B)
  BY <1>3, <1>4, FS_Subset
<1>7. Cardinality(A) < Cardinality(B)
  BY <1>4, <1>5, <1>6
<1> QED
  BY <1>7 DEF A, B

\* The k-th end is the one that has k - 1 line feeds before it.
LEMMA EndIs ==
    ASSUME NEW T, NEW whole \in Seq(T), NEW n \in Nat,
           NEW i \in Reader!Feeds(whole) \cup {Len(whole) + 1},
           Cardinality(Reader!FeedsBefore(whole, i)) = n
    PROVE  Reader!End(whole, n + 1) = i
<1> DEFINE Ends == Reader!Feeds(whole) \cup {Len(whole) + 1}
           Is(x) == Reader!Cardinality(Reader!FeedsBefore(whole, x)) = (n + 1) - 1
<1>1. Is(i)
  BY SameCounting
<1>2. ASSUME NEW x \in Ends, Is(x) PROVE x = i
  <2>1. Cardinality(Reader!FeedsBefore(whole, x)) = n
    BY <1>2, SameCounting
  <2>2. Len(whole) \in Nat /\ Reader!Feeds(whole) \subseteq 1..Len(whole)
    BY FeedsAreFinite
  <2>3. ~(x < i)
    <3>1. CASE x \in Reader!Feeds(whole)
      BY <2>1, <2>2, <3>1, EarlierHasFewer
    <3>2. CASE x = Len(whole) + 1
      BY <2>2, <3>2
    <3> QED
      BY <3>1, <3>2
  <2>4. ~(i < x)
    <3>1. CASE i \in Reader!Feeds(whole)
      BY <2>1, <2>2, <3>1, EarlierHasFewer
    <3>2. CASE i = Len(whole) + 1
      BY <2>2, <3>2
    <3> QED
      BY <3>1, <3>2
  <2> QED
    BY <2>2, <2>3, <2>4
<1>3. Reader!End(whole, n + 1) = CHOOSE x \in Ends : Is(x)
  BY Zenon DEF Reader!End
<1> HIDE DEF Is
<1>4. i \in Ends
  OBVIOUS
<1>5. (CHOOSE x \in Ends : Is(x)) = i
  BY <1>1, <1>2, <1>4
<1> QED
  BY <1>3, <1>5

\* What was passed, and the n lines that ended there: s is the end of the last.
Passed == {j \in Reader!Feeds(stream) : j <= consumed}

Begins(s, n) ==
    /\ s \in 0..consumed
    /\ n = Cardinality(Passed)
    /\ \A j \in Reader!Feeds(stream) : j <= consumed => j <= s
    /\ \/ s = 0 /\ n = 0
       \/ s \in Reader!Feeds(stream) /\ n > 0 /\ Reader!End(stream, n) = s

\* In the middle of a line, or between two: what was read of it is kept, unless it
\* is too large.
Reading(s, n) ==
    /\ observed <=> s < consumed
    /\ tooLarge <=> consumed - s > MaxLine
    /\ output = (IF tooLarge THEN <<>> ELSE SubSeq(stream, s + 1, consumed))
    /\ lines = [k \in 1..n |-> Reader!LineOf(stream, k)]
    /\ ended => consumed = Len(stream) /\ s = consumed

\* The last line had no line feed, and was returned at the end.
Finished(s, n) ==
    /\ consumed = Len(stream) /\ s < consumed
    /\ ~observed /\ ~tooLarge /\ output = <<>>
    /\ lines = [k \in 1..(n + 1) |-> Reader!LineOf(stream, k)]

ReaderTyped ==
    /\ stream \in Streams
    /\ consumed \in 0..Len(stream)
    /\ tooLarge \in BOOLEAN /\ observed \in BOOLEAN /\ ended \in BOOLEAN

ReaderInv ==
    /\ ReaderTyped
    /\ \E s \in 0..consumed, n \in Nat : Begins(s, n) /\ (Reading(s, n) \/ Finished(s, n))

\* What is assumed of streams, and of the number of their bytes that is consumed.
LEMMA StreamType ==
    ASSUME Reader!ReaderInputs, ReaderTyped
    PROVE  /\ stream \in Seq(Reader!Range(stream)) /\ Len(stream) \in Nat
           /\ DOMAIN stream = 1..Len(stream)
           /\ consumed \in Nat /\ MaxLine \in Nat
  BY DEF Reader!ReaderInputs, ReaderTyped

\* A piece of the stream.
LEMMA Piece ==
    ASSUME Reader!ReaderInputs, ReaderTyped,
           NEW i \in 0..Len(stream), NEW j \in i..Len(stream)
    PROVE  /\ SubSeq(stream, i + 1, j) \in Seq(Reader!Range(stream))
           /\ Len(SubSeq(stream, i + 1, j)) = j - i
           /\ \A k \in (i + 1)..j : stream[k] \in Reader!Range(SubSeq(stream, i + 1, j))
<1> DEFINE p == SubSeq(stream, i + 1, j)
<1>1. \A k \in (i + 1)..j : stream[k] \in Reader!Range(stream)
  BY StreamType DEF Reader!Range
<1>2. /\ p \in Seq(Reader!Range(stream))
      /\ Len(p) = j - i
      /\ \A k \in 1..(j - i) : p[k] = stream[i + k]
  BY <1>1, StreamType, SubSeqProperties
<1>3. ASSUME NEW k \in (i + 1)..j PROVE stream[k] \in Reader!Range(p)
  <2>1. k - i \in 1..(j - i) /\ k - i \in DOMAIN p
    BY <1>2, StreamType
  <2>2. p[k - i] = stream[k]
    BY <1>2, <2>1, StreamType
  <2> QED
    BY <2>1, <2>2 DEF Reader!Range
<1> QED
  BY <1>2, <1>3

\* Without a line feed between them, what was passed is what is before the next end.
LEMMA NextEnd ==
    ASSUME Reader!ReaderInputs, ReaderTyped, NEW n \in Nat, n = Cardinality(Passed),
           NEW e \in (consumed + 1)..(Len(stream) + 1),
           e \in Reader!Feeds(stream) \/ e = Len(stream) + 1,
           \A k \in (consumed + 1)..(e - 1) : stream[k] # LF
    PROVE  Reader!End(stream, n + 1) = e
<1>1. Reader!Feeds(stream) \subseteq Int
  BY StreamType, FeedsAreFinite
<1>2. Reader!FeedsBefore(stream, e) = Passed
  BY <1>1, StreamType DEF Reader!FeedsBefore, Passed, Reader!Feeds
<1> QED
  BY <1>2, StreamType, EndIs

\* The line that begins after s and ends before e.
LEMMA RawIs ==
    ASSUME Reader!ReaderInputs, ReaderTyped, NEW n \in Nat, NEW s \in 0..consumed, Begins(s, n),
           NEW e \in (s + 1)..(Len(stream) + 1), Reader!End(stream, n + 1) = e
    PROVE  /\ Reader!Raw(stream, n + 1) = SubSeq(stream, s + 1, e - 1)
           /\ Len(Reader!Raw(stream, n + 1)) = e - 1 - s
<1>1. (IF n + 1 = 1 THEN 1 ELSE Reader!End(stream, (n + 1) - 1) + 1) = s + 1
  BY DEF Begins
<1>2. Reader!Raw(stream, n + 1) = SubSeq(stream, s + 1, e - 1)
  BY <1>1 DEF Reader!Raw
<1>3. e - 1 \in s..Len(stream) /\ s \in 0..Len(stream)
  BY StreamType
<1> QED
  BY <1>2, <1>3, Piece

\* What a turn keeps of the line: all of it, or nothing.
LEMMA TurnKeeps ==
    ASSUME Reader!ReaderInputs, ReaderTyped, NEW n \in Nat, NEW s \in 0..consumed, Reading(s, n),
           NEW last \in consumed..Len(stream),
           NEW taken, taken = SubSeq(stream, consumed + 1, last)
    PROVE  /\ Reader!Exceeds(taken) <=> last - s > MaxLine
           /\ Reader!Kept(taken) =
                 (IF last - s > MaxLine THEN <<>> ELSE SubSeq(stream, s + 1, last))
<1>1. s \in Nat /\ consumed \in Nat /\ last \in Nat /\ Len(stream) \in Nat /\ MaxLine \in Nat
  BY StreamType
<1>2. Len(taken) = last - consumed
  BY <1>1, Piece
<1>3. Len(SubSeq(stream, s + 1, consumed)) = consumed - s
  BY <1>1, Piece
<1>4. SubSeq(stream, s + 1, consumed) \o taken = SubSeq(stream, s + 1, last)
  BY <1>1, StreamType, ConcatAdjacentSubSeq
<1>5. CASE tooLarge
  <2>1. consumed - s > MaxLine
    BY <1>5 DEF Reading
  <2>2. last - s > MaxLine
    BY <1>1, <2>1
  <2>3. Reader!Exceeds(taken)
    BY <1>5 DEF Reader!Exceeds
  <2> QED
    BY <2>2, <2>3 DEF Reader!Kept
<1>6. CASE ~tooLarge
  <2>1. output = SubSeq(stream, s + 1, consumed) /\ ~(consumed - s > MaxLine)
    BY <1>6 DEF Reading
  <2>2. Reader!Exceeds(taken) <=> last - s > MaxLine
    BY <1>1, <1>2, <1>3, <1>6, <2>1 DEF Reader!Exceeds
  <2> QED
    BY <1>4, <1>6, <2>1, <2>2 DEF Reader!Kept, Reader!Grown
<1> QED
  BY <1>5, <1>6

\* One more line than there were.
LEMMA OneLineMore ==
    ASSUME NEW n \in Nat, lines = [k \in 1..n |-> Reader!LineOf(stream, k)],
           NEW l, l = Reader!LineOf(stream, n + 1)
    PROVE  Append(lines, l) = [k \in 1..(n + 1) |-> Reader!LineOf(stream, k)]
<1> DEFINE L(k) == Reader!LineOf(stream, k)
           T == {L(k) : k \in 1..(n + 1)}
           m == [k \in 1..(n + 1) |-> L(k)]
<1>1. lines \in Seq(T) /\ Len(lines) = n /\ \A k \in 1..n : lines[k] = L(k)
  OBVIOUS
<1>2. l \in T
  OBVIOUS
<1>3. m \in Seq(T) /\ Len(m) = n + 1 /\ \A k \in 1..(n + 1) : m[k] = L(k)
  OBVIOUS
<1>4. l = L(n + 1)
  OBVIOUS
<1> HIDE DEF L, T, m
<1>5. /\ Append(lines, l) \in Seq(T) /\ Len(Append(lines, l)) = n + 1
      /\ \A k \in 1..n : Append(lines, l)[k] = lines[k]
      /\ Append(lines, l)[n + 1] = l
  BY <1>1, <1>2, AppendProperties
<1>6. \A k \in 1..(n + 1) : Append(lines, l)[k] = m[k]
  BY <1>1, <1>3, <1>4, <1>5
<1>7. Append(lines, l) = m
  BY <1>3, <1>5, <1>6, SeqEqual
<1> QED
  BY <1>7 DEF L, m

\* The reader begins with no line.
LEMMA ReaderStart == ASSUME Reader!ReaderInputs, Reader!Init PROVE ReaderInv
<1> USE DEF Reader!Init
<1>1. ReaderTyped
  <2>1. stream \in Seq(Reader!Range(stream))
    BY DEF Reader!ReaderInputs
  <2>2. consumed \in 0..Len(stream)
    BY <2>1
  <2> QED
    BY <2>2, Zenon DEF ReaderTyped
<1>2. Passed = {}
  BY <1>1, StreamType DEF Passed, Reader!Feeds
<1>3. Begins(0, 0)
  BY <1>1, <1>2, StreamType, FeedsAreFinite, FS_EmptySet DEF Begins, Passed
<1>4. Reading(0, 0)
  <2>1. SubSeq(stream, 0 + 1, consumed) = <<>>
    OBVIOUS
  <2>2. lines = [k \in 1..0 |-> Reader!LineOf(stream, k)]
    OBVIOUS
  <2>3. ~(consumed - 0 > MaxLine) /\ ~(0 < consumed)
    BY DEF Reader!ReaderInputs
  <2> QED
    BY <2>1, <2>2, <2>3 DEF Reading
<1> QED
  BY <1>1, <1>3, <1>4 DEF ReaderInv

\* A read up to a line feed returns the line that ended there.
LEMMA FeedEndsLine ==
    ASSUME Reader!ReaderInputs, ReaderInv, Reader!ReadToLineFeed
    PROVE  ReaderInv'
<1> USE DEF ReaderInv
<1>1. PICK feed \in (consumed + 1)..Len(stream) :
         /\ stream[feed] = LF
         /\ LF \notin Reader!Range(SubSeq(stream, consumed + 1, feed - 1))
         /\ consumed' = feed
         /\ lines' = Append(lines,
               Reader!Line(Reader!WithoutCr(Reader!Kept(SubSeq(stream, consumed + 1, feed - 1))),
                           Reader!Exceeds(SubSeq(stream, consumed + 1, feed - 1))))
         /\ output' = <<>> /\ tooLarge' = FALSE /\ observed' = FALSE
         /\ UNCHANGED <<stream, ended>> /\ ~ended
  BY DEF Reader!ReadToLineFeed, Reader!Return
<1>2. PICK s \in 0..consumed, n \in Nat : Begins(s, n) /\ (Reading(s, n) \/ Finished(s, n))
  OBVIOUS
<1>3. /\ Len(stream) \in Nat /\ consumed \in 0..Len(stream) /\ MaxLine \in Nat
      /\ s \in Nat /\ feed \in Nat /\ consumed < Len(stream)
  BY <1>1, <1>2, StreamType DEF ReaderTyped
<1>4. Reading(s, n)
  BY <1>2, <1>3 DEF Finished
<1>5. feed \in Reader!Feeds(stream)
  BY <1>1, <1>3, StreamType DEF Reader!Feeds
<1>6. \A k \in (consumed + 1)..(feed - 1) : stream[k] # LF
  <2>1. feed - 1 \in consumed..Len(stream)
    BY <1>1, <1>3
  <2> QED
    BY <1>1, <1>3, <2>1, Piece
<1>7. Reader!End(stream, n + 1) = feed
  BY <1>1, <1>2, <1>3, <1>5, <1>6, NextEnd DEF Begins
<1>8. /\ Reader!Raw(stream, n + 1) = SubSeq(stream, s + 1, feed - 1)
      /\ Len(Reader!Raw(stream, n + 1)) = feed - 1 - s
  BY <1>1, <1>2, <1>3, <1>7, RawIs
<1>9. lines' = [k \in 1..(n + 1) |-> Reader!LineOf(stream, k)]
  <2> DEFINE taken == SubSeq(stream, consumed + 1, feed - 1)
             l == Reader!Line(Reader!WithoutCr(Reader!Kept(taken)), Reader!Exceeds(taken))
  <2>1. /\ Reader!Exceeds(taken) <=> feed - 1 - s > MaxLine
        /\ Reader!Kept(taken) =
              (IF feed - 1 - s > MaxLine THEN <<>> ELSE SubSeq(stream, s + 1, feed - 1))
    <3>1. feed - 1 \in consumed..Len(stream)
      BY <1>1, <1>3
    <3> QED
      BY <1>2, <1>4, <3>1, TurnKeeps
  <2>2. Reader!Exceeds(taken) \in BOOLEAN
    BY DEF ReaderTyped, Reader!Exceeds
  <2> HIDE DEF taken
  <2>3. CASE feed - 1 - s > MaxLine
    <3>1. Reader!WithoutCr(Reader!Kept(taken)) = <<>>
      BY <2>1, <2>3 DEF Reader!WithoutCr
    <3>2. Reader!Exceeds(taken) = TRUE
      BY <2>1, <2>2, <2>3
    <3>3. Reader!LineOf(stream, n + 1) = Reader!Line(<<>>, TRUE)
      BY <1>8, <2>3 DEF Reader!LineOf
    <3>4. l = Reader!LineOf(stream, n + 1)
      BY <3>1, <3>2, <3>3
    <3> QED
      BY <1>1, <1>2, <1>4, <3>4, OneLineMore DEF Reading, taken
  <2>4. CASE ~(feed - 1 - s > MaxLine)
    <3>1. Reader!Kept(taken) = Reader!Raw(stream, n + 1)
      BY <1>8, <2>1, <2>4
    <3>2. Reader!Exceeds(taken) = FALSE
      BY <2>1, <2>2, <2>4
    <3>3. Reader!LineOf(stream, n + 1)
             = Reader!Line(Reader!WithoutCr(Reader!Raw(stream, n + 1)), FALSE)
      BY <1>5, <1>7, <1>8, <2>4 DEF Reader!LineOf
    <3>4. l = Reader!LineOf(stream, n + 1)
      BY <3>1, <3>2, <3>3
    <3> QED
      BY <1>1, <1>2, <1>4, <3>4, OneLineMore DEF Reading, taken
  <2> QED
    BY <2>3, <2>4
<1>10. Passed' = Passed \cup {feed} /\ feed \notin Passed
  <2>1. \A j \in Reader!Feeds(stream) : j \in Int /\ ~(consumed < j /\ j < feed)
    BY <1>6, StreamType, FeedsAreFinite DEF Reader!Feeds
  <2>2. Reader!Feeds(stream)' = Reader!Feeds(stream)
    BY <1>1 DEF Reader!Feeds
  <2>3. /\ Passed = {j \in Reader!Feeds(stream) : j <= consumed}
        /\ Passed' = {j \in Reader!Feeds(stream) : j <= feed}
    BY <1>1, <2>2 DEF Passed
  <2>4. \A j \in Reader!Feeds(stream) : j <= feed <=> j <= consumed \/ j = feed
    BY <1>3, <1>1, <2>1
  <2>5. ~(feed <= consumed)
    BY <1>1, <1>3
  <2> QED
    BY <1>5, <2>3, <2>4, <2>5
<1>11. Cardinality(Passed)' = n + 1
  <2>1. IsFiniteSet(Passed)
    BY StreamType, FeedsAreFinite DEF Passed
  <2>2. Cardinality(Passed \cup {feed}) = n + 1
    BY <1>2, <1>10, <2>1, FS_AddElement DEF Begins
  <2> QED
    BY <1>10, <2>2
<1>12. ReaderTyped'
  <2>1. consumed' \in 0..Len(stream')
    BY <1>1, <1>3
  <2> QED
    BY <1>1, <2>1, Zenon DEF ReaderTyped
<1>13. Reader!Feeds(stream)' = Reader!Feeds(stream) /\ Reader!Feeds(stream) \subseteq Int
  BY <1>1, StreamType, FeedsAreFinite DEF Reader!Feeds
<1>14. Begins(feed, n + 1)'
  <2>1. Reader!End(stream, n + 1)' = feed
    BY <1>1, <1>7 DEF Reader!End, Reader!Feeds, Reader!FeedsBefore
  <2> QED
    BY <1>1, <1>3, <1>5, <1>11, <1>13, <2>1 DEF Begins
<1>15. Reading(feed, n + 1)'
  <2>1. SubSeq(stream, feed + 1, consumed)' = <<>>
    BY <1>1, <1>3, SubSeqEmpty
  <2>2. lines' = [k \in 1..(n + 1) |-> Reader!LineOf(stream', k)]
    BY <1>1, <1>9
  <2>3. ~(feed < consumed') /\ ~(consumed' - feed > MaxLine)
    BY <1>1, <1>3
  <2> QED
    BY <1>1, <2>1, <2>2, <2>3 DEF Reading
<1> QED
  BY <1>1, <1>3, <1>12, <1>14, <1>15

\* A read without a line feed lengthens the line, or forgets it.
LEMMA ReadLengthensLine ==
    ASSUME Reader!ReaderInputs, ReaderInv, Reader!ReadOn
    PROVE  ReaderInv'
<1> USE DEF ReaderInv
<1>1. PICK last \in (consumed + 1)..Len(stream) :
         /\ LF \notin Reader!Range(SubSeq(stream, consumed + 1, last))
         /\ consumed' = last
         /\ output' = Reader!Kept(SubSeq(stream, consumed + 1, last))
         /\ tooLarge' = Reader!Exceeds(SubSeq(stream, consumed + 1, last))
         /\ observed' = TRUE
         /\ UNCHANGED <<stream, lines, ended>> /\ ~ended
  BY DEF Reader!ReadOn
<1>2. PICK s \in 0..consumed, n \in Nat : Begins(s, n) /\ (Reading(s, n) \/ Finished(s, n))
  OBVIOUS
<1>3. /\ Len(stream) \in Nat /\ consumed \in 0..Len(stream) /\ MaxLine \in Nat
      /\ s \in Nat /\ last \in Nat /\ consumed < Len(stream) /\ last \in consumed..Len(stream)
  BY <1>1, <1>2, StreamType DEF ReaderTyped
<1>4. Reading(s, n)
  BY <1>2, <1>3 DEF Finished
<1>5. \A k \in (consumed + 1)..last : stream[k] # LF
  BY <1>1, <1>3, Piece
<1>6. /\ tooLarge' <=> last - s > MaxLine
      /\ output' = (IF last - s > MaxLine THEN <<>> ELSE SubSeq(stream, s + 1, last))
  BY <1>1, <1>2, <1>3, <1>4, TurnKeeps
<1>7. tooLarge' \in BOOLEAN
  BY <1>1 DEF ReaderTyped, Reader!Exceeds
<1>8. Reader!Feeds(stream)' = Reader!Feeds(stream) /\ Reader!Feeds(stream) \subseteq Int
  BY <1>1, StreamType, FeedsAreFinite DEF Reader!Feeds
<1>9. \A j \in Reader!Feeds(stream) : j <= last <=> j <= consumed
  BY <1>3, <1>5, <1>8 DEF Reader!Feeds
<1>10. Passed' = Passed
  <2>1. /\ Passed = {j \in Reader!Feeds(stream) : j <= consumed}
        /\ Passed' = {j \in Reader!Feeds(stream) : j <= last}
    BY <1>1, <1>8 DEF Passed
  <2> QED
    BY <1>9, <2>1
<1>11. ReaderTyped'
  <2>1. consumed' \in 0..Len(stream')
    BY <1>1, <1>3
  <2> QED
    BY <1>1, <1>7, <2>1, Zenon DEF ReaderTyped
<1>12. Begins(s, n)'
  <2>1. s \in 0..consumed'
    BY <1>1, <1>3
  <2>2. Reader!End(stream, n)' = Reader!End(stream, n)
    BY <1>1 DEF Reader!End, Reader!Feeds, Reader!FeedsBefore
  <2> QED
    BY <1>1, <1>2, <1>8, <1>9, <1>10, <2>1, <2>2 DEF Begins
<1>13. Reading(s, n)'
  <2>1. observed' /\ s < consumed' /\ ~ended'
    BY <1>1, <1>3
  <2>2. lines' = [k \in 1..n |-> Reader!LineOf(stream', k)]
    BY <1>1, <1>4 DEF Reading
  <2>3. output' = (IF tooLarge' THEN <<>> ELSE SubSeq(stream', s + 1, consumed'))
    BY <1>1, <1>6
  <2>4. tooLarge' <=> consumed' - s > MaxLine
    BY <1>1, <1>6
  <2> QED
    BY <2>1, <2>2, <2>3, <2>4 DEF Reading
<1>14. s \in 0..consumed'
  BY <1>1, <1>3
<1> QED
  BY <1>11, <1>12, <1>13, <1>14

\* At the end, what is left is the last line.
LEMMA EndOfStream ==
    ASSUME Reader!ReaderInputs, ReaderTyped, consumed = Len(stream),
           NEW n \in Nat, NEW s \in 0..consumed, Begins(s, n)
    PROVE  /\ n = Cardinality(Reader!Feeds(stream))
           /\ Reader!End(stream, n + 1) = Len(stream) + 1
           /\ Reader!Raw(stream, n + 1) = SubSeq(stream, s + 1, Len(stream))
           /\ Len(Reader!Raw(stream, n + 1)) = Len(stream) - s
<1>1. Len(stream) \in Nat /\ s \in Nat /\ Reader!Feeds(stream) \subseteq 1..Len(stream)
  BY StreamType, FeedsAreFinite
<1>2. Passed = Reader!Feeds(stream)
  BY <1>1 DEF Passed
<1>3. Reader!End(stream, n + 1) = Len(stream) + 1
  BY <1>1, NextEnd DEF Begins
<1>4. /\ Reader!Raw(stream, n + 1) = SubSeq(stream, s + 1, (Len(stream) + 1) - 1)
      /\ Len(Reader!Raw(stream, n + 1)) = (Len(stream) + 1) - 1 - s
  BY <1>1, <1>3, RawIs
<1>5. (Len(stream) + 1) - 1 = Len(stream)
  BY <1>1
<1> QED
  BY <1>2, <1>3, <1>4, <1>5 DEF Begins

\* The end of the stream ends the last line, if it has bytes.
LEMMA EofEndsLines ==
    ASSUME Reader!ReaderInputs, ReaderInv, Reader!ReadEof
    PROVE  ReaderInv'
<1> USE DEF ReaderInv
<1>1. PICK s \in 0..consumed, n \in Nat : Begins(s, n) /\ (Reading(s, n) \/ Finished(s, n))
  OBVIOUS
<1>2. /\ Len(stream) \in Nat /\ consumed = Len(stream) /\ MaxLine \in Nat /\ s \in Nat
      /\ ~ended /\ UNCHANGED <<stream, consumed>> /\ s \in 0..consumed'
  BY <1>1, StreamType DEF Reader!ReadEof
<1>3. Begins(s, n)'
  BY <1>1, <1>2 DEF Begins, Passed, Reader!Feeds, Reader!End, Reader!FeedsBefore
<1>4. CASE observed
  <2>1. Reading(s, n) /\ s < consumed
    BY <1>1, <1>4 DEF Reading, Finished
  <2>2. /\ lines' = Append(lines, Reader!Line(output, tooLarge))
        /\ output' = <<>> /\ tooLarge' = FALSE /\ observed' = FALSE /\ ended' = ended
    BY <1>4 DEF Reader!ReadEof, Reader!Return
  <2>3. /\ Reader!End(stream, n + 1) = Len(stream) + 1
        /\ Reader!Raw(stream, n + 1) = SubSeq(stream, s + 1, Len(stream))
        /\ Len(Reader!Raw(stream, n + 1)) = Len(stream) - s
    BY <1>1, <1>2, EndOfStream
  <2>4. Len(stream) + 1 \notin Reader!Feeds(stream)
    BY <1>2, StreamType, FeedsAreFinite
  <2>5. Reader!Line(output, tooLarge) = Reader!LineOf(stream, n + 1)
    <3>1. CASE tooLarge
      <4>1. tooLarge = TRUE /\ output = <<>> /\ Len(stream) - s > MaxLine
        BY <1>2, <2>1, <3>1 DEF Reading, ReaderTyped
      <4> QED
        BY <2>3, <4>1 DEF Reader!LineOf
    <3>2. CASE ~tooLarge
      <4>1. /\ tooLarge = FALSE /\ output = SubSeq(stream, s + 1, Len(stream))
            /\ ~(Len(stream) - s > MaxLine)
        BY <1>2, <2>1, <3>2 DEF Reading, ReaderTyped
      <4> QED
        BY <2>3, <2>4, <4>1 DEF Reader!LineOf
    <3> QED
      BY <3>1, <3>2
  <2>6. lines' = [k \in 1..(n + 1) |-> Reader!LineOf(stream', k)]
    BY <1>2, <2>1, <2>2, <2>5, OneLineMore DEF Reading
  <2>7. Finished(s, n)'
    BY <1>2, <2>1, <2>2, <2>6 DEF Finished
  <2>8. ReaderTyped'
    BY <1>2, <2>2, Zenon DEF ReaderTyped
  <2> QED
    BY <1>2, <1>3, <2>7, <2>8
<1>5. CASE ~observed
  <2>1. ended' = TRUE /\ UNCHANGED <<output, tooLarge, observed, lines>>
    BY <1>5 DEF Reader!ReadEof
  <2>2. ReaderTyped'
    BY <1>2, <2>1, Zenon DEF ReaderTyped
  <2>3. CASE Reading(s, n)
    <3>1. s = consumed
      BY <1>2, <1>5, <2>3 DEF Reading
    <3>2. Reading(s, n)'
      BY <1>2, <2>1, <2>3, <3>1 DEF Reading
    <3> QED
      BY <1>2, <1>3, <2>2, <3>2
  <2>4. CASE Finished(s, n)
    <3>1. Finished(s, n)'
      BY <1>2, <2>1, <2>4 DEF Finished
    <3> QED
      BY <1>2, <1>3, <2>2, <3>1
  <2> QED
    BY <1>1, <2>3, <2>4
<1> QED
  BY <1>4, <1>5

\* Every step of the reader.
LEMMA ReaderStep ==
    ASSUME Reader!ReaderInputs, ReaderInv, [Reader!Next]_Reader!reader
    PROVE  ReaderInv'
<1>1. CASE UNCHANGED Reader!reader
  <2>1. UNCHANGED <<stream, consumed, output, tooLarge, observed, lines, ended>>
    BY <1>1 DEF Reader!reader
  <2>2. ReaderTyped' = ReaderTyped
    BY <2>1 DEF ReaderTyped
  <2>3. \A k : Reader!End(stream, k)' = Reader!End(stream, k)
    BY <2>1 DEF Reader!Feeds, Reader!End, Reader!FeedsBefore
  <2>4. \A s \in 0..consumed, n \in Nat : Begins(s, n) => Begins(s, n)'
    BY <2>1, <2>3 DEF Begins, Passed, Reader!Feeds
  <2>5. \A s \in 0..consumed, n \in Nat :
           /\ Reading(s, n) => Reading(s, n)'
           /\ Finished(s, n) => Finished(s, n)'
    BY <2>1 DEF Reading, Finished
  <2> QED
    BY <2>1, <2>2, <2>4, <2>5 DEF ReaderInv
<1> QED
  BY <1>1, FeedEndsLine, ReadLengthensLine, EofEndsLines DEF Reader!Next

\* The invariant says that the lines are those of the stream.
LEMMA LinesFollow ==
    ASSUME Reader!ReaderInputs, ReaderInv
    PROVE  Reader!LinesAreExact
<1> USE DEF ReaderInv
<1>1. PICK s \in 0..consumed, n \in Nat : Begins(s, n) /\ (Reading(s, n) \/ Finished(s, n))
  OBVIOUS
<1>2. Len(stream) \in Nat /\ consumed \in 0..Len(stream) /\ MaxLine \in Nat /\ s \in 0..consumed
  BY StreamType DEF ReaderTyped
<1>3. Len(output) <= MaxLine
  <2>1. CASE Reading(s, n) /\ ~tooLarge
    <3>1. Len(SubSeq(stream, s + 1, consumed)) = consumed - s
      BY <1>2, Piece
    <3> QED
      BY <1>2, <2>1, <3>1 DEF Reading
  <2>2. CASE output = <<>>
    BY <1>2, <2>2
  <2> QED
    BY <1>1, <2>1, <2>2 DEF Reading, Finished
<1>4. ASSUME ended PROVE lines = Reader!LinesOf(stream)
  <2>1. consumed = Len(stream)
    BY <1>1, <1>4 DEF Reading, Finished
  <2>2. /\ n = Reader!Cardinality(Reader!Feeds(stream))
        /\ Reader!Raw(stream, n + 1) = SubSeq(stream, s + 1, Len(stream))
        /\ Len(Reader!Raw(stream, n + 1)) = Len(stream) - s
    BY <1>1, <2>1, EndOfStream, SameCounting
  <2>3. CASE Reading(s, n)
    <3>1. s = Len(stream)
      BY <1>4, <2>1, <2>3 DEF Reading
    <3>2. Reader!Raw(stream, n + 1) = <<>>
      BY <1>2, <2>2, <3>1, SubSeqEmpty
    <3> QED
      BY <2>2, <2>3, <3>2 DEF Reading, Reader!LinesOf
  <2>4. CASE Finished(s, n)
    <3>1. Len(Reader!Raw(stream, n + 1)) # 0
      BY <1>2, <2>2, <2>4 DEF Finished
    <3>2. Reader!Raw(stream, n + 1) # <<>>
      BY <3>1
    <3> QED
      BY <2>2, <2>4, <3>2 DEF Finished, Reader!LinesOf
  <2> QED
    BY <1>1, <2>3, <2>4
<1> QED
  BY <1>3, <1>4 DEF Reader!LinesAreExact

\* The inductive invariant of the reader, for any streams, line feeds and limit.
THEOREM ReaderSafe == Reader!Spec => []ReaderInv
<1>1. Reader!Init => ReaderInv
  BY ReaderStart, ReaderAssumption
<1>2. ReaderInv /\ [Reader!Next]_Reader!reader => ReaderInv'
  BY ReaderStep, ReaderAssumption
<1> QED
  BY <1>1, <1>2, PTL DEF Reader!Spec

\* However a stream is cut into reads, the listener sees each line of it once, in
\* order, whole or as one that is too large, and never holds more than the limit.
THEOREM LinesHold == Reader!Spec => []LinesAreExact
<1>1. ReaderInv => LinesAreExact
  BY LinesFollow, ReaderAssumption DEF LinesAreExact
<1> QED
  BY <1>1, ReaderSafe, PTL

------------------------------------------------------------------------------
(***************************************************************************)
(* The preflight of a model, whatever its bytes and the limits: induction  *)
(* over numbers first, for the recursive definitions of the language.      *)
(***************************************************************************)
LEMMA Least ==
    ASSUME NEW T, T \subseteq Nat, T # {}
    PROVE  \E x \in T : \A y \in T : x <= y
<1>1. PICK x \in T : \A y \in T : ~(<<y, x>> \in OpToRel(<, Nat))
  BY NatLessThanWellFounded, WFMin
<1>2. ASSUME NEW y \in T PROVE x <= y
  <2>1. x \in Nat /\ y \in Nat
    OBVIOUS
  <2>2. ~(<<y, x>> \in {ss \in Nat \X Nat : ss[1] < ss[2]})
    BY <1>1 DEF OpToRel
  <2> QED
    BY <2>1, <2>2
<1> QED
  BY <1>2

\* Induction over the natural numbers, for a set.
LEMMA Induction ==
    ASSUME NEW S, 0 \in S, \A n \in Nat : n \in S => n + 1 \in S
    PROVE  Nat \subseteq S
<1> SUFFICES ASSUME Nat \ S # {} PROVE FALSE
  OBVIOUS
<1>1. PICK n \in Nat \ S : \A m \in Nat \ S : n <= m
  BY Least
<1>2. n # 0 /\ n - 1 \in Nat
  BY <1>1
<1>3. n - 1 \in S
  BY <1>1, <1>2
<1> QED
  BY <1>2, <1>3

------------------------------------------------------------------------------
(***************************************************************************)
(* The table of the fields.                                                *)
(***************************************************************************)
IsPayload(p) ==
    \/ p = Scan!Scalar \/ p = Scan!Forbidden \/ p = Scan!Text \/ p = Scan!Packed
    \/ \E s \in Scan!Schemas : p = Scan!Message(s)

IsRow(row) ==
    /\ 0 \notin row[1]
    /\ row[2] \in {0, 1, 2, 5}
    /\ row[3] = Scan!Scalar => row[2] # 2
    /\ IsPayload(row[3])

\* The messages of a model.
LEMMA SchemasAre ==
    Scan!Schemas = {"Model", "Opset", "Graph", "Node", "Attribute", "Tensor", "Segment", "Sparse",
               "ValueInfo", "Type", "TensorType", "Sequence", "Optional", "Map", "Shape",
               "Dimension", "KeyValue", "Annotation"}
BY DEF Scan!Schemas, Scan!FieldRows

\* Each row of the schema is one of a field that the code can read.
LEMMA RowsAre == \A s \in Scan!Schemas : \A row \in Scan!FieldRows[s] : IsRow(row)
<1>1. \A row \in Scan!FieldRows["Model"] : IsRow(row)
  <2>1. \A row \in Scan!FieldRows["Model"] : 0 \notin row[1] /\ row[2] \in {0, 1, 2, 5}
    BY DEF Scan!FieldRows
  <2>2. \A row \in Scan!FieldRows["Model"] : row[3] = Scan!Scalar => row[2] # 2
    BY DEF Scan!FieldRows, Scan!Scalar, Scan!Forbidden, Scan!Text, Scan!Packed, Scan!Message
  <2>3. \A row \in Scan!FieldRows["Model"] : IsPayload(row[3])
    BY SchemasAre DEF Scan!FieldRows, IsPayload
  <2> QED
    BY <2>1, <2>2, <2>3 DEF IsRow
<1>2. \A row \in Scan!FieldRows["Opset"] : IsRow(row)
  <2>1. \A row \in Scan!FieldRows["Opset"] : 0 \notin row[1] /\ row[2] \in {0, 1, 2, 5}
    BY DEF Scan!FieldRows
  <2>2. \A row \in Scan!FieldRows["Opset"] : row[3] = Scan!Scalar => row[2] # 2
    BY DEF Scan!FieldRows, Scan!Scalar, Scan!Forbidden, Scan!Text, Scan!Packed, Scan!Message
  <2>3. \A row \in Scan!FieldRows["Opset"] : IsPayload(row[3])
    BY SchemasAre DEF Scan!FieldRows, IsPayload
  <2> QED
    BY <2>1, <2>2, <2>3 DEF IsRow
<1>3. \A row \in Scan!FieldRows["Graph"] : IsRow(row)
  <2>1. \A row \in Scan!FieldRows["Graph"] : 0 \notin row[1] /\ row[2] \in {0, 1, 2, 5}
    BY DEF Scan!FieldRows
  <2>2. \A row \in Scan!FieldRows["Graph"] : row[3] = Scan!Scalar => row[2] # 2
    BY DEF Scan!FieldRows, Scan!Scalar, Scan!Forbidden, Scan!Text, Scan!Packed, Scan!Message
  <2>3. \A row \in Scan!FieldRows["Graph"] : IsPayload(row[3])
    BY SchemasAre DEF Scan!FieldRows, IsPayload
  <2> QED
    BY <2>1, <2>2, <2>3 DEF IsRow
<1>4. \A row \in Scan!FieldRows["Node"] : IsRow(row)
  <2>1. \A row \in Scan!FieldRows["Node"] : 0 \notin row[1] /\ row[2] \in {0, 1, 2, 5}
    BY DEF Scan!FieldRows
  <2>2. \A row \in Scan!FieldRows["Node"] : row[3] = Scan!Scalar => row[2] # 2
    BY DEF Scan!FieldRows, Scan!Scalar, Scan!Forbidden, Scan!Text, Scan!Packed, Scan!Message
  <2>3. \A row \in Scan!FieldRows["Node"] : IsPayload(row[3])
    BY SchemasAre DEF Scan!FieldRows, IsPayload
  <2> QED
    BY <2>1, <2>2, <2>3 DEF IsRow
<1>5. \A row \in Scan!FieldRows["Attribute"] : IsRow(row)
  <2>1. \A row \in Scan!FieldRows["Attribute"] : 0 \notin row[1] /\ row[2] \in {0, 1, 2, 5}
    BY DEF Scan!FieldRows
  <2>2. \A row \in Scan!FieldRows["Attribute"] : row[3] = Scan!Scalar => row[2] # 2
    BY DEF Scan!FieldRows, Scan!Scalar, Scan!Forbidden, Scan!Text, Scan!Packed, Scan!Message
  <2>3. \A row \in Scan!FieldRows["Attribute"] : IsPayload(row[3])
    BY SchemasAre DEF Scan!FieldRows, IsPayload
  <2> QED
    BY <2>1, <2>2, <2>3 DEF IsRow
<1>6. \A row \in Scan!FieldRows["Tensor"] : IsRow(row)
  <2>1. \A row \in Scan!FieldRows["Tensor"] : 0 \notin row[1] /\ row[2] \in {0, 1, 2, 5}
    BY DEF Scan!FieldRows
  <2>2. \A row \in Scan!FieldRows["Tensor"] : row[3] = Scan!Scalar => row[2] # 2
    BY DEF Scan!FieldRows, Scan!Scalar, Scan!Forbidden, Scan!Text, Scan!Packed, Scan!Message
  <2>3. \A row \in Scan!FieldRows["Tensor"] : IsPayload(row[3])
    BY SchemasAre DEF Scan!FieldRows, IsPayload
  <2> QED
    BY <2>1, <2>2, <2>3 DEF IsRow
<1>7. \A row \in Scan!FieldRows["Segment"] : IsRow(row)
  <2>1. \A row \in Scan!FieldRows["Segment"] : 0 \notin row[1] /\ row[2] \in {0, 1, 2, 5}
    BY DEF Scan!FieldRows
  <2>2. \A row \in Scan!FieldRows["Segment"] : row[3] = Scan!Scalar => row[2] # 2
    BY DEF Scan!FieldRows, Scan!Scalar, Scan!Forbidden, Scan!Text, Scan!Packed, Scan!Message
  <2>3. \A row \in Scan!FieldRows["Segment"] : IsPayload(row[3])
    BY SchemasAre DEF Scan!FieldRows, IsPayload
  <2> QED
    BY <2>1, <2>2, <2>3 DEF IsRow
<1>8. \A row \in Scan!FieldRows["Sparse"] : IsRow(row)
  <2>1. \A row \in Scan!FieldRows["Sparse"] : 0 \notin row[1] /\ row[2] \in {0, 1, 2, 5}
    BY DEF Scan!FieldRows
  <2>2. \A row \in Scan!FieldRows["Sparse"] : row[3] = Scan!Scalar => row[2] # 2
    BY DEF Scan!FieldRows, Scan!Scalar, Scan!Forbidden, Scan!Text, Scan!Packed, Scan!Message
  <2>3. \A row \in Scan!FieldRows["Sparse"] : IsPayload(row[3])
    BY SchemasAre DEF Scan!FieldRows, IsPayload
  <2> QED
    BY <2>1, <2>2, <2>3 DEF IsRow
<1>9. \A row \in Scan!FieldRows["ValueInfo"] : IsRow(row)
  <2>1. \A row \in Scan!FieldRows["ValueInfo"] : 0 \notin row[1] /\ row[2] \in {0, 1, 2, 5}
    BY DEF Scan!FieldRows
  <2>2. \A row \in Scan!FieldRows["ValueInfo"] : row[3] = Scan!Scalar => row[2] # 2
    BY DEF Scan!FieldRows, Scan!Scalar, Scan!Forbidden, Scan!Text, Scan!Packed, Scan!Message
  <2>3. \A row \in Scan!FieldRows["ValueInfo"] : IsPayload(row[3])
    BY SchemasAre DEF Scan!FieldRows, IsPayload
  <2> QED
    BY <2>1, <2>2, <2>3 DEF IsRow
<1>10. \A row \in Scan!FieldRows["Type"] : IsRow(row)
  <2>1. \A row \in Scan!FieldRows["Type"] : 0 \notin row[1] /\ row[2] \in {0, 1, 2, 5}
    BY DEF Scan!FieldRows
  <2>2. \A row \in Scan!FieldRows["Type"] : row[3] = Scan!Scalar => row[2] # 2
    BY DEF Scan!FieldRows, Scan!Scalar, Scan!Forbidden, Scan!Text, Scan!Packed, Scan!Message
  <2>3. \A row \in Scan!FieldRows["Type"] : IsPayload(row[3])
    BY SchemasAre DEF Scan!FieldRows, IsPayload
  <2> QED
    BY <2>1, <2>2, <2>3 DEF IsRow
<1>11. \A row \in Scan!FieldRows["TensorType"] : IsRow(row)
  <2>1. \A row \in Scan!FieldRows["TensorType"] : 0 \notin row[1] /\ row[2] \in {0, 1, 2, 5}
    BY DEF Scan!FieldRows
  <2>2. \A row \in Scan!FieldRows["TensorType"] : row[3] = Scan!Scalar => row[2] # 2
    BY DEF Scan!FieldRows, Scan!Scalar, Scan!Forbidden, Scan!Text, Scan!Packed, Scan!Message
  <2>3. \A row \in Scan!FieldRows["TensorType"] : IsPayload(row[3])
    BY SchemasAre DEF Scan!FieldRows, IsPayload
  <2> QED
    BY <2>1, <2>2, <2>3 DEF IsRow
<1>12. \A row \in Scan!FieldRows["Sequence"] : IsRow(row)
  <2>1. \A row \in Scan!FieldRows["Sequence"] : 0 \notin row[1] /\ row[2] \in {0, 1, 2, 5}
    BY DEF Scan!FieldRows
  <2>2. \A row \in Scan!FieldRows["Sequence"] : row[3] = Scan!Scalar => row[2] # 2
    BY DEF Scan!FieldRows, Scan!Scalar, Scan!Forbidden, Scan!Text, Scan!Packed, Scan!Message
  <2>3. \A row \in Scan!FieldRows["Sequence"] : IsPayload(row[3])
    BY SchemasAre DEF Scan!FieldRows, IsPayload
  <2> QED
    BY <2>1, <2>2, <2>3 DEF IsRow
<1>13. \A row \in Scan!FieldRows["Optional"] : IsRow(row)
  <2>1. \A row \in Scan!FieldRows["Optional"] : 0 \notin row[1] /\ row[2] \in {0, 1, 2, 5}
    BY DEF Scan!FieldRows
  <2>2. \A row \in Scan!FieldRows["Optional"] : row[3] = Scan!Scalar => row[2] # 2
    BY DEF Scan!FieldRows, Scan!Scalar, Scan!Forbidden, Scan!Text, Scan!Packed, Scan!Message
  <2>3. \A row \in Scan!FieldRows["Optional"] : IsPayload(row[3])
    BY SchemasAre DEF Scan!FieldRows, IsPayload
  <2> QED
    BY <2>1, <2>2, <2>3 DEF IsRow
<1>14. \A row \in Scan!FieldRows["Map"] : IsRow(row)
  <2>1. \A row \in Scan!FieldRows["Map"] : 0 \notin row[1] /\ row[2] \in {0, 1, 2, 5}
    BY DEF Scan!FieldRows
  <2>2. \A row \in Scan!FieldRows["Map"] : row[3] = Scan!Scalar => row[2] # 2
    BY DEF Scan!FieldRows, Scan!Scalar, Scan!Forbidden, Scan!Text, Scan!Packed, Scan!Message
  <2>3. \A row \in Scan!FieldRows["Map"] : IsPayload(row[3])
    BY SchemasAre DEF Scan!FieldRows, IsPayload
  <2> QED
    BY <2>1, <2>2, <2>3 DEF IsRow
<1>15. \A row \in Scan!FieldRows["Shape"] : IsRow(row)
  <2>1. \A row \in Scan!FieldRows["Shape"] : 0 \notin row[1] /\ row[2] \in {0, 1, 2, 5}
    BY DEF Scan!FieldRows
  <2>2. \A row \in Scan!FieldRows["Shape"] : row[3] = Scan!Scalar => row[2] # 2
    BY DEF Scan!FieldRows, Scan!Scalar, Scan!Forbidden, Scan!Text, Scan!Packed, Scan!Message
  <2>3. \A row \in Scan!FieldRows["Shape"] : IsPayload(row[3])
    BY SchemasAre DEF Scan!FieldRows, IsPayload
  <2> QED
    BY <2>1, <2>2, <2>3 DEF IsRow
<1>16. \A row \in Scan!FieldRows["Dimension"] : IsRow(row)
  <2>1. \A row \in Scan!FieldRows["Dimension"] : 0 \notin row[1] /\ row[2] \in {0, 1, 2, 5}
    BY DEF Scan!FieldRows
  <2>2. \A row \in Scan!FieldRows["Dimension"] : row[3] = Scan!Scalar => row[2] # 2
    BY DEF Scan!FieldRows, Scan!Scalar, Scan!Forbidden, Scan!Text, Scan!Packed, Scan!Message
  <2>3. \A row \in Scan!FieldRows["Dimension"] : IsPayload(row[3])
    BY SchemasAre DEF Scan!FieldRows, IsPayload
  <2> QED
    BY <2>1, <2>2, <2>3 DEF IsRow
<1>17. \A row \in Scan!FieldRows["KeyValue"] : IsRow(row)
  <2>1. \A row \in Scan!FieldRows["KeyValue"] : 0 \notin row[1] /\ row[2] \in {0, 1, 2, 5}
    BY DEF Scan!FieldRows
  <2>2. \A row \in Scan!FieldRows["KeyValue"] : row[3] = Scan!Scalar => row[2] # 2
    BY DEF Scan!FieldRows, Scan!Scalar, Scan!Forbidden, Scan!Text, Scan!Packed, Scan!Message
  <2>3. \A row \in Scan!FieldRows["KeyValue"] : IsPayload(row[3])
    BY SchemasAre DEF Scan!FieldRows, IsPayload
  <2> QED
    BY <2>1, <2>2, <2>3 DEF IsRow
<1>18. \A row \in Scan!FieldRows["Annotation"] : IsRow(row)
  <2>1. \A row \in Scan!FieldRows["Annotation"] : 0 \notin row[1] /\ row[2] \in {0, 1, 2, 5}
    BY DEF Scan!FieldRows
  <2>2. \A row \in Scan!FieldRows["Annotation"] : row[3] = Scan!Scalar => row[2] # 2
    BY DEF Scan!FieldRows, Scan!Scalar, Scan!Forbidden, Scan!Text, Scan!Packed, Scan!Message
  <2>3. \A row \in Scan!FieldRows["Annotation"] : IsPayload(row[3])
    BY SchemasAre DEF Scan!FieldRows, IsPayload
  <2> QED
    BY <2>1, <2>2, <2>3 DEF IsRow
<1> QED
  BY SchemasAre, <1>1, <1>2, <1>3, <1>4, <1>5, <1>6, <1>7, <1>8, <1>9, <1>10, <1>11, <1>12,
     <1>13, <1>14, <1>15, <1>16, <1>17, <1>18

\* A tag and a wire type have one payload: no match arm of the code hides another.
LEMMA RowsUnique ==
    \A s \in Scan!Schemas : \A r, q \in Scan!FieldRows[s] :
       r[1] \cap q[1] # {} /\ r[2] = q[2] => r[3] = q[3]
<1>1. \A r, q \in Scan!FieldRows["Model"] : r[1] \cap q[1] # {} /\ r[2] = q[2] => r[3] = q[3]
  BY DEF Scan!FieldRows
<1>2. \A r, q \in Scan!FieldRows["Opset"] : r[1] \cap q[1] # {} /\ r[2] = q[2] => r[3] = q[3]
  BY DEF Scan!FieldRows
<1>3. \A r, q \in Scan!FieldRows["Graph"] : r[1] \cap q[1] # {} /\ r[2] = q[2] => r[3] = q[3]
  BY DEF Scan!FieldRows
<1>4. \A r, q \in Scan!FieldRows["Node"] : r[1] \cap q[1] # {} /\ r[2] = q[2] => r[3] = q[3]
  BY DEF Scan!FieldRows
<1>5. \A r, q \in Scan!FieldRows["Attribute"] : r[1] \cap q[1] # {} /\ r[2] = q[2] => r[3] = q[3]
  BY DEF Scan!FieldRows
<1>6. \A r, q \in Scan!FieldRows["Tensor"] : r[1] \cap q[1] # {} /\ r[2] = q[2] => r[3] = q[3]
  BY DEF Scan!FieldRows
<1>7. \A r, q \in Scan!FieldRows["Segment"] : r[1] \cap q[1] # {} /\ r[2] = q[2] => r[3] = q[3]
  BY DEF Scan!FieldRows
<1>8. \A r, q \in Scan!FieldRows["Sparse"] : r[1] \cap q[1] # {} /\ r[2] = q[2] => r[3] = q[3]
  BY DEF Scan!FieldRows
<1>9. \A r, q \in Scan!FieldRows["ValueInfo"] : r[1] \cap q[1] # {} /\ r[2] = q[2] => r[3] = q[3]
  BY DEF Scan!FieldRows
<1>10. \A r, q \in Scan!FieldRows["Type"] : r[1] \cap q[1] # {} /\ r[2] = q[2] => r[3] = q[3]
  BY DEF Scan!FieldRows
<1>11. \A r, q \in Scan!FieldRows["TensorType"] : r[1] \cap q[1] # {} /\ r[2] = q[2] => r[3] = q[3]
  BY DEF Scan!FieldRows
<1>12. \A r, q \in Scan!FieldRows["Sequence"] : r[1] \cap q[1] # {} /\ r[2] = q[2] => r[3] = q[3]
  BY DEF Scan!FieldRows
<1>13. \A r, q \in Scan!FieldRows["Optional"] : r[1] \cap q[1] # {} /\ r[2] = q[2] => r[3] = q[3]
  BY DEF Scan!FieldRows
<1>14. \A r, q \in Scan!FieldRows["Map"] : r[1] \cap q[1] # {} /\ r[2] = q[2] => r[3] = q[3]
  BY DEF Scan!FieldRows
<1>15. \A r, q \in Scan!FieldRows["Shape"] : r[1] \cap q[1] # {} /\ r[2] = q[2] => r[3] = q[3]
  BY DEF Scan!FieldRows
<1>16. \A r, q \in Scan!FieldRows["Dimension"] : r[1] \cap q[1] # {} /\ r[2] = q[2] => r[3] = q[3]
  BY DEF Scan!FieldRows
<1>17. \A r, q \in Scan!FieldRows["KeyValue"] : r[1] \cap q[1] # {} /\ r[2] = q[2] => r[3] = q[3]
  BY DEF Scan!FieldRows
<1>18. \A r, q \in Scan!FieldRows["Annotation"] : r[1] \cap q[1] # {} /\ r[2] = q[2] => r[3] = q[3]
  BY DEF Scan!FieldRows
<1> QED
  BY SchemasAre, <1>1, <1>2, <1>3, <1>4, <1>5, <1>6, <1>7, <1>8, <1>9, <1>10, <1>11, <1>12,
     <1>13, <1>14, <1>15, <1>16, <1>17, <1>18
------------------------------------------------------------------------------
(***************************************************************************)
(* Reading: what the scanner reads at a place is there, and it is the only *)
(* one that begins there.                                                  *)
(***************************************************************************)
BytesOK == encoded \in Seq(0..255)

\* A byte of the model.
LEMMA ByteIs ==
    ASSUME BytesOK, NEW i \in 0..(Len(encoded) - 1)
    PROVE  Scan!ByteAt(i) \in 0..255
<1>1. i + 1 \in 1..Len(encoded)
  BY DEF BytesOK
<1>2. encoded[i + 1] \in 0..255
  BY <1>1, ElementOfSeq DEF BytesOK
<1> QED
  BY <1>2 DEF Scan!ByteAt

\* The model is a finite sequence.
LEMMA LengthIs == BytesOK => Len(encoded) \in Nat
BY DEF BytesOK

\* The number in some bytes, by induction on how many they are.
LEMMA NumberIsNat ==
    ASSUME BytesOK, NEW i \in Nat, NEW j \in i..Len(encoded)
    PROVE  Scan!Number(i, j) \in Nat
<1> DEFINE g == CHOOSE g : g = [k \in 0..(j - i) |->
                  IF k = 0 THEN 0 ELSE 128 * g[k - 1] + (Scan!ByteAt(j - k) % 128)]
           Good(f, m) == /\ f \in [0..m -> Nat]
                         /\ f[0] = 0
                         /\ \A k \in 1..m : f[k] = 128 * f[k - 1] + (Scan!ByteAt(j - k) % 128)
           S == {m \in Nat : m <= j - i => \E f : Good(f, m)}
<1>1. Scan!Number(i, j) = g[j - i]
  BY DEF Scan!Number
<1>2. j - i \in Nat /\ Len(encoded) \in Nat
  BY LengthIs
<1>3. 0 \in S
  <2>1. Good([k \in 0..0 |-> 0], 0)
    OBVIOUS
  <2> QED
    BY <2>1
<1>4. ASSUME NEW m \in Nat, m \in S PROVE m + 1 \in S
  <2> HIDE DEF Good
  <2> SUFFICES ASSUME m + 1 <= j - i PROVE \E f : Good(f, m + 1)
    OBVIOUS
  <2> USE DEF Good
  <2>0. m <= j - i
    BY <1>2
  <2>1. PICK f : Good(f, m)
    BY <2>0, <1>4
  <2>2. j - (m + 1) \in 0..(Len(encoded) - 1)
    BY <1>2
  <2>3. Scan!ByteAt(j - (m + 1)) \in 0..255
    BY <2>2, ByteIs
  <2>4. PICK x : x = 128 * f[m] + (Scan!ByteAt(j - (m + 1)) % 128)
    OBVIOUS
  <2>5. x \in Nat
    <3>1. PICK y : y = Scan!ByteAt(j - (m + 1))
      OBVIOUS
    <3>2. f[m] \in Nat /\ y \in 0..255
      BY <2>1, <2>3, <3>1
    <3> QED
      BY <2>4, <3>1, <3>2
  <2>6. PICK h : h = [k \in 0..(m + 1) |-> IF k = m + 1 THEN x ELSE f[k]]
    OBVIOUS
  <2>7. \A k \in 0..m : h[k] = f[k]
    BY <2>6
  <2>8. h \in [0..(m + 1) -> Nat] /\ h[0] = 0 /\ h[m + 1] = x
    BY <2>1, <2>5, <2>6
  <2>9. ASSUME NEW k \in 1..(m + 1) PROVE h[k] = 128 * h[k - 1] + (Scan!ByteAt(j - k) % 128)
    <3>1. CASE k = m + 1
      <4>1. h[k - 1] = f[m]
        BY <2>7, <3>1
      <4> QED
        BY <2>4, <2>8, <3>1, <4>1
    <3>2. CASE k # m + 1
      <4>1. k \in 1..m /\ h[k] = f[k] /\ h[k - 1] = f[k - 1]
        BY <2>7, <3>2
      <4> QED
        BY <2>1, <4>1
    <3> QED
      BY <3>1, <3>2
  <2> QED
    BY <2>8, <2>9
<1>5. PICK f : Good(f, j - i)
  <2>1. j - i \in S
    BY <1>2, <1>3, <1>4, Induction
  <2> QED
    BY <2>1
<1>6. f = [k \in 0..(j - i) |->
              IF k = 0 THEN 0 ELSE 128 * f[k - 1] + (Scan!ByteAt(j - k) % 128)]
  BY <1>2, <1>5
<1>7. g = [k \in 0..(j - i) |->
              IF k = 0 THEN 0 ELSE 128 * g[k - 1] + (Scan!ByteAt(j - k) % 128)]
  BY <1>6
<1> HIDE DEF g
<1> DEFINE T == {k \in Nat : k <= j - i => g[k] \in Nat}
<1>8. 0 \in T
  BY <1>2, <1>7
<1>9. ASSUME NEW k \in Nat, k \in T PROVE k + 1 \in T
  <2> SUFFICES ASSUME k + 1 <= j - i PROVE g[k + 1] \in Nat
    OBVIOUS
  <2>1. g[k] \in Nat
    BY <1>2, <1>9
  <2>2. j - (k + 1) \in 0..(Len(encoded) - 1)
    BY <1>2
  <2>3. Scan!ByteAt(j - (k + 1)) \in 0..255
    BY <2>2, ByteIs
  <2>4. k + 1 \in 0..(j - i) /\ k + 1 # 0 /\ (k + 1) - 1 = k
    BY <1>2
  <2>5. g[k + 1] = 128 * g[k] + (Scan!ByteAt(j - (k + 1)) % 128)
    BY <1>7, <2>4
  <2>6. PICK y : y = Scan!ByteAt(j - (k + 1))
    OBVIOUS
  <2>7. y \in 0..255
    BY <2>3, <2>6
  <2> QED
    BY <2>1, <2>5, <2>6, <2>7
<1>10. j - i \in T
  BY <1>2, <1>8, <1>9, Induction
<1> QED
  BY <1>1, <1>2, <1>10

\* The least byte at which the loop of read_varint leaves.
LEMMA VarintLastIs ==
    ASSUME NEW i \in Nat, NEW end \in Nat, NEW last,
           last = {k \in i..(i + VarintBytes - 1) :
                      k >= end \/ ~Scan!Continued(k) \/ k = i + VarintBytes - 1}
    PROVE  Scan!VarintLast(i, end) \in last /\ \A k \in last : Scan!VarintLast(i, end) <= k
<1>1. VarintBytes \in Nat \ {0}
  BY ScanAssumption DEF Scan!ScanInputs
<1>2. last \subseteq Nat /\ i + VarintBytes - 1 \in last
  BY <1>1
<1>3. \E k \in last : \A other \in last : k <= other
  BY <1>2, Least
<1>4. Scan!VarintLast(i, end) = CHOOSE k \in last : \A other \in last : k <= other
  BY DEF Scan!VarintLast
<1> QED
  BY <1>3, <1>4

\* What read_varint finds is the one varint that begins there, if there is one.
LEMMA VarintIs ==
    ASSUME BytesOK, NEW i \in Nat, NEW end \in Nat, end <= Len(encoded),
           NEW v, v = Scan!Varint(i, end)
    PROVE  /\ v.ok \in BOOLEAN
           /\ ~v.ok => v.code = "malformed"
           /\ v.ok => v.from = i /\ v.to \in (i + 1)..end /\ Scan!IsVarint(i, v.to)
           /\ \A j \in (i + 1)..end : Scan!IsVarint(i, j) => v.ok /\ v.to = j
<1>1. VarintBytes \in Nat \ {0} /\ Len(encoded) \in Nat
  BY ScanAssumption, LengthIs DEF Scan!ScanInputs
<1>2. PICK k : k = Scan!VarintLast(i, end)
  OBVIOUS
<1>3. PICK last : last = {m \in i..(i + VarintBytes - 1) :
                            m >= end \/ ~Scan!Continued(m) \/ m = i + VarintBytes - 1}
  OBVIOUS
<1>4. k \in last /\ \A m \in last : k <= m
  BY <1>2, <1>3, VarintLastIs
<1>5. k \in Nat /\ k \in i..(i + VarintBytes - 1)
  BY <1>1, <1>3, <1>4
<1>6. v = IF k >= end \/ (k = i + VarintBytes - 1 /\ Scan!ByteAt(k) > 1)
          THEN Scan!Nothing
          ELSE [ok |-> TRUE, from |-> i, to |-> k + 1, code |-> "ok"]
  BY <1>2 DEF Scan!Varint
<1>7. ASSUME NEW m \in 0..(end - 1) PROVE Scan!ByteAt(m) \in 0..255
  <2>1. m \in 0..(Len(encoded) - 1)
    BY <1>1
  <2> QED
    BY <2>1, ByteIs
<1>16. PICK y : y = Scan!ByteAt(k)
  OBVIOUS
<1>17. k < end => y \in 0..255
  <2> SUFFICES ASSUME k < end PROVE y \in 0..255
    OBVIOUS
  <2>1. k \in 0..(end - 1)
    BY <1>5
  <2>2. Scan!ByteAt(k) \in 0..255
    BY <1>7, <2>1
  <2> QED
    BY <1>16, <2>2
<1>8. \A m \in Nat : m >= i /\ m < k => m < end /\ Scan!Continued(m)
  BY <1>1, <1>3, <1>4, <1>5
<1>9. CASE k >= end \/ (k = i + VarintBytes - 1 /\ Scan!ByteAt(k) > 1)
  <2>1. v = Scan!Nothing
    BY <1>6, <1>9
  <2>2. ASSUME NEW j \in (i + 1)..end, Scan!IsVarint(i, j) PROVE FALSE
    <3>1. /\ j - i \in 1..VarintBytes
          /\ ~Scan!Continued(j - 1)
          /\ j - i = VarintBytes => Scan!ByteAt(j - 1) <= 1
      BY <2>2 DEF Scan!IsVarint
    <3>2. j - 1 \in i..(i + VarintBytes - 1)
      BY <1>1, <3>1
    <3>3. j - 1 \in last
      BY <1>3, <3>1, <3>2
    <3>4. k <= j - 1
      BY <1>4, <3>3
    <3>5. k < end
      BY <1>5, <3>4
    <3>6. k = i + VarintBytes - 1 /\ Scan!ByteAt(k) > 1
      BY <1>5, <1>9, <3>5
    <3>7. j - 1 = k
      BY <1>1, <1>5, <3>2, <3>4, <3>6
    <3>8. Scan!ByteAt(k) <= 1
      BY <1>1, <3>1, <3>6, <3>7
    <3> QED
      <4>1. y \in 0..255 /\ y > 1 /\ y <= 1
        BY <1>16, <1>17, <3>5, <3>6, <3>8
      <4> QED
        BY <4>1
  <2> QED
    BY <2>1, <2>2 DEF Scan!Nothing
<1>10. CASE ~(k >= end \/ (k = i + VarintBytes - 1 /\ Scan!ByteAt(k) > 1))
  <2>1. v = [ok |-> TRUE, from |-> i, to |-> k + 1, code |-> "ok"]
    BY <1>6, <1>10
  <2>2. k < end /\ y \in 0..255 /\ (k = i + VarintBytes - 1 => y <= 1)
    <3>1. k < end
      BY <1>5, <1>10
    <3>2. y \in 0..255
      BY <1>17, <3>1
    <3>3. k = i + VarintBytes - 1 => ~(y > 1)
      BY <1>10, <1>16
    <3> QED
      BY <3>1, <3>2, <3>3
  <2>3. ~Scan!Continued(k)
    <3>1. k >= end \/ ~Scan!Continued(k) \/ k = i + VarintBytes - 1
      BY <1>3, <1>4
    <3> QED
      BY <1>16, <2>2, <1>5, <3>1 DEF Scan!Continued
  <2>4. Scan!IsVarint(i, k + 1)
    <3>1. (k + 1) - i \in 1..VarintBytes /\ (k + 1) - 1 = k /\ (k + 1) - 2 = k - 1
      BY <1>1, <1>5
    <3>2. \A m \in i..(k - 1) : Scan!Continued(m)
      BY <1>5, <1>8
    <3>3. (k + 1) - i = VarintBytes => Scan!ByteAt(k) <= 1
      BY <1>1, <1>5, <1>16, <2>2
    <3> QED
      BY <2>3, <3>1, <3>2, <3>3 DEF Scan!IsVarint
  <2>5. ASSUME NEW j \in (i + 1)..end, Scan!IsVarint(i, j) PROVE j = k + 1
    <3>1. /\ j - i \in 1..VarintBytes
          /\ \A m \in i..(j - 2) : Scan!Continued(m)
          /\ ~Scan!Continued(j - 1)
      BY <2>5 DEF Scan!IsVarint
    <3>2. j - 1 \in last
      BY <1>1, <1>3, <3>1
    <3>3. k <= j - 1
      BY <1>4, <3>2
    <3>4. ~(k \in i..(j - 2))
      BY <2>3, <3>1
    <3> QED
      BY <1>5, <3>3, <3>4
  <2>6. v.ok /\ v.from = i /\ v.to = k + 1
    BY <2>1
  <2> QED
    BY <1>1, <1>5, <2>2, <2>4, <2>5, <2>6
<1> QED
  BY <1>9, <1>10

\* What read_length_delimited finds is the one length there whose bytes end in the slice.
LEMMA DelimitedIs ==
    ASSUME BytesOK, Len(encoded) <= MaxModelBytes,
           NEW i \in Nat, NEW start \in 0..i, NEW end \in i..Len(encoded),
           NEW d, d = Scan!Delimited(i, start, end)
    PROVE  /\ d.ok \in BOOLEAN
           /\ ~d.ok => d.code \in {"malformed", "limit"}
           /\ d.ok => /\ d.from \in (i + 1)..end /\ d.to \in d.from..end
                      /\ d.from \in Scan!Lengths(i, d.to)
           /\ \A m \in i..end : \A h \in Scan!Lengths(i, m) : d.ok /\ d.from = h /\ d.to = m
<1>1. Len(encoded) \in Nat /\ MaxModelBytes \in Nat /\ PositionLimit \in Nat /\ MaxModelBytes < PositionLimit
  BY ScanAssumption, LengthIs DEF Scan!ScanInputs
<1>2. PICK v : v = Scan!Varint(i, end)
  OBVIOUS
<1>3. /\ v.ok \in BOOLEAN
      /\ v.ok => v.from = i /\ v.to \in (i + 1)..end /\ Scan!IsVarint(i, v.to)
      /\ \A j \in (i + 1)..end : Scan!IsVarint(i, j) => v.ok /\ v.to = j
  BY <1>1, <1>2, VarintIs
<1>4. PICK size : size = Scan!Number(i, v.to)
  OBVIOUS
<1>5. d = IF ~v.ok THEN Scan!Nothing
          ELSE IF v.to - start + size >= PositionLimit THEN [Scan!Nothing EXCEPT !.code = "limit"]
          ELSE IF v.to + size > end THEN Scan!Nothing
          ELSE [ok |-> TRUE, from |-> v.to, to |-> v.to + size, code |-> "ok"]
  BY <1>2, <1>4 DEF Scan!Delimited
<1>6. v.ok => size \in Nat
  <2> SUFFICES ASSUME v.ok PROVE size \in Nat
    OBVIOUS
  <2>1. v.to \in i..Len(encoded)
    BY <1>1, <1>3
  <2> QED
    BY <1>4, <2>1, NumberIsNat
<1>7. ASSUME NEW m \in i..end, NEW h \in Scan!Lengths(i, m) PROVE d.ok /\ d.from = h /\ d.to = m
  <2>1. h \in (i + 1)..m /\ Scan!IsVarint(i, h) /\ Scan!Number(i, h) = m - h
    BY DEF Scan!Lengths
  <2>2. v.ok /\ v.to = h
    BY <1>1, <1>3, <2>1
  <2>3. size = m - h
    BY <1>4, <2>1, <2>2
  <2>4. ~(v.to - start + size >= PositionLimit) /\ ~(v.to + size > end) /\ v.to + size = m
    BY <1>1, <2>1, <2>2, <2>3
  <2> QED
    BY <1>5, <2>2, <2>4
<1>8. ASSUME d.ok
      PROVE  /\ d.from \in (i + 1)..end /\ d.to \in d.from..end
             /\ d.from \in Scan!Lengths(i, d.to)
  <2>1. /\ v.ok /\ ~(v.to + size > end)
        /\ d.from = v.to /\ d.to = v.to + size
    BY <1>5, <1>8 DEF Scan!Nothing
  <2>2. v.to \in (i + 1)..end /\ size \in Nat /\ Scan!IsVarint(i, v.to)
    BY <1>3, <1>6, <2>1
  <2>3. v.to + size \in v.to..end /\ (v.to + size) - v.to = size /\ v.to \in (i + 1)..(v.to + size)
    BY <1>1, <2>1, <2>2
  <2>4. v.to \in Scan!Lengths(i, v.to + size)
    BY <1>4, <2>2, <2>3 DEF Scan!Lengths
  <2> QED
    BY <2>1, <2>2, <2>3, <2>4
<1>9. d.ok \in BOOLEAN /\ (~d.ok => d.code \in {"malformed", "limit"})
  BY <1>5 DEF Scan!Nothing
<1> QED
  BY <1>7, <1>8, <1>9

\* The bytes from k to m are a scalar of a wire type.
IsScalar(k, m, kind) ==
    \/ kind = 0 /\ Scan!IsVarint(k, m)
    \/ kind = 1 /\ m - k = 8
    \/ kind = 5 /\ m - k = 4

\* What skip_scalar finds is the one scalar there that ends in the slice.
LEMMA ScalarIs ==
    ASSUME BytesOK, NEW i \in Nat, NEW kind \in {0, 1, 5}, NEW end \in i..Len(encoded),
           NEW f, f = Scan!ScalarAt(i, kind, end)
    PROVE  /\ f.ok \in BOOLEAN
           /\ ~f.ok => f.code = "malformed"
           /\ f.ok => f.to \in (i + 1)..end /\ IsScalar(i, f.to, kind)
           /\ \A m \in i..end : IsScalar(i, m, kind) => f.ok /\ f.to = m
<1>1. Len(encoded) \in Nat /\ end \in Nat /\ end <= Len(encoded)
  BY LengthIs
<1>2. CASE kind = 0
  <2>1. f = Scan!Varint(i, end)
    BY <1>2 DEF Scan!ScalarAt
  <2>2. /\ f.ok \in BOOLEAN
        /\ ~f.ok => f.code = "malformed"
        /\ f.ok => f.from = i /\ f.to \in (i + 1)..end /\ Scan!IsVarint(i, f.to)
        /\ \A j \in (i + 1)..end : Scan!IsVarint(i, j) => f.ok /\ f.to = j
    BY <1>1, <2>1, VarintIs
  <2>3. ~Scan!IsVarint(i, i)
    BY DEF Scan!IsVarint
  <2>4. \A m \in i..end : m # i => m \in (i + 1)..end
    BY <1>1
  <2> QED
    BY <1>2, <2>2, <2>3, <2>4 DEF IsScalar
<1>3. CASE kind # 0
  <2>1. PICK to : to = i + (IF kind = 1 THEN 8 ELSE 4)
    OBVIOUS
  <2>2. f = IF to > end THEN Scan!Nothing ELSE [ok |-> TRUE, from |-> i, to |-> to, code |-> "ok"]
    BY <1>3, <2>1 DEF Scan!ScalarAt
  <2>3. to \in Nat /\ to >= i + 1 /\ \A m \in i..end : IsScalar(i, m, kind) <=> m = to
    BY <1>1, <1>3, <2>1 DEF IsScalar
  <2>4. IsScalar(i, to, kind)
    BY <1>3, <2>1 DEF IsScalar
  <2>5. CASE to > end
    <3>1. f = Scan!Nothing
      BY <2>2, <2>5
    <3>2. \A m \in i..end : ~IsScalar(i, m, kind)
      BY <1>1, <2>3, <2>5
    <3> QED
      BY <3>1, <3>2 DEF Scan!Nothing
  <2>6. CASE ~(to > end)
    <3>1. f.ok = TRUE /\ f.to = to
      BY <2>2, <2>6
    <3>2. to \in (i + 1)..end
      BY <1>1, <2>3, <2>6
    <3> QED
      BY <2>3, <2>4, <3>1, <3>2
  <2> QED
    BY <2>5, <2>6
<1> QED
  BY <1>2, <1>3

------------------------------------------------------------------------------
(***************************************************************************)
(* The language: the recursive definition has a solution, since the        *)
(* messages that it consults are shorter.                                  *)
(***************************************************************************)
Extent(p) == p[2] - p[1]

MessageBody(count, p) == Scan!InMessage(count, p[1], p[2], p[3], p[4])

\* A payload is that of a row.
LEMMA RowIs ==
    ASSUME NEW s \in Scan!Schemas, NEW tag, NEW kind, NEW p \in Scan!FieldPayload(s, tag, kind)
    PROVE  \E row \in Scan!FieldRows[s] : tag \in row[1] /\ row[2] = kind /\ row[3] = p
BY DEF Scan!FieldPayload

\* What the schema says of a payload, and that it is the only one.
LEMMA PayloadIs ==
    ASSUME NEW s \in Scan!Schemas, NEW tag, NEW kind, NEW p \in Scan!FieldPayload(s, tag, kind)
    PROVE  /\ tag # 0
           /\ tag < TagLimit
           /\ kind \in {0, 1, 2, 5}
           /\ p = Scan!Scalar => kind # 2
           /\ IsPayload(p)
           /\ Scan!FieldPayload(s, tag, kind) = {p}
<1>1. PICK row \in Scan!FieldRows[s] : tag \in row[1] /\ row[2] = kind /\ row[3] = p
  BY RowIs
<1>2. IsRow(row)
  BY RowsAre
<1>3. tag < TagLimit
  BY <1>1, ScanAssumption DEF Scan!ScanInputs
<1>4. ASSUME NEW q \in Scan!FieldPayload(s, tag, kind) PROVE q = p
  <2>1. PICK r \in Scan!FieldRows[s] : tag \in r[1] /\ r[2] = kind /\ r[3] = q
    BY RowIs
  <2>2. r[1] \cap row[1] # {} /\ r[2] = row[2]
    BY <1>1, <2>1
  <2> QED
    BY <1>1, <2>1, <2>2, RowsUnique
<1> QED
  BY <1>1, <1>2, <1>3, <1>4 DEF IsRow

\* The kinds of payloads.
LEMMA PayloadKinds ==
    ASSUME NEW p, IsPayload(p)
    PROVE  /\ p[1] \in {"scalar", "bytes", "message", "forbidden"}
           /\ p[1] = "scalar" <=> p = Scan!Scalar
           /\ p[1] = "forbidden" <=> p = Scan!Forbidden
           /\ p[1] = "bytes" => p[2] \in Nat
           /\ p[1] = "message" => p[2] \in Scan!Schemas
BY ScanAssumption DEF IsPayload, Scan!ScanInputs, Scan!Scalar, Scan!Forbidden, Scan!Text,
                      Scan!Packed, Scan!Message

\* What the numbers of fields of a field and of a message are, by membership.
FieldHas(count, i, m, s, d, x) ==
    \E k \in (i + 1)..m :
       /\ Scan!IsVarint(i, k)
       /\ \E p \in Scan!FieldPayload(s, Scan!Number(i, k) \div 8, Scan!Number(i, k) % 8) :
             x \in Scan!InPayload(count, k, m, Scan!Number(i, k) % 8, p, d)

\* The numbers that a field adds, with the key and the payload in the open.
LEMMA FieldIs ==
    ASSUME NEW count, NEW i, NEW m, NEW s, NEW d, NEW x
    PROVE  x \in Scan!InField(count, i, m, s, d) <=> FieldHas(count, i, m, s, d, x)
BY DEF Scan!InField, FieldHas

MessageHas(count, i, j, s, d, x) ==
    \E m \in (i + 1)..j : \E a \in Scan!InField(count, i, m, s, d) : \E b \in count[<<m, j, s, d>>] :
       x = 1 + a + b

\* The sums of two sets of numbers.
LEMMA SumsAre ==
    ASSUME NEW A, NEW B, NEW x
    PROVE  x \in Scan!Sums(A, B) <=> \E a \in A : \E b \in B : x = 1 + a + b
BY DEF Scan!Sums

MessageSums(count, i, j, s, d) ==
    {Scan!Sums(Scan!InField(count, i, m, s, d), count[<<m, j, s, d>>]) : m \in (i + 1)..j}

\* A message that is not empty is a field and a message.
LEMMA MessageUnion ==
    ASSUME NEW count, NEW i, NEW j, NEW s, NEW d \in Nat, ~(d > MaxDepth), i # j
    PROVE  Scan!InMessage(count, i, j, s, d) = UNION MessageSums(count, i, j, s, d)
BY DEF Scan!InMessage, MessageSums

\* The numbers of a message, with its first field in the open.
LEMMA MessageIs ==
    ASSUME NEW count, NEW i, NEW j, NEW s, NEW d \in Nat, ~(d > MaxDepth), i # j, NEW x
    PROVE  x \in Scan!InMessage(count, i, j, s, d) <=> MessageHas(count, i, j, s, d, x)
<1>1. x \in UNION MessageSums(count, i, j, s, d) <=>
        \E m \in (i + 1)..j : x \in Scan!Sums(Scan!InField(count, i, m, s, d), count[<<m, j, s, d>>])
  BY DEF MessageSums
<1>2. \A m \in (i + 1)..j :
        x \in Scan!Sums(Scan!InField(count, i, m, s, d), count[<<m, j, s, d>>]) <=>
        \E a \in Scan!InField(count, i, m, s, d) : \E b \in count[<<m, j, s, d>>] : x = 1 + a + b
  BY SumsAre
<1> QED
  BY <1>1, <1>2, MessageUnion DEF MessageHas

\* A payload depends on the messages that begin within it.
LEMMA PayloadLocal ==
    ASSUME NEW g, NEW h, NEW k, NEW m, NEW kind, NEW p, IsPayload(p), NEW d,
           p[1] = "message" => \A l \in Scan!Lengths(k, m) : g[<<l, m, p[2], d + 1>>] = h[<<l, m, p[2], d + 1>>]
    PROVE  Scan!InPayload(g, k, m, kind, p, d) = Scan!InPayload(h, k, m, kind, p, d)
<1>1. CASE p[1] = "message"
  <2>1. /\ Scan!InPayload(g, k, m, kind, p, d) = UNION {g[<<l, m, p[2], d + 1>>] : l \in Scan!Lengths(k, m)}
        /\ Scan!InPayload(h, k, m, kind, p, d) = UNION {h[<<l, m, p[2], d + 1>>] : l \in Scan!Lengths(k, m)}
    BY <1>1 DEF Scan!InPayload
  <2> QED
    BY <1>1, <2>1
<1>2. CASE p[1] # "message"
  BY <1>2 DEF Scan!InPayload
<1> QED
  BY <1>1, <1>2

\* A message depends on messages of less extent only.
LEMMA BodyLocal ==
    ASSUME BytesOK, NEW g, NEW h, NEW p \in Scan!Spans,
           \A q \in Scan!Spans : Extent(q) < Extent(p) => g[q] = h[q]
    PROVE  MessageBody(g, p) = MessageBody(h, p)
<1>1. PICK i \in 0..Len(encoded), j \in 0..Len(encoded), s \in Scan!Schemas, d \in 0..(MaxDepth + 1) :
         p = <<i, j, s, d>>
  BY DEF Scan!Spans
<1>2. Len(encoded) \in Nat /\ MaxDepth \in Nat
  BY LengthIs, ScanAssumption DEF Scan!ScanInputs
<1>3. MessageBody(g, p) = Scan!InMessage(g, i, j, s, d) /\ MessageBody(h, p) = Scan!InMessage(h, i, j, s, d)
  BY <1>1 DEF MessageBody
<1>4. \A x, y \in 0..Len(encoded) : \A t \in Scan!Schemas : \A e \in 0..(MaxDepth + 1) :
         y - x < j - i => g[<<x, y, t, e>>] = h[<<x, y, t, e>>]
  <2> SUFFICES ASSUME NEW x \in 0..Len(encoded), NEW y \in 0..Len(encoded), NEW t \in Scan!Schemas,
                      NEW e \in 0..(MaxDepth + 1), y - x < j - i
               PROVE  g[<<x, y, t, e>>] = h[<<x, y, t, e>>]
    OBVIOUS
  <2>1. <<x, y, t, e>> \in Scan!Spans
    BY DEF Scan!Spans
  <2>2. Extent(<<x, y, t, e>>) < Extent(p)
    BY <1>1 DEF Extent
  <2> QED
    BY <2>1, <2>2
<1>5. CASE d > MaxDepth \/ i = j
  BY <1>3, <1>5 DEF Scan!InMessage
<1>6. CASE ~(d > MaxDepth) /\ i # j
  <2>1. ASSUME NEW m \in (i + 1)..j, NEW x
        PROVE  x \in Scan!InField(g, i, m, s, d) <=> x \in Scan!InField(h, i, m, s, d)
    <3>1. ASSUME NEW k \in (i + 1)..m,
                 NEW q \in Scan!FieldPayload(s, Scan!Number(i, k) \div 8, Scan!Number(i, k) % 8)
          PROVE  Scan!InPayload(g, k, m, Scan!Number(i, k) % 8, q, d) = Scan!InPayload(h, k, m, Scan!Number(i, k) % 8, q, d)
      <4>1. IsPayload(q)
        BY PayloadIs
      <4>2. ASSUME q[1] = "message", NEW l \in Scan!Lengths(k, m)
            PROVE  g[<<l, m, q[2], d + 1>>] = h[<<l, m, q[2], d + 1>>]
        <5>1. q[2] \in Scan!Schemas
          BY <4>1, <4>2, PayloadKinds
        <5>2. l \in (k + 1)..m
          BY DEF Scan!Lengths
        <5>3. /\ l \in 0..Len(encoded) /\ m \in 0..Len(encoded) /\ m - l < j - i
              /\ d + 1 \in 0..(MaxDepth + 1)
          BY <1>2, <1>6, <5>2
        <5> QED
          BY <1>4, <5>1, <5>3
      <4> QED
        BY <4>1, <4>2, PayloadLocal
    <3>2. FieldHas(g, i, m, s, d, x) <=> FieldHas(h, i, m, s, d, x)
      BY <3>1 DEF FieldHas
    <3> QED
      BY <3>2, FieldIs
  <2>2. ASSUME NEW m \in (i + 1)..j PROVE g[<<m, j, s, d>>] = h[<<m, j, s, d>>]
    <3>1. m \in 0..Len(encoded) /\ j - m < j - i
      BY <1>2
    <3> QED
      BY <1>4, <3>1
  <2>3. ASSUME NEW x PROVE x \in Scan!InMessage(g, i, j, s, d) <=> x \in Scan!InMessage(h, i, j, s, d)
    <3>1. MessageHas(g, i, j, s, d, x) <=> MessageHas(h, i, j, s, d, x)
      BY <2>1, <2>2 DEF MessageHas
    <3> QED
      BY <1>6, <3>1, MessageIs
  <2>4. Scan!InMessage(g, i, j, s, d) = Scan!InMessage(h, i, j, s, d)
    <3>1. /\ Scan!InMessage(g, i, j, s, d) = UNION MessageSums(g, i, j, s, d)
          /\ Scan!InMessage(h, i, j, s, d) = UNION MessageSums(h, i, j, s, d)
      BY <1>6, MessageUnion
    <3> QED
      BY <2>3, <3>1
  <2> QED
    BY <1>3, <2>4
<1> QED
  BY <1>5, <1>6

Solves(f, n) == \A p \in Scan!Spans : Extent(p) < n => f[p] = MessageBody(f, p)

\* A solution of the recursion up to some extent gives one of more.
LEMMA SolvedFurther ==
    ASSUME BytesOK, NEW n \in Int, NEW f, Solves(f, n), NEW g, g = [p \in Scan!Spans |-> MessageBody(f, p)]
    PROVE  Solves(g, n + 1)
<1> SUFFICES ASSUME NEW p \in Scan!Spans, Extent(p) < n + 1 PROVE g[p] = MessageBody(g, p)
  BY DEF Solves
<1>1. \A q \in Scan!Spans : Extent(q) \in Int
  BY LengthIs DEF Scan!Spans, Extent
<1>2. ASSUME NEW q \in Scan!Spans, Extent(q) < Extent(p) PROVE f[q] = g[q]
  <2>1. Extent(q) < n
    BY <1>1, <1>2
  <2> QED
    BY <2>1 DEF Solves
<1>3. MessageBody(f, p) = MessageBody(g, p)
  BY <1>2, BodyLocal
<1> QED
  BY <1>3

\* The recursive definition of the language has a solution: its own equation holds.
LEMMA MessagesSolve ==
    ASSUME BytesOK, NEW p \in Scan!Spans
    PROVE  Scan!Messages[p] = MessageBody(Scan!Messages, p)
<1> DEFINE S == {n \in Nat : \E f : Solves(f, n - Len(encoded))}
<1>1. Len(encoded) \in Nat
  BY LengthIs
<1>2. \A q \in Scan!Spans : Extent(q) \in Int /\ Extent(q) >= -Len(encoded) /\ Extent(q) <= Len(encoded)
  BY <1>1 DEF Scan!Spans, Extent
<1>3. 0 \in S
  <2>1. Solves(<<>>, 0 - Len(encoded))
    BY <1>1, <1>2 DEF Solves
  <2> QED
    BY <2>1
<1>4. ASSUME NEW n \in Nat, n \in S PROVE n + 1 \in S
  <2>1. PICK f : Solves(f, n - Len(encoded))
    BY <1>4
  <2>2. n - Len(encoded) \in Int /\ (n - Len(encoded)) + 1 = (n + 1) - Len(encoded)
    BY <1>1
  <2>3. \E g : Solves(g, (n + 1) - Len(encoded))
    BY <2>1, <2>2, SolvedFurther
  <2> QED
    BY <2>3
<1>5. PICK f : Solves(f, Len(encoded) + 1)
  <2>1. (Len(encoded) + Len(encoded)) + 1 \in S
    <3>1. Nat \subseteq S
      <4> HIDE DEF S
      <4> QED
        BY <1>3, <1>4, Induction
    <3>2. (Len(encoded) + Len(encoded)) + 1 \in Nat
      BY <1>1
    <3> QED
      BY <3>1, <3>2
  <2>2. ((Len(encoded) + Len(encoded)) + 1) - Len(encoded) = Len(encoded) + 1
    BY <1>1
  <2> QED
    BY <2>1, <2>2
<1>6. PICK g : g = [q \in Scan!Spans |-> MessageBody(f, q)]
  OBVIOUS
<1>7. ASSUME NEW q \in Scan!Spans PROVE f[q] = MessageBody(f, q)
  BY <1>1, <1>2, <1>5 DEF Solves
<1>8. ASSUME NEW q \in Scan!Spans PROVE MessageBody(f, q) = MessageBody(g, q)
  BY <1>6, <1>7, BodyLocal
<1>9. g = [span \in Scan!Spans |-> Scan!InMessage(g, span[1], span[2], span[3], span[4])]
  BY <1>6, <1>8 DEF MessageBody
<1> DEFINE count == CHOOSE count : count = [span \in Scan!Spans |->
                      Scan!InMessage(count, span[1], span[2], span[3], span[4])]
<1>10. count = [span \in Scan!Spans |-> Scan!InMessage(count, span[1], span[2], span[3], span[4])]
  BY <1>9
<1>11. Scan!Messages = count
  BY DEF Scan!Messages
<1> HIDE DEF count
<1> QED
  BY <1>10, <1>11 DEF MessageBody

Rest(i, j, s, d) == Scan!Messages[<<i, j, s, d>>]

\* The rest of a message is one by that equation.
LEMMA RestIs ==
    ASSUME BytesOK, NEW i \in 0..Len(encoded), NEW j \in 0..Len(encoded), NEW s \in Scan!Schemas,
           NEW d \in 0..(MaxDepth + 1)
    PROVE  Rest(i, j, s, d) = Scan!InMessage(Scan!Messages, i, j, s, d)
<1>1. PICK p : p = <<i, j, s, d>>
  OBVIOUS
<1>2. p \in Scan!Spans /\ p[1] = i /\ p[2] = j /\ p[3] = s /\ p[4] = d
  BY <1>1 DEF Scan!Spans
<1>3. Scan!Messages[p] = MessageBody(Scan!Messages, p)
  BY <1>2, MessagesSolve
<1> QED
  BY <1>1, <1>2, <1>3 DEF MessageBody, Rest

\* An empty message, and one too deep.
LEMMA RestOfNothing ==
    ASSUME BytesOK, NEW i \in 0..Len(encoded), NEW s \in Scan!Schemas, NEW d \in 0..(MaxDepth + 1)
    PROVE  /\ d <= MaxDepth => Rest(i, i, s, d) = {0}
           /\ d > MaxDepth => \A j \in 0..Len(encoded) : Rest(i, j, s, d) = {}
<1>1. MaxDepth \in Nat
  BY ScanAssumption DEF Scan!ScanInputs
<1>2. ASSUME d <= MaxDepth PROVE Rest(i, i, s, d) = {0}
  <2>1. Rest(i, i, s, d) = Scan!InMessage(Scan!Messages, i, i, s, d)
    BY RestIs
  <2> QED
    BY <1>1, <1>2, <2>1 DEF Scan!InMessage
<1>3. ASSUME d > MaxDepth, NEW j \in 0..Len(encoded) PROVE Rest(i, j, s, d) = {}
  <2>1. Rest(i, j, s, d) = Scan!InMessage(Scan!Messages, i, j, s, d)
    BY RestIs
  <2> QED
    BY <1>3, <2>1 DEF Scan!InMessage
<1> QED
  BY <1>2, <1>3

\* What a payload may count.
LEMMA ScalarCounts ==
    ASSUME NEW count, NEW k, NEW m, NEW kind, NEW p, p[1] = "scalar", NEW d, NEW x
    PROVE  x \in Scan!InPayload(count, k, m, kind, p, d) <=> x = 0 /\ IsScalar(k, m, kind)
BY DEF Scan!InPayload, IsScalar

\* A payload of bytes counts no fields of its own.
LEMMA BytesCounts ==
    ASSUME NEW count, NEW k, NEW m, NEW kind, NEW p, p[1] = "bytes", NEW d, NEW x
    PROVE  x \in Scan!InPayload(count, k, m, kind, p, d) <=>
              x = 0 /\ \E h \in Scan!Lengths(k, m) : m - h <= p[2]
BY DEF Scan!InPayload

\* A nested message counts its own.
LEMMA MessageCounts ==
    ASSUME NEW count, NEW k, NEW m, NEW kind, NEW p, p[1] = "message", NEW d, NEW x
    PROVE  x \in Scan!InPayload(count, k, m, kind, p, d) <=>
              \E h \in Scan!Lengths(k, m) : x \in count[<<h, m, p[2], d + 1>>]
<1>1. Scan!InPayload(count, k, m, kind, p, d) = UNION {count[<<h, m, p[2], d + 1>>] : h \in Scan!Lengths(k, m)}
  BY DEF Scan!InPayload
<1> QED
  BY <1>1

\* A forbidden payload is none.
LEMMA ForbiddenCounts ==
    ASSUME NEW count, NEW k, NEW m, NEW kind, NEW d
    PROVE  Scan!InPayload(count, k, m, kind, Scan!Forbidden, d) = {}
BY DEF Scan!InPayload, Scan!Forbidden

\* Fields are counted by natural numbers, by induction on the extent of messages.
LEMMA CountsAreNat ==
    ASSUME BytesOK, NEW p \in Scan!Spans
    PROVE  Scan!Messages[p] \subseteq Nat
<1> SUFFICES ASSUME ~(Scan!Messages[p] \subseteq Nat) PROVE FALSE
  OBVIOUS
<1>1. Len(encoded) \in Nat /\ MaxDepth \in Nat
  BY LengthIs, ScanAssumption DEF Scan!ScanInputs
<1> DEFINE Bad == {q \in Scan!Spans : ~(Scan!Messages[q] \subseteq Nat)}
           T == {Extent(q) + Len(encoded) : q \in Bad}
<1>2. \A q \in Scan!Spans : Extent(q) \in Int /\ Extent(q) + Len(encoded) \in Nat
  BY <1>1 DEF Scan!Spans, Extent
<1>3. T \subseteq Nat /\ T # {}
  BY <1>2
<1>4. PICK n \in T : \A y \in T : n <= y
  BY <1>3, Least
<1>5. PICK q \in Bad : n = Extent(q) + Len(encoded)
  BY <1>4
<1>6. ASSUME NEW r \in Scan!Spans, Extent(r) < Extent(q) PROVE Scan!Messages[r] \subseteq Nat
  <2>1. Extent(r) + Len(encoded) < n
    BY <1>1, <1>2, <1>5, <1>6
  <2>2. Extent(r) + Len(encoded) \notin T
    <3> HIDE DEF T
    <3>1. PICK y : y = Extent(r) + Len(encoded)
      OBVIOUS
    <3>2. y \in Nat /\ n \in Nat /\ y < n
      BY <1>2, <1>3, <1>4, <2>1, <3>1
    <3>3. y \notin T
      BY <1>4, <3>2
    <3> QED
      BY <3>1, <3>3
  <2> QED
    BY <2>2
<1>7. PICK i \in 0..Len(encoded), j \in 0..Len(encoded), s \in Scan!Schemas, d \in 0..(MaxDepth + 1) :
         q = <<i, j, s, d>>
  BY DEF Scan!Spans
<1>8. \A x, y \in 0..Len(encoded) : \A t \in Scan!Schemas : \A e \in 0..(MaxDepth + 1) :
         y - x < j - i => Scan!Messages[<<x, y, t, e>>] \subseteq Nat
  <2> SUFFICES ASSUME NEW x \in 0..Len(encoded), NEW y \in 0..Len(encoded), NEW t \in Scan!Schemas,
                      NEW e \in 0..(MaxDepth + 1), y - x < j - i
               PROVE  Scan!Messages[<<x, y, t, e>>] \subseteq Nat
    OBVIOUS
  <2>1. <<x, y, t, e>> \in Scan!Spans
    BY DEF Scan!Spans
  <2>2. Extent(<<x, y, t, e>>) < Extent(q)
    BY <1>7 DEF Extent
  <2> QED
    BY <1>6, <2>1, <2>2
<1>9. Scan!Messages[q] = Scan!InMessage(Scan!Messages, i, j, s, d)
  BY <1>7, RestIs DEF Rest
<1>10. PICK x \in Scan!Messages[q] : x \notin Nat
  BY <1>5
<1>11. ~(d > MaxDepth) /\ i # j
  <2>1. Rest(i, j, s, d) = Scan!Messages[q]
    BY <1>7 DEF Rest
  <2>2. d <= MaxDepth
    BY <1>1, <1>10, <2>1, RestOfNothing
  <2>3. i # j
    BY <1>10, <2>1, <2>2, RestOfNothing
  <2> QED
    BY <1>1, <2>2, <2>3
<1>12. PICK m, a, b : /\ m \in (i + 1)..j /\ a \in Scan!InField(Scan!Messages, i, m, s, d)
                      /\ b \in Scan!Messages[<<m, j, s, d>>] /\ x = 1 + a + b
  <2>1. MessageHas(Scan!Messages, i, j, s, d, x)
    BY <1>9, <1>10, <1>11, MessageIs
  <2> QED
    BY <2>1 DEF MessageHas
<1>13. b \in Nat
  <2>1. m \in 0..Len(encoded) /\ j - m < j - i
    BY <1>1, <1>12
  <2> QED
    BY <1>8, <1>12, <2>1
<1>14. a \in Nat
  <2>1. PICK k, t : /\ k \in (i + 1)..m
                    /\ t \in Scan!FieldPayload(s, Scan!Number(i, k) \div 8, Scan!Number(i, k) % 8)
                    /\ a \in Scan!InPayload(Scan!Messages, k, m, Scan!Number(i, k) % 8, t, d)
    BY <1>12, FieldIs DEF FieldHas
  <2>2. IsPayload(t)
    BY <2>1, PayloadIs
  <2>5. PICK kind : kind = Scan!Number(i, k) % 8
    OBVIOUS
  <2>6. a \in Scan!InPayload(Scan!Messages, k, m, kind, t, d)
    BY <2>1, <2>5
  <2>3. CASE t[1] = "message"
    <3>1. PICK h \in Scan!Lengths(k, m) : a \in Scan!Messages[<<h, m, t[2], d + 1>>]
      BY <2>6, <2>3, MessageCounts
    <3>2. h \in (k + 1)..m /\ t[2] \in Scan!Schemas
      BY <2>2, <2>3, PayloadKinds DEF Scan!Lengths
    <3>3. h \in 0..Len(encoded) /\ m \in 0..Len(encoded) /\ m - h < j - i /\ d + 1 \in 0..(MaxDepth + 1)
      BY <1>1, <1>11, <1>12, <2>1, <3>2
    <3> QED
      BY <1>8, <3>1, <3>2, <3>3
  <2>4. CASE t[1] # "message"
    <3>1. t[1] = "scalar" \/ t[1] = "bytes" \/ t = Scan!Forbidden
      BY <2>2, <2>4, PayloadKinds
    <3>2. CASE t[1] = "scalar"
      BY <2>6, <3>2, ScalarCounts
    <3>3. CASE t[1] = "bytes"
      <4>1. a = 0
        BY <2>6, <3>3 DEF Scan!InPayload
      <4> QED
        BY <4>1
    <3>4. CASE t = Scan!Forbidden
      BY <2>6, <3>4, ForbiddenCounts
    <3> QED
      BY <3>1, <3>2, <3>3, <3>4
  <2> QED
    BY <2>3, <2>4
<1> QED
  BY <1>10, <1>12, <1>13, <1>14

\* So are those of the rest of a message.
LEMMA RestIsNat ==
    ASSUME BytesOK, NEW i \in 0..Len(encoded), NEW j \in 0..Len(encoded), NEW s \in Scan!Schemas,
           NEW d \in 0..(MaxDepth + 1)
    PROVE  Rest(i, j, s, d) \subseteq Nat
<1>1. <<i, j, s, d>> \in Scan!Spans
  BY DEF Scan!Spans
<1> QED
  BY <1>1, CountsAreNat DEF Rest

------------------------------------------------------------------------------
(***************************************************************************)
(* The fields of a message, as the scanner reads them: what begins at i is *)
(* a field of schema s at depth d, in a slice from start to j.             *)
(***************************************************************************)
Here(i, start, j, s, d) ==
    /\ BytesOK /\ Len(encoded) <= MaxModelBytes
    /\ j \in 0..Len(encoded) /\ i \in 0..(j - 1) /\ start \in 0..i
    /\ s \in Scan!Schemas /\ d \in 0..MaxDepth

WireAt(i, k) == Scan!Number(i, k) % 8
PayloadsAt(i, k, s) == Scan!FieldPayload(s, Scan!Number(i, k) \div 8, Scan!Number(i, k) % 8)

\* Where the numbers of a turn of the loop lie.
LEMMA HereIs ==
    ASSUME NEW i, NEW start, NEW j, NEW s, NEW d, Here(i, start, j, s, d)
    PROVE  /\ BytesOK /\ Len(encoded) \in Nat /\ MaxDepth \in Nat
           /\ i \in Nat /\ i \in 0..Len(encoded) /\ j \in Nat /\ j \in 0..Len(encoded) /\ i < j
           /\ d \in Nat /\ d \in 0..(MaxDepth + 1) /\ ~(d > MaxDepth)
BY LengthIs, ScanAssumption DEF Here, Scan!ScanInputs

\* A rest that is not empty begins with the key and the payload the turn reads.
LEMMA FieldAt ==
    ASSUME NEW i, NEW start, NEW j, NEW s, NEW d, Here(i, start, j, s, d),
           NEW key, key = Scan!Varint(i, j), NEW x \in Rest(i, j, s, d)
    PROVE  /\ key.ok /\ key.to \in (i + 1)..j
           /\ \E m \in key.to..j : \E p \in PayloadsAt(i, key.to, s) :
                 \E a \in Scan!InPayload(Scan!Messages, key.to, m, WireAt(i, key.to), p, d) :
                    \E b \in Rest(m, j, s, d) : x = 1 + a + b
<1>1. /\ BytesOK /\ Len(encoded) \in Nat /\ i \in Nat /\ i \in 0..Len(encoded) /\ j \in Nat
      /\ j \in 0..Len(encoded) /\ i < j /\ d \in Nat /\ d \in 0..(MaxDepth + 1) /\ ~(d > MaxDepth)
      /\ s \in Scan!Schemas
  BY HereIs DEF Here
<1>2. x \in Scan!InMessage(Scan!Messages, i, j, s, d)
  BY <1>1, RestIs
<1>3. MessageHas(Scan!Messages, i, j, s, d, x)
  BY <1>1, <1>2, MessageIs
<1>4. PICK m, a, b : /\ m \in (i + 1)..j /\ a \in Scan!InField(Scan!Messages, i, m, s, d)
                     /\ b \in Scan!Messages[<<m, j, s, d>>] /\ x = 1 + a + b
  BY <1>3 DEF MessageHas
<1>5. PICK k \in (i + 1)..m : Scan!IsVarint(i, k) /\ \E p \in PayloadsAt(i, k, s) :
         a \in Scan!InPayload(Scan!Messages, k, m, WireAt(i, k), p, d)
  BY <1>4, FieldIs DEF FieldHas, PayloadsAt, WireAt
<1>6. k \in (i + 1)..j /\ m \in k..j /\ j <= Len(encoded)
  BY <1>1, <1>4
<1>7. key.ok /\ key.to = k
  BY <1>1, <1>5, <1>6, VarintIs
<1> QED
  BY <1>4, <1>5, <1>6, <1>7 DEF Rest

\* A key, a payload, and a rest of a message make a rest of a message.
LEMMA FieldFound ==
    ASSUME NEW i, NEW start, NEW j, NEW s, NEW d, Here(i, start, j, s, d),
           NEW k \in (i + 1)..j, Scan!IsVarint(i, k), NEW m \in k..j, NEW p \in PayloadsAt(i, k, s),
           NEW a \in Scan!InPayload(Scan!Messages, k, m, WireAt(i, k), p, d), NEW b \in Rest(m, j, s, d)
    PROVE  1 + a + b \in Rest(i, j, s, d)
<1>1. /\ BytesOK /\ Len(encoded) \in Nat /\ i \in Nat /\ i \in 0..Len(encoded) /\ j \in Nat
      /\ j \in 0..Len(encoded) /\ i < j /\ d \in Nat /\ d \in 0..(MaxDepth + 1) /\ ~(d > MaxDepth)
      /\ s \in Scan!Schemas
  BY HereIs DEF Here
<1>2. m \in (i + 1)..j /\ k \in (i + 1)..m
  BY <1>1
<1>3. FieldHas(Scan!Messages, i, m, s, d, a)
  BY <1>2 DEF FieldHas, PayloadsAt, WireAt
<1>4. a \in Scan!InField(Scan!Messages, i, m, s, d)
  BY <1>3, FieldIs
<1>5. MessageHas(Scan!Messages, i, j, s, d, 1 + a + b)
  BY <1>2, <1>4 DEF MessageHas, Rest
<1>6. 1 + a + b \in Scan!InMessage(Scan!Messages, i, j, s, d)
  BY <1>1, <1>5, MessageIs
<1> QED
  BY <1>1, <1>6, RestIs

\* A key that is no key of a field.
LEMMA NoField ==
    ASSUME NEW i, NEW start, NEW j, NEW s, NEW d, Here(i, start, j, s, d),
           NEW key, key = Scan!Varint(i, j),
           \/ ~key.ok
           \/ Scan!Number(i, key.to) \div 8 = 0 \/ Scan!Number(i, key.to) \div 8 >= TagLimit
           \/ PayloadsAt(i, key.to, s) \subseteq {Scan!Forbidden}
    PROVE  Rest(i, j, s, d) = {}
<1> SUFFICES ASSUME NEW x \in Rest(i, j, s, d) PROVE FALSE
  OBVIOUS
<1>1. PICK m, p, a : /\ m \in key.to..j /\ p \in PayloadsAt(i, key.to, s)
                     /\ a \in Scan!InPayload(Scan!Messages, key.to, m, WireAt(i, key.to), p, d)
  BY FieldAt
<1>2. key.ok /\ key.to \in (i + 1)..j
  BY FieldAt
<1>3. s \in Scan!Schemas
  BY DEF Here
<1>4. /\ Scan!Number(i, key.to) \div 8 # 0 /\ Scan!Number(i, key.to) \div 8 < TagLimit /\ IsPayload(p)
  BY <1>1, <1>3, PayloadIs DEF PayloadsAt
<1>5. p # Scan!Forbidden
  BY <1>1, ForbiddenCounts
<1>6. TagLimit \in Nat /\ Scan!Number(i, key.to) \in Nat
  <2>1. i \in Nat /\ key.to \in i..Len(encoded) /\ BytesOK
    BY <1>2, HereIs
  <2> QED
    BY <2>1, NumberIsNat, ScanAssumption DEF Scan!ScanInputs
<1>7. PICK tag : tag = Scan!Number(i, key.to) \div 8
  OBVIOUS
<1>8. tag \in Nat
  BY <1>6, <1>7
<1> QED
  BY <1>1, <1>2, <1>4, <1>5, <1>6, <1>7, <1>8

\* Where the key of a field ends.
LEMMA KeyIs ==
    ASSUME NEW i, NEW start, NEW j, NEW s, NEW d, Here(i, start, j, s, d),
           NEW key, key = Scan!Varint(i, j), key.ok
    PROVE  /\ key.to \in (i + 1)..j /\ Scan!IsVarint(i, key.to)
           /\ key.to \in Nat /\ start \in 0..key.to /\ j \in key.to..Len(encoded)
<1>1. /\ BytesOK /\ Len(encoded) \in Nat /\ i \in Nat /\ i \in 0..Len(encoded) /\ j \in Nat
      /\ j \in 0..Len(encoded) /\ i < j /\ start \in 0..i
  BY HereIs DEF Here
<1>2. key.to \in (i + 1)..j /\ Scan!IsVarint(i, key.to)
  BY <1>1, VarintIs
<1> QED
  BY <1>1, <1>2

\* A scalar: the message is one if it is one after what skip_scalar skips.
LEMMA ScalarField ==
    ASSUME NEW i, NEW start, NEW j, NEW s, NEW d, Here(i, start, j, s, d),
           NEW key, key = Scan!Varint(i, j), key.ok, Scan!Scalar \in PayloadsAt(i, key.to, s),
           NEW f, f = Scan!ScalarAt(key.to, WireAt(i, key.to), j)
    PROVE  /\ f.ok \in BOOLEAN
           /\ ~f.ok => Rest(i, j, s, d) = {} /\ f.code = "malformed"
           /\ f.ok => /\ f.to \in (key.to + 1)..j
                      /\ \A x : x \in Rest(i, j, s, d) <=> \E b \in Rest(f.to, j, s, d) : x = 1 + b
<1> DEFINE k == key.to
           kind == WireAt(i, k)
<1>1. /\ k \in (i + 1)..j /\ Scan!IsVarint(i, k) /\ k \in Nat /\ j \in k..Len(encoded)
  BY KeyIs
<1>2. BytesOK /\ s \in Scan!Schemas /\ Len(encoded) \in Nat /\ i \in Nat
  BY HereIs DEF Here
<1>3. IsPayload(Scan!Scalar) /\ kind \in {0, 1, 5} /\ PayloadsAt(i, k, s) = {Scan!Scalar}
  <2>1. kind \in {0, 1, 2, 5} /\ kind # 2 /\ IsPayload(Scan!Scalar) /\ PayloadsAt(i, k, s) = {Scan!Scalar}
    BY <1>2, PayloadIs DEF PayloadsAt, WireAt
  <2> QED
    BY <2>1
<1>4. /\ f.ok \in BOOLEAN
      /\ ~f.ok => f.code = "malformed"
      /\ f.ok => f.to \in (k + 1)..j /\ IsScalar(k, f.to, kind)
      /\ \A m \in k..j : IsScalar(k, m, kind) => f.ok /\ f.to = m
  <2> HIDE DEF kind
  <2>1. f = Scan!ScalarAt(k, kind, j)
    BY DEF kind
  <2> HIDE DEF k
  <2> QED
    BY <1>1, <1>2, <1>3, <2>1, ScalarIs
<1>5. ASSUME NEW m, NEW a
      PROVE  a \in Scan!InPayload(Scan!Messages, k, m, kind, Scan!Scalar, d) <=> a = 0 /\ IsScalar(k, m, kind)
  <2>1. Scan!Scalar[1] = "scalar"
    BY DEF Scan!Scalar
  <2> QED
    BY <2>1, ScalarCounts
<1>6. ASSUME NEW x \in Rest(i, j, s, d)
      PROVE  f.ok /\ \E b \in Rest(f.to, j, s, d) : x = 1 + b
  <2>1. PICK m, a, b : /\ m \in k..j /\ a \in Scan!InPayload(Scan!Messages, k, m, kind, Scan!Scalar, d)
                       /\ b \in Rest(m, j, s, d) /\ x = 1 + a + b
    BY <1>3, FieldAt
  <2>2. a = 0 /\ IsScalar(k, m, kind)
    BY <1>5, <2>1
  <2>3. f.ok /\ f.to = m
    BY <1>4, <2>1, <2>2
  <2>4. x = 1 + b
    <3>1. b \in Nat
      <4>1. m \in 0..Len(encoded) /\ j \in 0..Len(encoded) /\ d \in 0..(MaxDepth + 1)
        BY <1>1, <1>2, <2>1, HereIs
      <4> QED
        BY <1>2, <2>1, <4>1, RestIsNat
    <3> QED
      BY <2>1, <2>2, <3>1
  <2> QED
    BY <2>1, <2>3, <2>4
<1>7. ASSUME f.ok, NEW b \in Rest(f.to, j, s, d) PROVE 1 + b \in Rest(i, j, s, d)
  <2>1. f.to \in k..j /\ IsScalar(k, f.to, kind)
    BY <1>1, <1>4, <1>7
  <2>2. 0 \in Scan!InPayload(Scan!Messages, k, f.to, kind, Scan!Scalar, d)
    BY <1>5, <2>1
  <2>3. 1 + 0 + b \in Rest(i, j, s, d)
    BY <1>1, <2>1, <2>2, FieldFound
  <2>4. 1 + 0 + b = 1 + b
    OBVIOUS
  <2> QED
    BY <2>3, <2>4
<1> QED
  BY <1>4, <1>6, <1>7

\* What read_length_delimited finds after a key.
LEMMA DelimitedAt ==
    ASSUME NEW i, NEW start, NEW j, NEW s, NEW d, Here(i, start, j, s, d),
           NEW key, key = Scan!Varint(i, j), key.ok, NEW f, f = Scan!Delimited(key.to, start, j)
    PROVE  /\ f.ok \in BOOLEAN
           /\ ~f.ok => f.code \in {"malformed", "limit"}
           /\ f.ok => /\ f.from \in (key.to + 1)..j /\ f.to \in f.from..j /\ f.from \in Nat
                      /\ f.to \in key.to..j /\ f.from \in Scan!Lengths(key.to, f.to)
           /\ \A m \in key.to..j : \A h \in Scan!Lengths(key.to, m) : f.ok /\ f.from = h /\ f.to = m
<1>1. PICK k : k = key.to
  OBVIOUS
<1>2. k \in Nat /\ start \in 0..k /\ j \in k..Len(encoded) /\ BytesOK /\ Len(encoded) <= MaxModelBytes
  BY <1>1, KeyIs DEF Here
<1>3. f = Scan!Delimited(k, start, j)
  BY <1>1
<1>4. /\ f.ok \in BOOLEAN
      /\ ~f.ok => f.code \in {"malformed", "limit"}
      /\ f.ok => /\ f.from \in (k + 1)..j /\ f.to \in f.from..j
                 /\ f.from \in Scan!Lengths(k, f.to)
      /\ \A m \in k..j : \A h \in Scan!Lengths(k, m) : f.ok /\ f.from = h /\ f.to = m
  BY <1>2, <1>3, DelimitedIs
<1>5. f.ok => f.from \in Nat /\ f.to \in k..j
  BY <1>2, <1>4, LengthIs
<1> QED
  BY <1>1, <1>4, <1>5

\* Bytes, of which there may not be too many.
LEMMA BytesField ==
    ASSUME NEW i, NEW start, NEW j, NEW s, NEW d, Here(i, start, j, s, d),
           NEW key, key = Scan!Varint(i, j), key.ok, NEW p \in PayloadsAt(i, key.to, s), p[1] = "bytes",
           NEW f, f = Scan!Delimited(key.to, start, j)
    PROVE  /\ ~f.ok \/ f.to - f.from > p[2] => Rest(i, j, s, d) = {}
           /\ f.ok /\ ~(f.to - f.from > p[2]) =>
                \A x : x \in Rest(i, j, s, d) <=> \E b \in Rest(f.to, j, s, d) : x = 1 + b
<1>1. PICK k : k = key.to
  OBVIOUS
<1>2. k \in (i + 1)..j /\ Scan!IsVarint(i, k) /\ k \in Nat /\ j \in k..Len(encoded)
  BY <1>1, KeyIs
<1>3. BytesOK /\ s \in Scan!Schemas /\ Len(encoded) \in Nat /\ i \in Nat
  BY HereIs DEF Here
<1>4. p[2] \in Nat /\ PayloadsAt(i, k, s) = {p}
  BY <1>1, <1>3, PayloadIs, PayloadKinds DEF PayloadsAt
<1>5. /\ f.ok \in BOOLEAN
      /\ f.ok => f.from \in Nat /\ f.to \in k..j /\ f.from \in Scan!Lengths(k, f.to)
      /\ \A m \in k..j : \A h \in Scan!Lengths(k, m) : f.ok /\ f.from = h /\ f.to = m
  BY <1>1, DelimitedAt
<1>6. ASSUME NEW x \in Rest(i, j, s, d)
      PROVE  f.ok /\ ~(f.to - f.from > p[2]) /\ \E b \in Rest(f.to, j, s, d) : x = 1 + b
  <2>1. PICK m, a, b : /\ m \in k..j /\ a \in Scan!InPayload(Scan!Messages, k, m, WireAt(i, k), p, d)
                       /\ b \in Rest(m, j, s, d) /\ x = 1 + a + b
    BY <1>1, <1>4, FieldAt
  <2>2. a = 0 /\ \E h \in Scan!Lengths(k, m) : m - h <= p[2]
    BY <2>1, BytesCounts
  <2>3. f.ok /\ f.to = m /\ f.to - f.from <= p[2]
    BY <1>5, <2>1, <2>2
  <2>4. b \in Nat
    <3>1. m \in 0..Len(encoded) /\ j \in 0..Len(encoded) /\ d \in 0..(MaxDepth + 1)
      BY <1>2, <1>3, <2>1, HereIs
    <3> QED
      BY <1>3, <2>1, <3>1, RestIsNat
  <2>5. x = 1 + b
    BY <2>1, <2>2, <2>4
  <2>6. f.to - f.from \in Int
    BY <1>2, <1>5, <2>3
  <2> QED
    BY <1>4, <2>1, <2>3, <2>5, <2>6
<1>7. ASSUME f.ok, ~(f.to - f.from > p[2]), NEW b \in Rest(f.to, j, s, d)
      PROVE  1 + b \in Rest(i, j, s, d)
  <2>1. f.to \in k..j /\ f.from \in Scan!Lengths(k, f.to) /\ f.to - f.from <= p[2]
    BY <1>2, <1>4, <1>5, <1>7
  <2>2. 0 \in Scan!InPayload(Scan!Messages, k, f.to, WireAt(i, k), p, d)
    BY <2>1, BytesCounts
  <2>3. 1 + 0 + b \in Rest(i, j, s, d)
    BY <1>1, <1>2, <2>1, <2>2, FieldFound
  <2>4. 1 + 0 + b = 1 + b
    OBVIOUS
  <2> QED
    BY <2>3, <2>4
<1> QED
  BY <1>5, <1>6, <1>7

\* A nested message, and the rest of the one around it.
LEMMA MessageField ==
    ASSUME NEW i, NEW start, NEW j, NEW s, NEW d, Here(i, start, j, s, d),
           NEW key, key = Scan!Varint(i, j), key.ok, NEW p \in PayloadsAt(i, key.to, s), p[1] = "message",
           NEW f, f = Scan!Delimited(key.to, start, j)
    PROVE  /\ ~f.ok => Rest(i, j, s, d) = {}
           /\ f.ok => \A x : x \in Rest(i, j, s, d) <=>
                        \E a \in Rest(f.from, f.to, p[2], d + 1) : \E b \in Rest(f.to, j, s, d) :
                           x = 1 + a + b
<1>1. PICK k : k = key.to
  OBVIOUS
<1>2. k \in (i + 1)..j /\ Scan!IsVarint(i, k) /\ k \in Nat /\ j \in k..Len(encoded)
  BY <1>1, KeyIs
<1>3. s \in Scan!Schemas
  BY DEF Here
<1>4. PayloadsAt(i, k, s) = {p}
  BY <1>1, <1>3, PayloadIs DEF PayloadsAt
<1>5. /\ f.ok \in BOOLEAN
      /\ f.ok => f.to \in k..j /\ f.from \in Scan!Lengths(k, f.to)
      /\ \A m \in k..j : \A h \in Scan!Lengths(k, m) : f.ok /\ f.from = h /\ f.to = m
  BY <1>1, DelimitedAt
<1>6. ASSUME NEW x \in Rest(i, j, s, d)
      PROVE  f.ok /\ \E a \in Rest(f.from, f.to, p[2], d + 1) : \E b \in Rest(f.to, j, s, d) :
                        x = 1 + a + b
  <2>1. PICK m, a, b : /\ m \in k..j /\ a \in Scan!InPayload(Scan!Messages, k, m, WireAt(i, k), p, d)
                       /\ b \in Rest(m, j, s, d) /\ x = 1 + a + b
    BY <1>1, <1>4, FieldAt
  <2>2. PICK h \in Scan!Lengths(k, m) : a \in Scan!Messages[<<h, m, p[2], d + 1>>]
    BY <2>1, MessageCounts
  <2>3. f.ok /\ f.from = h /\ f.to = m
    BY <1>5, <2>1
  <2> QED
    BY <2>1, <2>2, <2>3 DEF Rest
<1>7. ASSUME f.ok, NEW a \in Rest(f.from, f.to, p[2], d + 1), NEW b \in Rest(f.to, j, s, d)
      PROVE  1 + a + b \in Rest(i, j, s, d)
  <2>1. f.to \in k..j /\ f.from \in Scan!Lengths(k, f.to)
    BY <1>5, <1>7
  <2>2. a \in Scan!InPayload(Scan!Messages, k, f.to, WireAt(i, k), p, d)
    BY <2>1, MessageCounts DEF Rest
  <2> QED
    BY <1>1, <1>2, <2>1, <2>2, FieldFound
<1> QED
  BY <1>5, <1>6, <1>7

\* A rest that is not empty has a field.
LEMMA SomeField ==
    ASSUME NEW i, NEW start, NEW j, NEW s, NEW d, Here(i, start, j, s, d), NEW x \in Rest(i, j, s, d)
    PROVE  x \in Nat /\ x >= 1
<1>1. /\ BytesOK /\ Len(encoded) \in Nat /\ MaxDepth \in Nat /\ i \in 0..Len(encoded) /\ i \in Nat
      /\ j \in 0..Len(encoded) /\ d \in 0..(MaxDepth + 1) /\ d + 1 \in 0..(MaxDepth + 1) /\ s \in Scan!Schemas
  <2>1. d \in 0..MaxDepth /\ MaxDepth \in Nat
    BY HereIs DEF Here
  <2>2. d + 1 \in 0..(MaxDepth + 1)
    BY <2>1
  <2> QED
    BY <2>1, <2>2, HereIs DEF Here
<1>2. PICK k, m, p, a, b : /\ k \in (i + 1)..j /\ m \in k..j /\ p \in PayloadsAt(i, k, s)
                           /\ a \in Scan!InPayload(Scan!Messages, k, m, WireAt(i, k), p, d)
                           /\ b \in Rest(m, j, s, d) /\ x = 1 + a + b
  BY FieldAt
<1>3. m \in 0..Len(encoded) /\ k \in Nat
  BY <1>1, <1>2
<1>4. b \in Nat
  BY <1>1, <1>2, <1>3, RestIsNat
<1>5. IsPayload(p)
  BY <1>1, <1>2, PayloadIs DEF PayloadsAt
<1>6. CASE p[1] = "scalar" \/ p[1] = "bytes" \/ p = Scan!Forbidden
  <2>1. CASE p[1] = "scalar"
    BY <1>2, <1>4, <2>1, ScalarCounts
  <2>2. CASE p[1] = "bytes"
    BY <1>2, <1>4, <2>2, BytesCounts
  <2>3. CASE p = Scan!Forbidden
    BY <1>2, <2>3, ForbiddenCounts
  <2> QED
    BY <1>6, <2>1, <2>2, <2>3
<1>7. CASE p[1] = "message"
  <2>1. PICK h \in Scan!Lengths(k, m) : a \in Rest(h, m, p[2], d + 1)
    BY <1>2, <1>7, MessageCounts DEF Rest
  <2>2. h \in 0..Len(encoded) /\ p[2] \in Scan!Schemas
    <3>1. h \in (k + 1)..m
      BY DEF Scan!Lengths
    <3> QED
      BY <1>1, <1>3, <1>5, <1>7, <3>1, PayloadKinds
  <2>3. a \in Nat
    BY <1>1, <1>3, <2>1, <2>2, RestIsNat
  <2> QED
    BY <1>2, <1>4, <2>3
<1> QED
  BY <1>5, <1>6, <1>7, PayloadKinds

------------------------------------------------------------------------------
(***************************************************************************)
(* Totals: the numbers that n calls can add to what is counted already,    *)
(* each one of the numbers of fields that its slice has left.              *)
(***************************************************************************)
Adds(t, n, left, low, c) ==
    /\ t \in [1..(n + 1) -> Nat]
    /\ t[1] = c
    /\ t[n + 1] = low
    /\ \A k \in 1..n : \E r \in left[k] : t[k] = t[k + 1] + r

Total(n, left, low, c) == \E t : Adds(t, n, left, low, c)

\* A field without fields of its own has been read.
LEMMA TotalAdvances ==
    ASSUME NEW n \in Nat \ {0}, NEW low \in Nat, NEW L, NEW M, NEW c,
           \A k \in 1..(n - 1) : M[k] = L[k], M[n] \subseteq Nat,
           \A x : x \in L[n] <=> \E b \in M[n] : x = 1 + b
    PROVE  Total(n, L, low, c) <=> Total(n, M, low + 1, c)
<1>1. /\ 1 \in 1..(n + 1) /\ 1 # n + 1 /\ n \in 1..(n + 1) /\ n # n + 1 /\ n + 1 \in 1..(n + 1) /\ n \in 1..n
      /\ \A k \in 1..n : k # n => k \in 1..(n - 1) /\ k + 1 # n + 1 /\ k + 1 \in 1..(n + 1)
      /\ \A k \in 1..n : k # n + 1 /\ k \in 1..(n + 1)
  OBVIOUS
<1>2. ASSUME NEW t, Adds(t, n, L, low, c) PROVE Total(n, M, low + 1, c)
  <2>1. /\ t \in [1..(n + 1) -> Nat] /\ t[1] = c /\ t[n + 1] = low
        /\ \A k \in 1..n : \E r \in L[k] : t[k] = t[k + 1] + r
    BY <1>2 DEF Adds
  <2>2. PICK u : u = [k \in 1..(n + 1) |-> IF k = n + 1 THEN low + 1 ELSE t[k]]
    OBVIOUS
  <2>3. u \in [1..(n + 1) -> Nat] /\ u[1] = c /\ u[n + 1] = low + 1 /\ u[n] = t[n]
    BY <1>1, <2>1, <2>2
  <2>4. ASSUME NEW k \in 1..n PROVE \E r \in M[k] : u[k] = u[k + 1] + r
    <3>1. PICK r \in L[k] : t[k] = t[k + 1] + r
      BY <2>1
    <3>2. CASE k = n
      <4>1. PICK b \in M[n] : r = 1 + b
        BY <3>1, <3>2
      <4>2. u[n] = (low + 1) + b
        <5>1. t[n] = low + r /\ b \in Nat
          BY <2>1, <3>1, <3>2, <4>1
        <5> QED
          BY <2>3, <4>1, <5>1
      <4> QED
        BY <2>3, <3>2, <4>2
    <3>3. CASE k # n
      <4>1. u[k] = t[k] /\ u[k + 1] = t[k + 1] /\ M[k] = L[k]
        BY <1>1, <2>2, <3>3
      <4> QED
        BY <3>1, <4>1
    <3> QED
      BY <3>2, <3>3
  <2> QED
    BY <2>3, <2>4 DEF Total, Adds
<1>3. ASSUME NEW u, Adds(u, n, M, low + 1, c) PROVE Total(n, L, low, c)
  <2>1. /\ u \in [1..(n + 1) -> Nat] /\ u[1] = c /\ u[n + 1] = low + 1
        /\ \A k \in 1..n : \E r \in M[k] : u[k] = u[k + 1] + r
    BY <1>3 DEF Adds
  <2>2. PICK t : t = [k \in 1..(n + 1) |-> IF k = n + 1 THEN low ELSE u[k]]
    OBVIOUS
  <2>3. t \in [1..(n + 1) -> Nat] /\ t[1] = c /\ t[n + 1] = low /\ t[n] = u[n]
    BY <1>1, <2>1, <2>2
  <2>4. ASSUME NEW k \in 1..n PROVE \E r \in L[k] : t[k] = t[k + 1] + r
    <3>1. PICK r \in M[k] : u[k] = u[k + 1] + r
      BY <2>1
    <3>2. CASE k = n
      <4>1. 1 + r \in L[n] /\ r \in Nat
        BY <3>1, <3>2
      <4>2. t[n] = low + (1 + r)
        BY <2>1, <2>3, <3>1, <3>2, <4>1
      <4> QED
        BY <2>3, <3>2, <4>1, <4>2
    <3>3. CASE k # n
      <4>1. t[k] = u[k] /\ t[k + 1] = u[k + 1] /\ M[k] = L[k]
        BY <1>1, <2>2, <3>3
      <4> QED
        BY <3>1, <4>1
    <3> QED
      BY <3>2, <3>3
  <2> QED
    BY <2>3, <2>4 DEF Total, Adds
<1> QED
  BY <1>2, <1>3 DEF Total

\* A nested message begins.
LEMMA TotalNests ==
    ASSUME NEW n \in Nat \ {0}, NEW low \in Nat, NEW L, NEW M, NEW c,
           \A k \in 1..(n - 1) : M[k] = L[k], M[n] \subseteq Nat, M[n + 1] \subseteq Nat,
           \A x : x \in L[n] <=> \E a \in M[n + 1] : \E b \in M[n] : x = 1 + a + b
    PROVE  Total(n, L, low, c) <=> Total(n + 1, M, low + 1, c)
<1>1. /\ 1 \in 1..(n + 1) /\ 1 # n + 1 /\ n \in 1..(n + 1) /\ n # n + 1 /\ n + 1 \in 1..(n + 1) /\ n \in 1..n
      /\ \A k \in 1..n : k # n => k \in 1..(n - 1) /\ k + 1 # n + 1 /\ k + 1 \in 1..(n + 1)
      /\ \A k \in 1..n : k # n + 1 /\ k \in 1..(n + 1)
  OBVIOUS
<1>2. /\ (n + 1) + 1 \in 1..((n + 1) + 1)
      /\ \A k \in 1..(n + 1) : k \in 1..((n + 1) + 1) /\ k # (n + 1) + 1
      /\ \A k \in 1..(n + 1) : k # n + 1 => k \in 1..n
  OBVIOUS
<1>3. ASSUME NEW t, Adds(t, n, L, low, c) PROVE Total(n + 1, M, low + 1, c)
  <2>1. /\ t \in [1..(n + 1) -> Nat] /\ t[1] = c /\ t[n + 1] = low
        /\ \A k \in 1..n : \E r \in L[k] : t[k] = t[k + 1] + r
    BY <1>3 DEF Adds
  <2>2. PICK r \in L[n] : t[n] = t[n + 1] + r
    BY <1>1, <2>1
  <2>3. PICK a \in M[n + 1], b \in M[n] : r = 1 + a + b
    BY <2>2
  <2>4. a \in Nat /\ b \in Nat
    OBVIOUS
  <2>5. PICK x : x = (low + 1) + a
    OBVIOUS
  <2>6. PICK u : u = [k \in 1..((n + 1) + 1) |->
                        IF k = (n + 1) + 1 THEN low + 1 ELSE IF k = n + 1 THEN x ELSE t[k]]
    OBVIOUS
  <2>7. /\ u[(n + 1) + 1] = low + 1 /\ u[n + 1] = x
        /\ \A k \in 1..n : u[k] = t[k]
    BY <1>1, <1>2, <2>6
  <2>8. x \in Nat /\ t[n] = x + b
    BY <2>1, <2>2, <2>3, <2>4, <2>5
  <2>9. u \in [1..((n + 1) + 1) -> Nat] /\ u[1] = c
    <3>1. \A k \in 1..((n + 1) + 1) : k = (n + 1) + 1 \/ k \in 1..(n + 1)
      OBVIOUS
    <3>2. ASSUME NEW k \in 1..((n + 1) + 1) PROVE u[k] \in Nat
      <4>1. CASE k = (n + 1) + 1
        BY <2>7, <4>1
      <4>2. CASE k = n + 1
        BY <2>7, <2>8, <4>2
      <4>3. CASE k \in 1..n
        BY <1>1, <2>1, <2>7, <4>3
      <4> QED
        BY <1>2, <3>1, <4>1, <4>2, <4>3
    <3>3. u[1] = c
      <4>1. 1 \in 1..n
        OBVIOUS
      <4> QED
        BY <2>1, <2>7, <4>1
    <3>4. u \in [1..((n + 1) + 1) -> Nat]
      BY <2>6, <3>2
    <3> QED
      BY <3>3, <3>4
  <2>10. ASSUME NEW k \in 1..(n + 1) PROVE \E q \in M[k] : u[k] = u[k + 1] + q
    <3>1. CASE k = n + 1
      BY <2>5, <2>7, <3>1
    <3>2. CASE k = n
      BY <1>1, <2>7, <2>8, <3>2
    <3>3. CASE k # n + 1 /\ k # n
      <4>1. k \in 1..n /\ k \in 1..(n - 1) /\ k + 1 \in 1..n
        BY <3>3
      <4>2. u[k] = t[k] /\ u[k + 1] = t[k + 1] /\ M[k] = L[k]
        BY <2>7, <4>1
      <4> QED
        BY <2>1, <4>1, <4>2
    <3> QED
      BY <3>1, <3>2, <3>3
  <2> QED
    BY <2>7, <2>9, <2>10 DEF Total, Adds
<1>4. ASSUME NEW u, Adds(u, n + 1, M, low + 1, c) PROVE Total(n, L, low, c)
  <2>1. /\ u \in [1..((n + 1) + 1) -> Nat] /\ u[1] = c /\ u[(n + 1) + 1] = low + 1
        /\ \A k \in 1..(n + 1) : \E r \in M[k] : u[k] = u[k + 1] + r
    BY <1>4 DEF Adds
  <2>2. PICK a \in M[n + 1] : u[n + 1] = u[(n + 1) + 1] + a
    BY <1>1, <2>1
  <2>3. PICK b \in M[n] : u[n] = u[n + 1] + b
    BY <1>1, <2>1
  <2>4. a \in Nat /\ b \in Nat /\ 1 + a + b \in L[n]
    OBVIOUS
  <2>5. PICK t : t = [k \in 1..(n + 1) |-> IF k = n + 1 THEN low ELSE u[k]]
    OBVIOUS
  <2>6. /\ t \in [1..(n + 1) -> Nat] /\ t[1] = c /\ t[n + 1] = low
        /\ \A k \in 1..n : t[k] = u[k]
    BY <1>1, <1>2, <2>1, <2>5
  <2>7. u[n] = low + (1 + a + b)
    BY <2>1, <2>2, <2>3, <2>4
  <2>8. ASSUME NEW k \in 1..n PROVE \E r \in L[k] : t[k] = t[k + 1] + r
    <3>1. CASE k = n
      BY <1>1, <2>4, <2>6, <2>7, <3>1
    <3>2. CASE k # n
      <4>1. k \in 1..(n - 1) /\ k + 1 \in 1..n /\ k \in 1..(n + 1)
        BY <3>2
      <4>2. t[k] = u[k] /\ t[k + 1] = u[k + 1] /\ M[k] = L[k]
        BY <2>6, <4>1
      <4> QED
        BY <2>1, <4>1, <4>2
    <3> QED
      BY <3>1, <3>2
  <2> QED
    BY <2>6, <2>8 DEF Total, Adds
<1> QED
  BY <1>3, <1>4 DEF Total

\* A message ends.
LEMMA TotalReturns ==
    ASSUME NEW n \in Nat \ {0}, NEW low \in Nat, NEW L, NEW M, NEW c,
           \A k \in 1..(n - 1) : M[k] = L[k], L[n] = {0}
    PROVE  Total(n, L, low, c) <=> Total(n - 1, M, low, c)
<1>1. /\ (n - 1) + 1 = n /\ n \in 1..n /\ 1 \in 1..n /\ n + 1 \in 1..(n + 1) /\ 1 # n + 1
      /\ \A k \in 1..n : k \in 1..(n + 1) /\ k # n + 1
      /\ \A k \in 1..n : k = n \/ k \in 1..(n - 1)
      /\ \A k \in 1..(n - 1) : k \in 1..n /\ k + 1 \in 1..n
  OBVIOUS
<1>2. ASSUME NEW t, Adds(t, n, L, low, c) PROVE Total(n - 1, M, low, c)
  <2>1. /\ t \in [1..(n + 1) -> Nat] /\ t[1] = c /\ t[n + 1] = low
        /\ \A k \in 1..n : \E r \in L[k] : t[k] = t[k + 1] + r
    BY <1>2 DEF Adds
  <2>2. PICK u : u = [k \in 1..n |-> t[k]]
    OBVIOUS
  <2>3. u \in [1..n -> Nat] /\ \A k \in 1..n : u[k] = t[k]
    BY <1>1, <2>1, <2>2
  <2>4. t[n] = low
    <3>1. PICK r \in L[n] : t[n] = t[n + 1] + r
      BY <1>1, <2>1
    <3>2. r = 0
      OBVIOUS
    <3> QED
      BY <2>1, <3>1, <3>2
  <2>5. \A k \in 1..(n - 1) : \E r \in M[k] : u[k] = u[k + 1] + r
    BY <1>1, <2>1, <2>3
  <2>6. u[1] = c /\ u[n] = low
    BY <1>1, <2>1, <2>3, <2>4
  <2> QED
    BY <1>1, <2>3, <2>5, <2>6 DEF Total, Adds
<1>3. ASSUME NEW u, Adds(u, n - 1, M, low, c) PROVE Total(n, L, low, c)
  <2>1. /\ u \in [1..n -> Nat] /\ u[1] = c /\ u[n] = low
        /\ \A k \in 1..(n - 1) : \E r \in M[k] : u[k] = u[k + 1] + r
    BY <1>1, <1>3 DEF Adds
  <2>2. PICK t : t = [k \in 1..(n + 1) |-> IF k = n + 1 THEN low ELSE u[k]]
    OBVIOUS
  <2>3. /\ t \in [1..(n + 1) -> Nat] /\ t[n + 1] = low /\ t[1] = c
        /\ \A k \in 1..n : t[k] = u[k]
    <3>1. \A k \in 1..(n + 1) : k = n + 1 \/ k \in 1..n
      OBVIOUS
    <3> QED
      BY <1>1, <2>1, <2>2, <3>1
  <2>4. ASSUME NEW k \in 1..n PROVE \E r \in L[k] : t[k] = t[k + 1] + r
    <3>1. CASE k = n
      <4>1. t[n] = low /\ t[n + 1] = low /\ 0 \in L[n] /\ low + 0 = low
        BY <1>1, <2>1, <2>3
      <4>2. t[n] = t[n + 1] + 0
        BY <4>1
      <4> QED
        BY <3>1, <4>1, <4>2
    <3>2. CASE k # n
      <4>1. k \in 1..(n - 1) /\ k + 1 \in 1..n
        BY <1>1, <3>2
      <4>2. t[k] = u[k] /\ t[k + 1] = u[k + 1] /\ M[k] = L[k]
        BY <2>3, <4>1
      <4> QED
        BY <2>1, <4>1, <4>2
    <3> QED
      BY <3>1, <3>2
  <2> QED
    BY <2>3, <2>4 DEF Total, Adds
<1> QED
  BY <1>2, <1>3 DEF Total

\* A total counts what is counted already, and what is left in the innermost slice.
LEMMA TotalAtLeast ==
    ASSUME NEW n \in Nat \ {0}, NEW low \in Nat, NEW L, NEW c, Total(n, L, low, c),
           \A k \in 1..n : L[k] \subseteq Nat
    PROVE  c \in Nat /\ \E r \in L[n] : c >= low + r
<1>1. PICK t : Adds(t, n, L, low, c)
  BY DEF Total
<1>2. /\ t \in [1..(n + 1) -> Nat] /\ t[1] = c /\ t[n + 1] = low
      /\ \A k \in 1..n : \E r \in L[k] : t[k] = t[k + 1] + r
  BY <1>1 DEF Adds
<1> DEFINE S == {m \in Nat : m < n => c >= t[m + 1]}
<1>3. 0 \in S
  BY <1>2
<1>4. ASSUME NEW m \in Nat, m \in S PROVE m + 1 \in S
  <2> SUFFICES ASSUME m + 1 < n PROVE c >= t[(m + 1) + 1]
    OBVIOUS
  <2>1. m + 1 \in 1..n /\ (m + 1) + 1 \in 1..(n + 1) /\ m < n
    OBVIOUS
  <2>2. PICK r \in L[m + 1] : t[m + 1] = t[(m + 1) + 1] + r
    BY <1>2, <2>1
  <2>3. r \in Nat /\ t[m + 1] \in Nat /\ t[(m + 1) + 1] \in Nat /\ c \in Nat /\ c >= t[m + 1]
    BY <1>2, <1>4, <2>1, <2>2
  <2> QED
    BY <2>2, <2>3
<1>5. n - 1 \in S
  <2>1. Nat \subseteq S
    <3> HIDE DEF S
    <3> QED
      BY <1>3, <1>4, Induction
  <2> QED
    BY <2>1
<1>6. c >= t[n] /\ c \in Nat
  <2>1. n - 1 < n /\ (n - 1) + 1 = n /\ 1 \in 1..(n + 1)
    OBVIOUS
  <2> QED
    BY <1>2, <1>5, <2>1
<1>7. PICK r \in L[n] : t[n] = t[n + 1] + r
  BY <1>2
<1> QED
  BY <1>2, <1>6, <1>7

------------------------------------------------------------------------------
(***************************************************************************)
(* The invariant: each call has a slice of the one around it, and a model  *)
(* has as many fields as are counted, and as any of the slices has left.   *)
(***************************************************************************)
Frames == [schema : Scan!Schemas, start : Nat, end : Nat]

\* How far the call k has read, when those it made have returned.
At(k) == IF k = Len(frames) THEN position ELSE frames[k + 1].end

Left == [k \in 1..Len(frames) |-> Rest(At(k), frames[k].end, frames[k].schema, k - 1)]

Nested ==
    /\ Len(encoded) \in 1..MaxModelBytes
    /\ frames \in Seq(Frames) /\ Len(frames) \in 1..(MaxDepth + 1)
    /\ position \in Nat
    /\ fields \in 0..MaxFields
    /\ \A k \in 1..Len(frames) :
          frames[k].start <= At(k) /\ At(k) <= frames[k].end /\ frames[k].end <= Len(encoded)

Counted == \A c : c \in Scan!FieldCounts <=> Total(Len(frames), Left, fields, c)

ScanInv ==
    /\ encoded \in Models
    /\ verdict \in {"new", "scanning", "ok"} \cup Scan!Codes
    /\ verdict = "new" => frames = <<>> /\ position = 0 /\ fields = 0
    /\ verdict = "scanning" => Nested /\ Counted
    /\ Scan!ScanIsExact

\* A model is what is assumed of models.
LEMMA BytesAreOK ==
    ASSUME encoded \in Models
    PROVE  BytesOK
BY ScanAssumption DEF Scan!ScanInputs, BytesOK

\* The language depends on the bytes only.
LEMMA MessagesKept ==
    ASSUME encoded' = encoded
    PROVE  Scan!Messages' = Scan!Messages /\ Scan!FieldCounts' = Scan!FieldCounts
<1>1. Scan!Messages' = Scan!Messages
  BY DEF Scan!Messages, Scan!InMessage, Scan!InField, Scan!InPayload, Scan!Lengths,
         Scan!IsVarint, Scan!Number, Scan!Continued, Scan!ByteAt, Scan!Spans
<1> QED
  BY <1>1 DEF Scan!FieldCounts

\* Each call is within the model and the depth, and so is what it has left.
LEMMA FramesAre ==
    ASSUME encoded \in Models, Nested, NEW k \in 1..Len(frames)
    PROVE  /\ frames[k].schema \in Scan!Schemas /\ frames[k].start \in Nat
           /\ frames[k].end \in 0..Len(encoded) /\ At(k) \in 0..Len(encoded) /\ At(k) <= frames[k].end
           /\ frames[k].start <= At(k) /\ k - 1 \in 0..MaxDepth /\ k - 1 \in 0..(MaxDepth + 1)
           /\ Left[k] = Rest(At(k), frames[k].end, frames[k].schema, k - 1)
           /\ Left[k] \subseteq Nat
<1>1. frames[k] \in Frames
  BY ElementOfSeq DEF Nested
<1>2. Len(frames) \in Nat /\ MaxDepth \in Nat /\ BytesOK /\ Len(encoded) \in Nat
  BY BytesAreOK, LengthIs, ScanAssumption DEF Scan!ScanInputs, Nested
<1>3. k - 1 \in 0..MaxDepth /\ k - 1 \in 0..(MaxDepth + 1)
  BY <1>2 DEF Nested
<1>4. frames[k].schema \in Scan!Schemas /\ frames[k].start \in Nat /\ frames[k].end \in Nat
  BY <1>1 DEF Frames
<1>5. At(k) \in Nat
  <2>1. CASE k = Len(frames)
    BY <2>1 DEF At, Nested
  <2>2. CASE k # Len(frames)
    <3>1. k + 1 \in 1..Len(frames)
      BY <1>2, <2>2
    <3>2. frames[k + 1] \in Frames
      BY <3>1, ElementOfSeq DEF Nested
    <3> QED
      BY <2>2, <3>2 DEF At, Frames
  <2> QED
    BY <2>1, <2>2
<1>6. /\ frames[k].start <= At(k) /\ At(k) <= frames[k].end /\ frames[k].end <= Len(encoded)
  BY DEF Nested
<1>7. frames[k].end \in 0..Len(encoded) /\ At(k) \in 0..Len(encoded)
  <2> DEFINE e == frames[k].end
             a == At(k)
  <2>1. e \in Nat /\ a \in Nat /\ a <= e /\ e <= Len(encoded)
    BY <1>4, <1>5, <1>6
  <2> HIDE DEF e, a
  <2>2. e \in 0..Len(encoded) /\ a \in 0..Len(encoded)
    BY <1>2, <2>1
  <2> QED
    BY <2>2 DEF e, a
<1>8. Left[k] = Rest(At(k), frames[k].end, frames[k].schema, k - 1)
  BY DEF Left
<1>9. Left[k] \subseteq Nat
  BY <1>2, <1>3, <1>4, <1>7, <1>8, RestIsNat
<1> QED
  BY <1>3, <1>4, <1>6, <1>7, <1>8, <1>9

\* The innermost call, in a turn of its loop.
LEMMA TopIs ==
    ASSUME encoded \in Models, Nested, Scan!Turn
    PROVE  /\ Here(position, (Scan!Top).start, (Scan!Top).end, (Scan!Top).schema, Len(frames) - 1)
           /\ Len(frames) \in Nat \ {0}
           /\ Left[Len(frames)] = Rest(position, (Scan!Top).end, (Scan!Top).schema, Len(frames) - 1)
           /\ \A k \in 1..Len(frames) : Left[k] \subseteq Nat
<1> DEFINE n == Len(frames)
<1>1. n \in Nat \ {0} /\ n \in 1..n
  <2>1. MaxDepth \in Nat
    BY ScanAssumption DEF Scan!ScanInputs
  <2> QED
    BY <2>1 DEF Nested
<1>2. At(n) = position /\ Scan!Top = frames[n]
  BY DEF At, Scan!Top
<1>3. /\ frames[n].schema \in Scan!Schemas /\ frames[n].start \in Nat
      /\ frames[n].end \in 0..Len(encoded) /\ position \in 0..Len(encoded) /\ position <= frames[n].end
      /\ frames[n].start <= position /\ n - 1 \in 0..MaxDepth
      /\ Left[n] = Rest(position, frames[n].end, frames[n].schema, n - 1)
  BY <1>1, <1>2, FramesAre
<1>4. position < frames[n].end /\ Len(encoded) \in Nat /\ BytesOK
  BY <1>2, BytesAreOK, LengthIs DEF Scan!Turn
<1>5. Len(encoded) <= MaxModelBytes
  BY ScanAssumption DEF Scan!ScanInputs, Nested
<1>6. position \in 0..(frames[n].end - 1) /\ frames[n].start \in 0..position
  <2> DEFINE e == frames[n].end
             b == frames[n].start
  <2>1. e \in Nat /\ b \in Nat /\ position \in Nat /\ position < e /\ b <= position
    BY <1>3, <1>4
  <2> HIDE DEF e, b
  <2>2. position \in 0..(e - 1) /\ b \in 0..position
    BY <2>1
  <2> QED
    BY <2>2 DEF e, b
<1>7. Here(position, (Scan!Top).start, (Scan!Top).end, (Scan!Top).schema, n - 1)
  BY <1>2, <1>3, <1>4, <1>5, <1>6 DEF Here
<1>8. \A k \in 1..n : Left[k] \subseteq Nat
  BY FramesAre
<1> QED
  BY <1>1, <1>2, <1>3, <1>7, <1>8

\* If a slice has no number of fields left, the model has none.
LEMMA NothingLeft ==
    ASSUME encoded \in Models, Nested, Counted, Scan!Turn, Left[Len(frames)] = {}
    PROVE  Scan!FieldCounts = {}
<1> SUFFICES ASSUME NEW c \in Scan!FieldCounts PROVE FALSE
  OBVIOUS
<1>1. Total(Len(frames), Left, fields, c)
  BY DEF Counted
<1>2. PICK n : n = Len(frames)
  OBVIOUS
<1>3. PICK L : L = Left
  OBVIOUS
<1>4. PICK low : low = fields
  OBVIOUS
<1>5. n \in Nat \ {0} /\ low \in Nat /\ (\A k \in 1..n : L[k] \subseteq Nat) /\ Total(n, L, low, c) /\ L[n] = {}
  BY <1>1, <1>2, <1>3, <1>4, TopIs DEF Nested
<1>6. \E r \in L[n] : c >= low + r
  BY <1>5, TotalAtLeast
<1> QED
  BY <1>5, <1>6

\* An error is right when no number of fields within the budget makes a message.
LEMMA Rejected ==
    ASSUME ScanInv, NEW code \in Scan!Codes, Scan!Reject(code),
           Len(encoded) \in 1..MaxModelBytes => \A c \in Scan!FieldCounts : ~(c <= MaxFields)
    PROVE  ScanInv'
<1>1. encoded' = encoded /\ verdict' = code
  BY DEF Scan!Reject
<1>2. Scan!FieldCounts' = Scan!FieldCounts
  BY <1>1, MessagesKept
<1>3. code \notin {"new", "scanning", "ok"}
  BY DEF Scan!Codes
<1>4. encoded' \in Models /\ verdict' \in {"new", "scanning", "ok"} \cup Scan!Codes
  BY <1>1 DEF ScanInv
<1>5. Scan!ScanIsExact'
  BY <1>1, <1>2, <1>3 DEF Scan!ScanIsExact
<1> QED
  BY <1>1, <1>3, <1>4, <1>5 DEF ScanInv

\* The first call has the whole model left.
LEMMA InspectHolds ==
    ASSUME ScanInv, Scan!Inspect
    PROVE  ScanInv'
<1>1. encoded \in Models /\ verdict = "new" /\ frames = <<>> /\ position = 0 /\ fields = 0
  BY DEF ScanInv, Scan!Inspect
<1>2. BytesOK /\ Len(encoded) \in Nat /\ MaxModelBytes \in Nat /\ MaxDepth \in Nat /\ MaxFields \in Nat
  BY <1>1, BytesAreOK, LengthIs, ScanAssumption DEF Scan!ScanInputs
<1>3. CASE encoded = <<>> /\ Scan!Reject("malformed")
  <2>1. ~(Len(encoded) \in 1..MaxModelBytes)
    BY <1>3
  <2>2. "malformed" \in Scan!Codes
    BY DEF Scan!Codes
  <2> QED
    BY <1>3, <2>1, <2>2, Rejected
<1>4. CASE Len(encoded) > MaxModelBytes /\ Scan!Reject("too_large")
  <2>1. ~(Len(encoded) \in 1..MaxModelBytes)
    BY <1>2, <1>4
  <2>2. "too_large" \in Scan!Codes
    BY DEF Scan!Codes
  <2> QED
    BY <1>4, <2>1, <2>2, Rejected
<1>5. CASE /\ Len(encoded) \in 1..MaxModelBytes
           /\ frames' = <<[schema |-> "Model", start |-> 0, end |-> Len(encoded)]>>
           /\ verdict' = "scanning"
           /\ UNCHANGED <<encoded, position>>
  <2>1. encoded' = encoded /\ position' = 0 /\ fields' = 0 /\ Len(encoded') = Len(encoded)
    BY <1>1, <1>5 DEF Scan!Inspect
  <2>2. Scan!Messages' = Scan!Messages /\ Scan!FieldCounts' = Scan!FieldCounts
    BY <2>1, MessagesKept
  <2>3. "Model" \in Scan!Schemas
    BY SchemasAre
  <2>4. PICK f : f = [schema |-> "Model", start |-> 0, end |-> Len(encoded)]
    OBVIOUS
  <2>5. f \in Frames /\ f.schema = "Model" /\ f.start = 0 /\ f.end = Len(encoded)
    BY <1>2, <2>3, <2>4 DEF Frames
  <2>6. frames' = <<f>> /\ Len(frames') = 1 /\ frames'[1] = f
    BY <1>5, <2>4
  <2>7. At(1)' = 0
    BY <2>1, <2>6 DEF At
  <2>8. Nested'
    <3>1. frames' \in Seq(Frames)
      BY <2>5, <2>6
    <3>2. ASSUME NEW k \in 1..Len(frames')
          PROVE  /\ frames'[k].start <= At(k)' /\ At(k)' <= frames'[k].end
                 /\ frames'[k].end <= Len(encoded')
      <4>1. k = 1
        BY <2>6
      <4> QED
        BY <1>2, <2>1, <2>5, <2>6, <2>7, <4>1
    <3>3. Len(frames') \in 1..(MaxDepth + 1)
      BY <1>2, <2>6
    <3> QED
      BY <1>2, <1>5, <2>1, <3>1, <3>2, <3>3 DEF Nested
  <2>9. Scan!FieldCounts \subseteq Nat
    <3>1. <<0, Len(encoded), "Model", 0>> \in Scan!Spans
      BY <1>2, <2>3 DEF Scan!Spans
    <3> QED
      BY <1>2, <3>1, CountsAreNat DEF Scan!FieldCounts
  <2>10. PICK L : L = Left'
    OBVIOUS
  <2>11. L[1] = Scan!FieldCounts
    BY <2>1, <2>2, <2>5, <2>6, <2>7, <2>10 DEF Left, Rest, Scan!FieldCounts
  <2>12. ASSUME NEW c PROVE c \in Scan!FieldCounts <=> Total(1, L, 0, c)
    <3>1. ASSUME c \in Scan!FieldCounts PROVE Total(1, L, 0, c)
      <4>1. c \in Nat
        BY <2>9, <3>1
      <4>2. PICK t : t = [k \in 1..2 |-> IF k = 1 THEN c ELSE 0]
        OBVIOUS
      <4>3. t \in [1..2 -> Nat] /\ t[1] = c /\ t[2] = 0 /\ c = 0 + c
        BY <4>1, <4>2
      <4>4. \A k \in 1..1 : \E r \in L[k] : t[k] = t[k + 1] + r
        BY <2>11, <3>1, <4>3
      <4>5. 1 + 1 = 2
        OBVIOUS
      <4> QED
        BY <4>3, <4>4, <4>5 DEF Total, Adds
    <3>2. ASSUME Total(1, L, 0, c) PROVE c \in Scan!FieldCounts
      <4>1. PICK t : t[1] = c /\ t[1 + 1] = 0 /\ \A k \in 1..1 : \E r \in L[k] : t[k] = t[k + 1] + r
        BY <3>2 DEF Total, Adds
      <4>2. PICK r \in L[1] : t[1] = t[1 + 1] + r
        BY <4>1
      <4>3. r \in Nat /\ r \in Scan!FieldCounts
        BY <2>9, <2>11
      <4>4. c = r
        BY <4>1, <4>2, <4>3
      <4> QED
        BY <4>3, <4>4
    <3> QED
      BY <3>1, <3>2
  <2>13. Counted'
    BY <2>1, <2>2, <2>6, <2>10, <2>12 DEF Counted, Total, Adds
  <2>14. Scan!ScanIsExact'
    BY <1>5 DEF Scan!ScanIsExact, Scan!Codes
  <2> QED
    BY <1>1, <1>5, <2>1, <2>8, <2>13, <2>14 DEF ScanInv
<1> QED
  BY <1>3, <1>4, <1>5 DEF Scan!Inspect

\* What holds in a turn of the loop.
LEMMA TurnIs ==
    ASSUME ScanInv, Scan!Turn
    PROVE  /\ encoded \in Models /\ BytesOK /\ Nested /\ Counted /\ verdict = "scanning"
           /\ fields \in 0..MaxFields /\ MaxFields \in Nat /\ Len(encoded) \in 1..MaxModelBytes
BY BytesAreOK, ScanAssumption DEF ScanInv, Scan!Turn, Nested, Scan!ScanInputs

\* A key without errors is a varint within the budget.
LEMMA KeyOK ==
    ASSUME (Scan!Key).ok \in BOOLEAN, Scan!KeyErrors = {}
    PROVE  fields # MaxFields /\ (Scan!Key).ok
BY DEF Scan!KeyErrors

\* What is wrong with the key of a field that is rejected.
LEMMA KeyBad ==
    ASSUME (Scan!Key).ok \in BOOLEAN, NEW code \in Scan!KeyErrors
    PROVE  /\ code \in Scan!Codes
           /\ \/ fields = MaxFields
              \/ ~(Scan!Key).ok
              \/ Scan!Tag = 0 \/ Scan!Tag >= TagLimit
              \/ Scan!Payload \subseteq {Scan!Forbidden}
BY DEF Scan!KeyErrors, Scan!Codes

\* A key is a varint or not.
LEMMA KeyTyped ==
    ASSUME ScanInv, Scan!Turn
    PROVE  (Scan!Key).ok \in BOOLEAN
<1>1. Here(position, (Scan!Top).start, (Scan!Top).end, (Scan!Top).schema, Len(frames) - 1)
  BY TurnIs, TopIs
<1> QED
  BY <1>1, HereIs, VarintIs DEF Scan!Key, Here

\* A field beyond the budget, or with a key that no message has.
LEMMA RejectKeyHolds ==
    ASSUME ScanInv, Scan!RejectKey
    PROVE  ScanInv'
<1>1. Scan!Turn
  BY DEF Scan!RejectKey
<1>2. PICK code \in Scan!KeyErrors : Scan!Reject(code)
  BY DEF Scan!RejectKey
<1>3. code \in Scan!Codes
  BY <1>1, KeyTyped, KeyBad
<1> DEFINE n == Len(frames)
<1>4. /\ Here(position, (Scan!Top).start, (Scan!Top).end, (Scan!Top).schema, n - 1) /\ n \in Nat \ {0}
      /\ Left[n] = Rest(position, (Scan!Top).end, (Scan!Top).schema, n - 1)
      /\ \A k \in 1..n : Left[k] \subseteq Nat
  BY <1>1, TurnIs, TopIs
<1>5. ASSUME NEW c \in Scan!FieldCounts PROVE ~(c <= MaxFields)
  <2>1. CASE fields = MaxFields
    <3>1. Total(n, Left, fields, c)
      BY <1>1, TurnIs DEF Counted
    <3>2. PICK r \in Left[n] : c >= fields + r
      <4>1. PICK m, L, low : m = n /\ L = Left /\ low = fields
        OBVIOUS
      <4>2. /\ m \in Nat \ {0} /\ low \in Nat /\ (\A k \in 1..m : L[k] \subseteq Nat)
            /\ Total(m, L, low, c)
        BY <1>1, <1>4, <3>1, <4>1, TurnIs
      <4>3. \E r \in L[m] : c >= low + r
        BY <4>2, TotalAtLeast
      <4> QED
        BY <4>1, <4>3
    <3>3. c \in Nat
      <4>1. PICK m, L, low : m = n /\ L = Left /\ low = fields
        OBVIOUS
      <4>2. /\ m \in Nat \ {0} /\ low \in Nat /\ (\A k \in 1..m : L[k] \subseteq Nat)
            /\ Total(m, L, low, c)
        BY <1>1, <1>4, <3>1, <4>1, TurnIs
      <4> QED
        BY <4>2, TotalAtLeast
    <3>4. r \in Nat /\ r >= 1
      BY <1>4, SomeField
    <3> QED
      BY <1>1, <2>1, <3>2, <3>3, <3>4, TurnIs
  <2>2. CASE fields # MaxFields
    <3>1. \/ ~(Scan!Key).ok
          \/ Scan!Number(position, (Scan!Key).to) \div 8 = 0 \/ Scan!Number(position, (Scan!Key).to) \div 8 >= TagLimit
          \/ PayloadsAt(position, (Scan!Key).to, (Scan!Top).schema) \subseteq {Scan!Forbidden}
      BY <1>1, <2>2, KeyTyped, KeyBad DEF Scan!Tag, Scan!Payload, Scan!Wire, PayloadsAt
    <3>2. PICK i, start, j, s, d, key :
             /\ i = position /\ start = (Scan!Top).start /\ j = (Scan!Top).end /\ s = (Scan!Top).schema /\ d = n - 1
             /\ key = Scan!Key
      OBVIOUS
    <3>3. /\ Here(i, start, j, s, d) /\ key = Scan!Varint(i, j)
          /\ \/ ~key.ok
             \/ Scan!Number(i, key.to) \div 8 = 0 \/ Scan!Number(i, key.to) \div 8 >= TagLimit
             \/ PayloadsAt(i, key.to, s) \subseteq {Scan!Forbidden}
      BY <1>4, <3>1, <3>2 DEF Scan!Key
    <3>4. Rest(i, j, s, d) = {}
      BY <3>3, NoField
    <3>5. Scan!FieldCounts = {}
      BY <1>1, <1>4, <3>2, <3>4, TurnIs, NothingLeft
    <3> QED
      BY <3>5
  <2> QED
    BY <2>1, <2>2
<1> QED
  BY <1>2, <1>3, <1>5, Rejected

\* The counts after a step, without a prime inside.
LEMMA CountedNext ==
    Counted' <=> \A c : c \in Scan!FieldCounts' <=> Total(Len(frames'), Left', fields', c)
BY DEF Counted, Total, Adds

\* A field without fields of its own has been read, up to its end.
LEMMA Advanced ==
    ASSUME ScanInv, Scan!Turn, fields # MaxFields, UNCHANGED <<encoded, frames, verdict>>,
           NEW to \in position..(Scan!Top).end, position' = to,
           \A x : x \in Rest(position, (Scan!Top).end, (Scan!Top).schema, Len(frames) - 1) <=>
                    \E b \in Rest(to, (Scan!Top).end, (Scan!Top).schema, Len(frames) - 1) : x = 1 + b
    PROVE  ScanInv'
<1> DEFINE n == Len(frames)
<1>1. /\ encoded \in Models /\ BytesOK /\ Nested /\ Counted /\ verdict = "scanning"
      /\ fields \in 0..MaxFields /\ MaxFields \in Nat /\ Len(encoded) \in 1..MaxModelBytes
  BY TurnIs
<1>2. /\ Here(position, (Scan!Top).start, (Scan!Top).end, (Scan!Top).schema, n - 1) /\ n \in Nat \ {0}
      /\ Left[n] = Rest(position, (Scan!Top).end, (Scan!Top).schema, n - 1)
      /\ \A k \in 1..n : Left[k] \subseteq Nat
  BY <1>1, TopIs
<1>3. encoded' = encoded /\ frames' = frames /\ verdict' = verdict /\ fields' = fields + 1
      /\ Len(frames') = n /\ Len(encoded') = Len(encoded)
  BY DEF Scan!Turn
<1>4. Scan!Messages' = Scan!Messages /\ Scan!FieldCounts' = Scan!FieldCounts
  BY <1>3, MessagesKept
<1>5. fields' \in 0..MaxFields
  BY <1>1, <1>3
<1>6. Scan!Top = frames[n] /\ At(n)' = to /\ At(n) = position
  BY <1>3 DEF Scan!Top, At
<1>7. \A k \in 1..n : k # n => At(k)' = At(k)
  BY <1>3 DEF At
<1>8. to \in Nat /\ frames[n].start <= to /\ to <= frames[n].end /\ to \in 0..Len(encoded)
  <2>1. position \in Nat /\ (Scan!Top).end \in 0..Len(encoded) /\ (Scan!Top).start \in 0..position /\ Len(encoded) \in Nat
    BY <1>2, HereIs DEF Here
  <2>2. PICK e, b : e = (Scan!Top).end /\ b = (Scan!Top).start
    OBVIOUS
  <2>3. to \in Nat /\ b <= to /\ to <= e /\ to \in 0..Len(encoded)
    BY <2>1, <2>2
  <2> QED
    BY <1>6, <2>2, <2>3
<1>9. Nested'
  <2>1. ASSUME NEW k \in 1..n
        PROVE  /\ frames'[k].start <= At(k)' /\ At(k)' <= frames'[k].end /\ frames'[k].end <= Len(encoded')
    <3>1. frames[k].start <= At(k) /\ At(k) <= frames[k].end /\ frames[k].end <= Len(encoded)
      BY <1>1 DEF Nested
    <3>2. CASE k = n
      BY <1>3, <1>6, <1>8, <3>1, <3>2
    <3>3. CASE k # n
      BY <1>3, <1>7, <3>1, <3>3
    <3> QED
      BY <3>2, <3>3
  <2>2. position' \in Nat
    BY <1>8
  <2>3. frames' \in Seq(Frames) /\ Len(frames') \in 1..(MaxDepth + 1) /\ Len(encoded') \in 1..MaxModelBytes
    BY <1>1, <1>3 DEF Nested
  <2> QED
    BY <1>3, <1>5, <2>1, <2>2, <2>3 DEF Nested
<1>10. PICK m, L, M, low : m = n /\ L = Left /\ M = Left' /\ low = fields
  OBVIOUS
<1>11. \A k \in 1..(m - 1) : M[k] = L[k]
  <2> SUFFICES ASSUME NEW k \in 1..(m - 1) PROVE M[k] = L[k]
    OBVIOUS
  <2>1. k \in 1..n /\ k # n
    BY <1>2, <1>10
  <2>2. M[k] = Rest(At(k)', frames[k].end, frames[k].schema, k - 1)
    BY <1>3, <1>4, <1>10, <2>1 DEF Left, Rest
  <2>3. L[k] = Rest(At(k), frames[k].end, frames[k].schema, k - 1)
    BY <1>10, <2>1 DEF Left
  <2> QED
    BY <1>7, <2>1, <2>2, <2>3
<1>12. M[m] = Rest(to, (Scan!Top).end, (Scan!Top).schema, n - 1)
  <2>1. n \in 1..n
    BY <1>2
  <2> QED
    BY <1>3, <1>4, <1>6, <1>10, <2>1 DEF Left, Rest
<1>13. M[m] \subseteq Nat
  <2>1. PICK i, b, j, s, d : i = position /\ b = (Scan!Top).start /\ j = (Scan!Top).end /\ s = (Scan!Top).schema /\ d = n - 1
    OBVIOUS
  <2>2. Here(i, b, j, s, d)
    BY <1>2, <2>1
  <2>3. j \in 0..Len(encoded) /\ s \in Scan!Schemas /\ d \in 0..(MaxDepth + 1)
    BY <2>2, HereIs DEF Here
  <2>4. Rest(to, j, s, d) \subseteq Nat
    BY <1>1, <1>8, <2>3, RestIsNat
  <2> QED
    BY <1>12, <2>1, <2>4
<1>14. m \in Nat \ {0} /\ low \in Nat /\ (\A x : x \in L[m] <=> \E b \in M[m] : x = 1 + b)
  BY <1>1, <1>2, <1>10, <1>12
<1>15. \A c : Total(m, L, low, c) <=> Total(m, M, low + 1, c)
  BY <1>11, <1>13, <1>14, TotalAdvances
<1>16. Counted'
  <2>1. \A c : c \in Scan!FieldCounts <=> Total(m, L, low, c)
    BY <1>1, <1>10 DEF Counted
  <2>2. \A c : c \in Scan!FieldCounts <=> Total(m, M, low + 1, c)
    BY <1>15, <2>1
  <2> QED
    BY <1>3, <1>4, <1>10, <2>2, CountedNext
<1>17. Scan!ScanIsExact'
  BY <1>1, <1>3 DEF Scan!ScanIsExact, Scan!Codes
<1> QED
  BY <1>1, <1>3, <1>9, <1>16, <1>17 DEF ScanInv

\* Nothing is left in a slice whose next field is none.
LEMMA NoneLeft ==
    ASSUME ScanInv, Scan!Turn, NEW code \in Scan!Codes, Scan!Reject(code),
           Rest(position, (Scan!Top).end, (Scan!Top).schema, Len(frames) - 1) = {}
    PROVE  ScanInv'
<1>1. encoded \in Models /\ Nested /\ Counted
  BY TurnIs
<1>2. Left[Len(frames)] = {}
  BY <1>1, TopIs
<1>3. Scan!FieldCounts = {}
  BY <1>1, <1>2, NothingLeft
<1> QED
  BY <1>3, Rejected

\* A scalar is skipped, or there is none.
LEMMA SkipScalarHolds ==
    ASSUME ScanInv, Scan!SkipScalar
    PROVE  ScanInv'
<1>1. Scan!Turn /\ Scan!KeyErrors = {} /\ Scan!Scalar \in Scan!Payload
  BY DEF Scan!SkipScalar
<1>2. fields # MaxFields /\ (Scan!Key).ok
  BY <1>1, KeyTyped, KeyOK
<1>3. PICK i, start, j, s, d, key, f :
         /\ i = position /\ start = (Scan!Top).start /\ j = (Scan!Top).end /\ s = (Scan!Top).schema /\ d = Len(frames) - 1
         /\ key = Scan!Key /\ f = Scan!ScalarAt((Scan!Key).to, Scan!Wire, (Scan!Top).end)
  OBVIOUS
<1>4. /\ Here(i, start, j, s, d) /\ key = Scan!Varint(i, j) /\ key.ok
      /\ Scan!Scalar \in PayloadsAt(i, key.to, s) /\ f = Scan!ScalarAt(key.to, WireAt(i, key.to), j)
  <2>1. Here(position, (Scan!Top).start, (Scan!Top).end, (Scan!Top).schema, Len(frames) - 1)
    BY <1>1, TurnIs, TopIs
  <2> QED
    BY <1>1, <1>2, <1>3, <2>1 DEF Scan!Key, Scan!Payload, Scan!Tag, Scan!Wire, PayloadsAt, WireAt
<1>5. /\ f.ok \in BOOLEAN
      /\ ~f.ok => Rest(i, j, s, d) = {} /\ f.code = "malformed"
      /\ f.ok => /\ f.to \in (key.to + 1)..j
                 /\ \A x : x \in Rest(i, j, s, d) <=> \E b \in Rest(f.to, j, s, d) : x = 1 + b
  BY <1>4, ScalarField
<1>6. CASE f.ok
  <2>1. position' = f.to /\ UNCHANGED <<encoded, frames, verdict>>
    BY <1>3, <1>6 DEF Scan!SkipScalar
  <2>2. f.to \in i..j
    <3>1. key.to \in (i + 1)..j /\ i \in Nat /\ j \in Nat
      BY <1>4, KeyIs, HereIs
    <3> QED
      BY <1>5, <1>6, <3>1
  <2> QED
    BY <1>1, <1>2, <1>3, <1>5, <1>6, <2>1, <2>2, Advanced
<1>7. CASE ~f.ok
  <2>1. Scan!Reject("malformed")
    BY <1>3, <1>5, <1>7 DEF Scan!SkipScalar
  <2>2. "malformed" \in Scan!Codes
    BY DEF Scan!Codes
  <2> QED
    BY <1>1, <1>3, <1>5, <1>7, <2>1, <2>2, NoneLeft
<1> QED
  BY <1>5, <1>6, <1>7

\* Bytes are skipped, or there are none, or too many.
LEMMA SkipBytesHolds ==
    ASSUME ScanInv, Scan!SkipBytes
    PROVE  ScanInv'
<1>1. Scan!Turn /\ Scan!KeyErrors = {}
  BY DEF Scan!SkipBytes
<1>2. fields # MaxFields /\ (Scan!Key).ok
  BY <1>1, KeyTyped, KeyOK
<1>3. PICK i, start, j, s, d, key, f :
         /\ i = position /\ start = (Scan!Top).start /\ j = (Scan!Top).end /\ s = (Scan!Top).schema /\ d = Len(frames) - 1
         /\ key = Scan!Key /\ f = Scan!Delimited((Scan!Key).to, (Scan!Top).start, (Scan!Top).end)
  OBVIOUS
<1>4. PICK p : /\ p \in Scan!Payload /\ p[1] = "bytes"
               /\ IF ~f.ok THEN Scan!Reject(f.code)
                  ELSE IF f.to - f.from > p[2] THEN Scan!Reject("limit")
                  ELSE position' = f.to /\ UNCHANGED <<encoded, frames, verdict>>
  BY <1>3 DEF Scan!SkipBytes
<1>5. /\ Here(i, start, j, s, d) /\ key = Scan!Varint(i, j) /\ key.ok
      /\ p \in PayloadsAt(i, key.to, s) /\ f = Scan!Delimited(key.to, start, j)
  <2>1. Here(position, (Scan!Top).start, (Scan!Top).end, (Scan!Top).schema, Len(frames) - 1)
    BY <1>1, TurnIs, TopIs
  <2> QED
    BY <1>2, <1>3, <1>4, <2>1 DEF Scan!Key, Scan!Payload, Scan!Tag, Scan!Wire, PayloadsAt, WireAt
<1>6. /\ f.ok \in BOOLEAN
      /\ ~f.ok => f.code \in {"malformed", "limit"}
      /\ f.ok => f.to \in key.to..j
  BY <1>5, DelimitedAt
<1>7. /\ ~f.ok \/ f.to - f.from > p[2] => Rest(i, j, s, d) = {}
      /\ f.ok /\ ~(f.to - f.from > p[2]) =>
           \A x : x \in Rest(i, j, s, d) <=> \E b \in Rest(f.to, j, s, d) : x = 1 + b
  BY <1>4, <1>5, BytesField
<1>8. CASE f.ok /\ ~(f.to - f.from > p[2])
  <2>1. position' = f.to /\ UNCHANGED <<encoded, frames, verdict>>
    BY <1>4, <1>8
  <2>2. f.to \in i..j
    <3>1. key.to \in (i + 1)..j /\ i \in Nat /\ j \in Nat
      BY <1>5, KeyIs, HereIs
    <3> QED
      BY <1>6, <1>8, <3>1
  <2> QED
    BY <1>1, <1>2, <1>3, <1>7, <1>8, <2>1, <2>2, Advanced
<1>9. CASE ~f.ok \/ f.to - f.from > p[2]
  <2>1. PICK code \in Scan!Codes : Scan!Reject(code)
    BY <1>4, <1>6, <1>9 DEF Scan!Codes
  <2> QED
    BY <1>1, <1>3, <1>7, <1>9, <2>1, NoneLeft
<1> QED
  BY <1>6, <1>8, <1>9

\* A nested message becomes the innermost call: what its caller had left is split in two.
LEMMA EnterHolds ==
    ASSUME ScanInv, Scan!Enter
    PROVE  ScanInv'
<1>1. Scan!Turn /\ Scan!KeyErrors = {}
  BY DEF Scan!Enter
<1>2. fields # MaxFields /\ (Scan!Key).ok
  BY <1>1, KeyTyped, KeyOK
<1>3. PICK i, start, j, s, d, n, key, f :
         /\ i = position /\ start = (Scan!Top).start /\ j = (Scan!Top).end /\ s = (Scan!Top).schema /\ d = Len(frames) - 1
         /\ n = Len(frames) /\ key = Scan!Key /\ f = Scan!Delimited((Scan!Key).to, (Scan!Top).start, (Scan!Top).end)
  OBVIOUS
<1>4. PICK p, g : /\ p \in Scan!Payload /\ p[1] = "message"
                  /\ g = [schema |-> p[2], start |-> f.from, end |-> f.to]
                  /\ IF ~f.ok THEN Scan!Reject(f.code)
                     ELSE IF Len(frames) > MaxDepth THEN Scan!Reject("limit")
                     ELSE position' = f.from /\ frames' = Append(frames, g) /\ UNCHANGED <<encoded, verdict>>
  BY <1>3 DEF Scan!Enter
<1>5. /\ encoded \in Models /\ BytesOK /\ Nested /\ Counted /\ verdict = "scanning"
      /\ fields \in 0..MaxFields /\ MaxFields \in Nat /\ Len(encoded) \in 1..MaxModelBytes
  BY <1>1, TurnIs
<1>6. /\ Here(i, start, j, s, d) /\ n \in Nat \ {0} /\ d = n - 1
      /\ Left[n] = Rest(i, j, s, d)
      /\ \A k \in 1..n : Left[k] \subseteq Nat
  BY <1>1, <1>3, <1>5, TopIs
<1>7. key = Scan!Varint(i, j) /\ key.ok /\ p \in PayloadsAt(i, key.to, s) /\ f = Scan!Delimited(key.to, start, j)
  BY <1>2, <1>3, <1>4 DEF Scan!Key, Scan!Payload, Scan!Tag, Scan!Wire, PayloadsAt
<1>8. /\ f.ok \in BOOLEAN
      /\ ~f.ok => f.code \in {"malformed", "limit"}
      /\ f.ok => f.from \in (key.to + 1)..j /\ f.to \in f.from..j /\ f.from \in Nat
  BY <1>6, <1>7, DelimitedAt
<1>9. /\ ~f.ok => Rest(i, j, s, d) = {}
      /\ f.ok => \A x : x \in Rest(i, j, s, d) <=>
                   \E a \in Rest(f.from, f.to, p[2], d + 1) : \E b \in Rest(f.to, j, s, d) :
                      x = 1 + a + b
  BY <1>4, <1>6, <1>7, MessageField
<1>10. s \in Scan!Schemas /\ p[2] \in Scan!Schemas /\ i \in Nat /\ j \in 0..Len(encoded) /\ Len(encoded) \in Nat
       /\ MaxDepth \in Nat /\ d \in 0..MaxDepth /\ d \in 0..(MaxDepth + 1)
       /\ key.to \in (i + 1)..j /\ start \in 0..i
  <2>1. s \in Scan!Schemas /\ d \in 0..MaxDepth /\ start \in 0..i
    BY <1>6 DEF Here
  <2>2. IsPayload(p)
    BY <1>7, <2>1, PayloadIs DEF PayloadsAt
  <2>3. p[2] \in Scan!Schemas
    BY <1>4, <2>2, PayloadKinds
  <2>4. key.to \in (i + 1)..j
    BY <1>6, <1>7, KeyIs
  <2> QED
    BY <1>6, <2>1, <2>3, <2>4, HereIs
<1>11. f.ok => /\ f.from \in 0..Len(encoded) /\ f.to \in 0..Len(encoded) /\ f.from <= f.to /\ f.to <= j
               /\ i < f.from /\ start <= f.to
  <2> SUFFICES ASSUME f.ok
               PROVE  /\ f.from \in 0..Len(encoded) /\ f.to \in 0..Len(encoded) /\ f.from <= f.to /\ f.to <= j
                      /\ i < f.from /\ start <= f.to
    OBVIOUS
  <2>1. PICK a, b, k : a = f.from /\ b = f.to /\ k = key.to
    OBVIOUS
  <2>2. a \in (k + 1)..j /\ b \in a..j /\ k \in (i + 1)..j
    BY <1>8, <1>10, <2>1
  <2>3. a \in 0..Len(encoded) /\ b \in 0..Len(encoded) /\ a <= b /\ b <= j /\ i < a /\ start <= b
    BY <1>10, <2>2
  <2> QED
    BY <2>1, <2>3
<1>12. CASE ~f.ok
  <2>1. PICK code \in Scan!Codes : Scan!Reject(code)
    BY <1>4, <1>8, <1>12 DEF Scan!Codes
  <2> QED
    BY <1>1, <1>3, <1>9, <1>12, <2>1, NoneLeft
<1>13. CASE f.ok /\ Len(frames) > MaxDepth
  <2>1. Scan!Reject("limit") /\ "limit" \in Scan!Codes
    BY <1>4, <1>13 DEF Scan!Codes
  <2>2. d + 1 > MaxDepth /\ d + 1 \in 0..(MaxDepth + 1)
    BY <1>3, <1>6, <1>10, <1>13
  <2>3. Rest(f.from, f.to, p[2], d + 1) = {}
    BY <1>5, <1>10, <1>11, <1>13, <2>2, RestOfNothing
  <2>4. Rest(i, j, s, d) = {}
    BY <1>9, <1>13, <2>3
  <2> QED
    BY <1>1, <1>3, <2>1, <2>4, NoneLeft
<1>14. CASE f.ok /\ ~(Len(frames) > MaxDepth)
  <2>1. /\ position' = f.from /\ frames' = Append(frames, g) /\ encoded' = encoded /\ verdict' = verdict
        /\ fields' = fields + 1
    BY <1>1, <1>4, <1>14 DEF Scan!Turn
  <2>2. Scan!Messages' = Scan!Messages /\ Scan!FieldCounts' = Scan!FieldCounts
    BY <2>1, MessagesKept
  <2>3. fields' \in 0..MaxFields /\ n <= MaxDepth /\ frames \in Seq(Frames) /\ n \in 1..n
    BY <1>2, <1>3, <1>5, <1>6, <1>10, <1>14, <2>1 DEF Nested
  <2>4. g \in Frames /\ g.schema = p[2] /\ g.start = f.from /\ g.end = f.to
    BY <1>4, <1>10, <1>11, <1>14 DEF Frames
  <2>5. /\ frames' \in Seq(Frames) /\ Len(frames') = n + 1 /\ frames'[n + 1] = g
        /\ \A k \in 1..n : frames'[k] = frames[k]
    BY <1>3, <2>1, <2>3, <2>4
  <2>6. /\ At(n + 1)' = f.from /\ At(n)' = f.to
        /\ \A k \in 1..n : k # n => At(k)' = At(k)
    <3>1. At(n + 1)' = f.from
      BY <2>1, <2>5 DEF At
    <3>2. At(n)' = f.to
      BY <1>6, <2>4, <2>5 DEF At
    <3>3. ASSUME NEW k \in 1..n, k # n PROVE At(k)' = At(k)
      <4>1. k + 1 \in 1..n /\ k # n + 1
        BY <1>6, <3>3
      <4> QED
        BY <1>3, <2>5, <3>3, <4>1 DEF At
    <3> QED
      BY <3>1, <3>2, <3>3
  <2>7. Scan!Top = frames[n] /\ frames[n].end = j /\ frames[n].start = start /\ frames[n].schema = s
    BY <1>3 DEF Scan!Top
  <2>8. Nested'
    <3>1. ASSUME NEW k \in 1..(n + 1)
          PROVE  /\ frames'[k].start <= At(k)' /\ At(k)' <= frames'[k].end /\ frames'[k].end <= Len(encoded')
      <4>1. CASE k = n + 1
        <5>1. f.from <= f.from /\ f.from <= f.to /\ f.to <= Len(encoded)
          BY <1>10, <1>11, <1>14
        <5> QED
          BY <2>1, <2>4, <2>5, <2>6, <4>1, <5>1
      <4>2. CASE k = n
        <5>1. start <= f.to /\ f.to <= j /\ j <= Len(encoded)
          BY <1>10, <1>11, <1>14
        <5> QED
          BY <2>1, <2>3, <2>5, <2>6, <2>7, <4>2, <5>1
      <4>3. CASE k # n + 1 /\ k # n
        <5>1. k \in 1..n
          BY <1>6, <4>3
        <5>2. frames[k].start <= At(k) /\ At(k) <= frames[k].end /\ frames[k].end <= Len(encoded)
          BY <1>3, <1>5, <5>1 DEF Nested
        <5> QED
          BY <2>1, <2>5, <2>6, <4>3, <5>1, <5>2
      <4> QED
        BY <4>1, <4>2, <4>3
    <3>2. position' \in Nat /\ Len(encoded') \in 1..MaxModelBytes /\ Len(frames') \in 1..(MaxDepth + 1)
      BY <1>5, <1>6, <1>8, <1>10, <1>14, <2>1, <2>3, <2>5
    <3> QED
      BY <2>3, <2>5, <3>1, <3>2 DEF Nested
  <2>9. PICK L, M, low : L = Left /\ M = Left' /\ low = fields
    OBVIOUS
  <2>10. ASSUME NEW k \in 1..(n + 1)
         PROVE  M[k] = Rest(At(k)', frames'[k].end, frames'[k].schema, k - 1)
    BY <2>2, <2>5, <2>9 DEF Left, Rest
  <2>11. M[n + 1] = Rest(f.from, f.to, p[2], d + 1)
    <3>1. (n + 1) - 1 = d + 1 /\ n + 1 \in 1..(n + 1)
      BY <1>6
    <3> QED
      BY <2>4, <2>5, <2>6, <2>10, <3>1
  <2>12. M[n] = Rest(f.to, j, s, d)
    <3>1. n - 1 = d /\ n \in 1..(n + 1) /\ n \in 1..n
      BY <1>6
    <3> QED
      BY <2>5, <2>6, <2>7, <2>10, <3>1
  <2>13. \A k \in 1..(n - 1) : M[k] = L[k]
    <3> SUFFICES ASSUME NEW k \in 1..(n - 1) PROVE M[k] = L[k]
      OBVIOUS
    <3>1. k \in 1..n /\ k # n /\ k \in 1..(n + 1)
      BY <1>6
    <3>2. L[k] = Rest(At(k), frames[k].end, frames[k].schema, k - 1)
      BY <1>3, <2>9, <3>1 DEF Left
    <3> QED
      BY <2>5, <2>6, <2>10, <3>1, <3>2
  <2>14. M[n] \subseteq Nat /\ M[n + 1] \subseteq Nat
    <3>1. d + 1 \in 0..(MaxDepth + 1)
      BY <1>10
    <3> QED
      BY <1>5, <1>10, <1>11, <1>14, <2>11, <2>12, <3>1, RestIsNat
  <2>15. \A x : x \in L[n] <=> \E a \in M[n + 1] : \E b \in M[n] : x = 1 + a + b
    BY <1>6, <1>9, <1>14, <2>9, <2>11, <2>12
  <2>16. low \in Nat
    BY <1>5, <2>9
  <2>17. \A c : Total(n, L, low, c) <=> Total(n + 1, M, low + 1, c)
    BY <1>6, <2>13, <2>14, <2>15, <2>16, TotalNests
  <2>18. Counted'
    <3>1. \A c : c \in Scan!FieldCounts <=> Total(n, L, low, c)
      BY <1>3, <1>5, <2>9 DEF Counted
    <3>2. \A c : c \in Scan!FieldCounts <=> Total(n + 1, M, low + 1, c)
      BY <2>17, <3>1
    <3> QED
      BY <2>1, <2>2, <2>5, <2>9, <3>2, CountedNext
  <2>19. Scan!ScanIsExact'
    BY <1>5, <2>1 DEF Scan!ScanIsExact, Scan!Codes
  <2> QED
    BY <1>5, <2>1, <2>8, <2>18, <2>19 DEF ScanInv
<1> QED
  BY <1>8, <1>12, <1>13, <1>14

\* An ended call has no fields left.
LEMMA LeaveHolds ==
    ASSUME ScanInv, Scan!Leave
    PROVE  ScanInv'
<1>1. PICK n, L, M, low : n = Len(frames) /\ L = Left /\ M = Left' /\ low = fields
  OBVIOUS
<1>2. /\ encoded \in Models /\ BytesOK /\ Nested /\ Counted /\ verdict = "scanning"
      /\ low \in Nat /\ low <= MaxFields /\ MaxFields \in Nat /\ Len(encoded) \in 1..MaxModelBytes
      /\ frames \in Seq(Frames) /\ MaxDepth \in Nat
  BY <1>1, BytesAreOK, ScanAssumption DEF ScanInv, Scan!Leave, Nested, Scan!ScanInputs
<1>3. n \in Nat \ {0} /\ n \in 1..n /\ n <= MaxDepth + 1
  BY <1>1, <1>2 DEF Nested
<1>4. /\ encoded' = encoded /\ position' = position /\ fields' = fields
      /\ frames' = SubSeq(frames, 1, n - 1)
      /\ verdict' = IF n = 1 THEN "ok" ELSE "scanning"
      /\ position >= frames[n].end
  BY <1>1 DEF Scan!Leave, Scan!Top
<1>5. Scan!Messages' = Scan!Messages /\ Scan!FieldCounts' = Scan!FieldCounts
  BY <1>4, MessagesKept
<1>6. /\ frames' \in Seq(Frames) /\ Len(frames') = n - 1
      /\ \A k \in 1..(n - 1) : frames'[k] = frames[k]
  BY <1>1, <1>2, <1>3, <1>4
<1>7. L[n] = {0} /\ position = frames[n].end /\ position \in Nat
  <2>1. /\ frames[n].schema \in Scan!Schemas /\ frames[n].end \in 0..Len(encoded) /\ At(n) <= frames[n].end
        /\ n - 1 \in 0..MaxDepth /\ n - 1 \in 0..(MaxDepth + 1)
        /\ L[n] = Rest(At(n), frames[n].end, frames[n].schema, n - 1)
    BY <1>1, <1>2, <1>3, FramesAre
  <2>2. At(n) = position /\ position \in Nat
    BY <1>1, <1>2 DEF At, Nested
  <2>3. PICK e : e = frames[n].end
    OBVIOUS
  <2>4. e \in Nat /\ position <= e /\ position >= e
    BY <1>4, <2>1, <2>2, <2>3
  <2>5. position = e
    BY <2>2, <2>4
  <2>6. Rest(e, e, frames[n].schema, n - 1) = {0}
    <3>1. n - 1 <= MaxDepth
      BY <2>1
    <3> QED
      BY <1>2, <2>1, <2>3, <3>1, RestOfNothing
  <2> QED
    BY <2>1, <2>2, <2>3, <2>5, <2>6
<1>8. \A k \in 1..(n - 1) : At(k)' = At(k)
  <2> SUFFICES ASSUME NEW k \in 1..(n - 1) PROVE At(k)' = At(k)
    OBVIOUS
  <2>1. At(k) = frames[k + 1].end
    BY <1>1, <1>3 DEF At
  <2>2. CASE k = n - 1
    <3>1. k + 1 = n
      BY <1>3, <2>2
    <3> QED
      BY <1>4, <1>6, <1>7, <2>1, <2>2, <3>1 DEF At
  <2>3. CASE k # n - 1
    <3>1. k + 1 \in 1..(n - 1)
      BY <1>3, <2>3
    <3> QED
      BY <1>6, <2>1, <2>3, <3>1 DEF At
  <2> QED
    BY <2>2, <2>3
<1>9. \A k \in 1..(n - 1) : M[k] = L[k]
  <2> SUFFICES ASSUME NEW k \in 1..(n - 1) PROVE M[k] = L[k]
    OBVIOUS
  <2>1. M[k] = Rest(At(k)', frames'[k].end, frames'[k].schema, k - 1)
    BY <1>1, <1>5, <1>6 DEF Left, Rest
  <2>2. k \in 1..n
    BY <1>3
  <2>3. L[k] = Rest(At(k), frames[k].end, frames[k].schema, k - 1)
    BY <1>1, <2>2 DEF Left
  <2> QED
    BY <1>6, <1>8, <2>1, <2>3
<1>10. \A c : c \in Scan!FieldCounts <=> Total(n - 1, M, low, c)
  <2>1. \A c : c \in Scan!FieldCounts <=> Total(n, L, low, c)
    BY <1>1, <1>2 DEF Counted
  <2>2. \A c : Total(n, L, low, c) <=> Total(n - 1, M, low, c)
    BY <1>2, <1>3, <1>7, <1>9, TotalReturns
  <2> QED
    BY <2>1, <2>2
<1>11. CASE n = 1
  <2>1. low \in Scan!FieldCounts
    <3>1. PICK t : t = [k \in 1..1 |-> low]
      OBVIOUS
    <3>2. t \in [1..1 -> Nat] /\ t[1] = low
      BY <1>2, <3>1
    <3>3. Adds(t, 0, M, low, low)
      BY <3>2 DEF Adds
    <3>4. Total(0, M, low, low) /\ n - 1 = 0
      BY <1>11, <3>3 DEF Total
    <3> QED
      BY <1>10, <3>4
  <2>2. Scan!ScanIsExact'
    BY <1>2, <1>4, <1>5, <2>1 DEF Scan!ScanIsExact, Scan!Codes
  <2> QED
    BY <1>2, <1>4, <1>11, <2>2 DEF ScanInv
<1>12. CASE n # 1
  <2>1. Nested'
    <3>1. ASSUME NEW k \in 1..(n - 1)
          PROVE  /\ frames'[k].start <= At(k)' /\ At(k)' <= frames'[k].end
                 /\ frames'[k].end <= Len(encoded')
      <4>1. k \in 1..Len(frames)
        BY <1>1, <1>3
      <4>2. frames[k].start <= At(k) /\ At(k) <= frames[k].end /\ frames[k].end <= Len(encoded)
        BY <1>2, <4>1 DEF Nested
      <4> QED
        BY <1>4, <1>6, <1>8, <4>2
    <3>2. n - 1 \in 1..(MaxDepth + 1)
      BY <1>2, <1>3, <1>12
    <3>3. fields' \in 0..MaxFields
      BY <1>1, <1>2, <1>4
    <3> QED
      BY <1>2, <1>4, <1>6, <1>7, <3>1, <3>2, <3>3 DEF Nested
  <2>2. Counted'
    BY <1>1, <1>4, <1>5, <1>6, <1>10, CountedNext
  <2>3. Scan!ScanIsExact'
    BY <1>4, <1>12 DEF Scan!ScanIsExact, Scan!Codes
  <2> QED
    BY <1>2, <1>4, <1>12, <2>1, <2>2, <2>3 DEF ScanInv
<1> QED
  BY <1>11, <1>12

\* Nothing is scanned at first.
LEMMA ScanInitHolds == Scan!Init => ScanInv
BY DEF Scan!Init, ScanInv, Scan!ScanIsExact, Scan!Codes

\* Every step of the scanner.
LEMMA ScanNextHolds == ScanInv /\ [Scan!Next]_Scan!scan => ScanInv'
<1> SUFFICES ASSUME ScanInv, [Scan!Next]_Scan!scan PROVE ScanInv'
  OBVIOUS
<1>1. CASE Scan!Next
  BY <1>1, InspectHolds, RejectKeyHolds, SkipScalarHolds, SkipBytesHolds, EnterHolds, LeaveHolds
     DEF Scan!Next
<1>2. CASE UNCHANGED Scan!scan
  <2>1. /\ encoded' = encoded /\ frames' = frames /\ position' = position /\ fields' = fields
        /\ verdict' = verdict
    BY <1>2 DEF Scan!scan
  <2>2. Scan!Messages' = Scan!Messages /\ Scan!FieldCounts' = Scan!FieldCounts
    BY <2>1, MessagesKept
  <2>3. \A k : At(k)' = At(k)
    BY <2>1 DEF At
  <2>4. Left' = Left
    BY <2>1, <2>2, <2>3 DEF Left, Rest
  <2>5. Nested' <=> Nested
    BY <2>1, <2>3 DEF Nested
  <2>6. Counted' <=> Counted
    BY <2>1, <2>2, <2>4, CountedNext DEF Counted
  <2>7. Scan!ScanIsExact' <=> Scan!ScanIsExact
    BY <2>1, <2>2 DEF Scan!ScanIsExact
  <2> QED
    BY <2>1, <2>5, <2>6, <2>7 DEF ScanInv
<1> QED
  BY <1>1, <1>2

\* The inductive invariant of scan_message and of the calls it makes of itself, for any
\* bytes and any limits: each slice lies in the one around it, no call is deeper than the
\* limit or reads beyond its slice, the budget is kept, and a model has as many fields as
\* were counted and as its open slices have left.
THEOREM ScanInvariant == Scan!Spec => []ScanInv
BY ScanInitHolds, ScanNextHolds, PTL DEF Scan!Spec

\* Of inspect_onnx_model: the preflight accepts a model if and only if its bytes are a
\* message of the schema within the limits, wherever its slices, lengths and overlong
\* numbers end.
THEOREM ScanSafe == Scan!Spec => []ScanIsExact
<1>1. ScanInv => ScanIsExact
  BY DEF ScanInv, ScanIsExact
<1> QED
  BY <1>1, ScanInvariant, PTL
==============================================================================
