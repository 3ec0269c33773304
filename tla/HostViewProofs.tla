--------------------------- MODULE HostViewProofs ---------------------------
(***************************************************************************)
(* What is shown of a gateway: the replies of the web UI, for any number of *)
(* POSTs, hosts and lines, and the completions that are put together from a *)
(* stream, for any message.                                                *)
(***************************************************************************)
EXTENDS WebUi, StreamAssembly, FiniteSetTheorems, InductionFacts

(* The web UI.                                                             *)

\* The hosts of the first n lines, each once.
ListsOnce(items, lines, n) ==
    /\ items \in Seq(Hosts)
    /\ \A i, j \in DOMAIN items : items[i] = items[j] => i = j
    /\ \A h \in Hosts : (\E i \in DOMAIN items : items[i] = h) <=> \E k \in 1 .. n : lines[k] = h

\* A list of hosts stays one when a line is added.
LEMMA WithLineType ==
  ASSUME NEW items \in Seq(Hosts), NEW h \in Hosts \cup {NoHost}
  PROVE  WithLine(items, h) \in Seq(Hosts)
BY DEF WithLine

\* The lists after each line are defined, one by one.
LEMMA ListingSteps ==
  ASSUME NEW lines \in Seq(Hosts \cup {NoHost})
  PROVE  /\ \A i \in 0 .. Len(lines) : Listing(lines)[i] \in Seq(Hosts)
         /\ Listing(lines)[0] = <<>>
         /\ \A i \in 1 .. Len(lines) : Listing(lines)[i] = WithLine(Listing(lines)[i - 1], lines[i])
<1> DEFINE N == Len(lines)
           V == Seq(Hosts)
           with == [i \in 1 .. N |-> [s \in V |-> WithLine(s, lines[i])]]
           Fix(f) == f = [i \in 0 .. N |-> IF i = 0 THEN <<>> ELSE WithLine(f[i - 1], lines[i])]
<1>1. N \in Nat /\ \A i \in 1 .. N : lines[i] \in Hosts \cup {NoHost} OBVIOUS
<1>2. <<>> \in V OBVIOUS
<1>3. with \in [1 .. N -> [V -> V]] BY <1>1, WithLineType
<1>4. PICK s \in [0 .. N -> V] : Iterates(s, N, <<>>, with)
  <2> HIDE DEF N, V, with
  <2> QED BY <1>1, <1>2, <1>3, Iteration
<1>5. \A i \in 1 .. N : s[i - 1] \in V /\ s[i] = WithLine(s[i - 1], lines[i])
  <2> TAKE i \in 1 .. N
  <2>1. i - 1 \in 0 .. N BY <1>1
  <2>2. s[i - 1] \in V BY <2>1
  <2> QED BY <1>4, <2>2 DEF Iterates
<1>6. Fix(s)
  <2>1. s = [i \in 0 .. N |-> s[i]] OBVIOUS
  <2>2. \A i \in 0 .. N : s[i] = IF i = 0 THEN <<>> ELSE WithLine(s[i - 1], lines[i])
    BY <1>1, <1>4, <1>5 DEF Iterates
  <2> QED BY <2>1, <2>2
<1>7. Listing(lines) = CHOOSE f : Fix(f) BY DEF Listing
<1>8. Fix(Listing(lines))
  <2> HIDE DEF Fix
  <2> QED BY <1>6, <1>7
<1> HIDE DEF N, V
<1>9. \A i \in 0 .. N : Listing(lines)[i] = IF i = 0 THEN <<>>
                                             ELSE WithLine(Listing(lines)[i - 1], lines[i])
  BY <1>8
<1> DEFINE T == {i \in 0 .. N : Listing(lines)[i] \in V}
<1>10. 0 \in T BY <1>1, <1>2, <1>9
<1>11. ASSUME NEW k \in 0 .. N, k \in T, k < N PROVE k + 1 \in T
  <2>1. k + 1 \in 0 .. N /\ k + 1 \in 1 .. N /\ k + 1 # 0 /\ k + 1 - 1 = k BY <1>1, <1>11
  <2>2. Listing(lines)[k + 1] = WithLine(Listing(lines)[k], lines[k + 1])
    <3>1. \A i \in 0 .. N : i # 0 => Listing(lines)[i] = WithLine(Listing(lines)[i - 1], lines[i])
      BY <1>9
    <3> QED BY <2>1, <3>1
  <2> QED BY <1>1, <1>11, <2>1, <2>2, WithLineType DEF N, V
<1>12. \A i \in 0 .. N : i \in T
  <2> HIDE DEF T
  <2> QED BY <1>1, <1>10, <1>11, Induction
<1>13. \A i \in 1 .. N : i \in 0 .. N /\ i # 0 BY <1>1
<1>14. 0 \in 0 .. N BY <1>1
<1> QED BY <1>9, <1>12, <1>13, <1>14 DEF N, V

\* What the pasted lines name is in the list, each host once.
LEMMA ItemsListOnce ==
  ASSUME NEW req \in PostRequest
  PROVE  ListsOnce(Items(req), req.lines, Len(req.lines))
<1> DEFINE lines == req.lines
           N == Len(lines)
           T == {n \in 0 .. N : ListsOnce(Listing(lines)[n], lines, n)}
<1>1. lines \in Seq(Hosts \cup {NoHost}) /\ N \in Nat BY DEF PostRequest
<1> HIDE DEF lines
<1>2. 0 \in T
  <2>1. Listing(lines)[0] = <<>> /\ 0 \in 0 .. N BY <1>1, ListingSteps
  <2>2. ListsOnce(<<>>, lines, 0)
    <3>1. <<>> \in Seq(Hosts) /\ DOMAIN <<>> = {} OBVIOUS
    <3>2. \A j \in 1 .. 0 : FALSE OBVIOUS
    <3> QED BY <3>1, <3>2 DEF ListsOnce
  <2> QED BY <2>1, <2>2
<1>3. ASSUME NEW k \in 0 .. N, k \in T, k < N PROVE k + 1 \in T
  <2> DEFINE items == Listing(lines)[k]
             h == lines[k + 1]
  <2>1. k + 1 \in 1 .. N /\ k + 1 \in 0 .. N /\ k + 1 - 1 = k /\ k \in Nat BY <1>1, <1>3
  <2>2. Listing(lines)[k + 1] = WithLine(items, h)
    <3>1. \A i \in 1 .. N : Listing(lines)[i] = WithLine(Listing(lines)[i - 1], lines[i])
      BY <1>1, ListingSteps
    <3> QED BY <2>1, <3>1
  <2>3. h \in Hosts \cup {NoHost} BY <1>1, <2>1
  <2>4. ListsOnce(items, lines, k) BY <1>3
  <2>5. \A j \in 1 .. k + 1 : j \in 1 .. k \/ j = k + 1 BY <2>1
  <2>6. \A j \in 1 .. k : j \in 1 .. k + 1 BY <2>1
  <2> HIDE DEF items
  <2>7. ListsOnce(WithLine(items, h), lines, k + 1)
    <3>1. CASE h = NoHost \/ Contains(items, h)
      <4>1. WithLine(items, h) = items BY <3>1 DEF WithLine
      <4>2. h \in Hosts => \E i \in DOMAIN items : items[i] = h
        BY <2>4, <3>1, WebUiAssumption DEF Contains, ListsOnce
      <4>3. \A g \in Hosts : (\E j \in 1 .. k + 1 : lines[j] = g)
                                <=> (\E j \in 1 .. k : lines[j] = g) \/ g = h
        BY <2>1, <2>5, <2>6
      <4> QED BY <2>4, <4>1, <4>2, <4>3 DEF ListsOnce
    <3>2. CASE ~ (h = NoHost \/ Contains(items, h))
      <4> DEFINE new == WithLine(items, h)
      <4>1. new = Append(items, h) /\ h \in Hosts BY <2>3, <3>2 DEF WithLine
      <4>2. items \in Seq(Hosts) BY <2>4 DEF ListsOnce
      <4>3. \A i \in DOMAIN items : items[i] # h BY <3>2, <4>2 DEF Contains
      <4> HIDE DEF new, h
      <4>4. /\ new \in Seq(Hosts) /\ Len(items) \in Nat
            /\ DOMAIN new = 1 .. Len(items) + 1 /\ DOMAIN items = 1 .. Len(items)
            /\ \A i \in DOMAIN items : new[i] = items[i]
            /\ new[Len(items) + 1] = h
        BY <4>1, <4>2
      <4>5. \A i \in DOMAIN new : i \in DOMAIN items \/ i = Len(items) + 1 BY <4>4
      <4>6. \A i \in DOMAIN items : i \in DOMAIN new BY <4>4
      <4>7. \A i, j \in DOMAIN new : new[i] = new[j] => i = j
        BY <2>4, <4>3, <4>4, <4>5 DEF ListsOnce
      <4>8. ASSUME NEW g \in Hosts
            PROVE  (\E i \in DOMAIN new : new[i] = g) <=> \E j \in 1 .. k + 1 : lines[j] = g
        <5>1. (\E i \in DOMAIN new : new[i] = g) <=> (\E i \in DOMAIN items : items[i] = g) \/ g = h
          <6>1. Len(items) + 1 \in DOMAIN new BY <4>4
          <6> QED BY <4>4, <4>5, <4>6, <6>1
        <5>2. (\E j \in 1 .. k + 1 : lines[j] = g) <=> (\E j \in 1 .. k : lines[j] = g) \/ g = h
          BY <2>1, <2>5, <2>6 DEF h
        <5> QED BY <2>4, <5>1, <5>2 DEF ListsOnce
      <4>9. ListsOnce(new, lines, k + 1) BY <4>4, <4>7, <4>8 DEF ListsOnce
      <4> QED BY <4>9 DEF new
    <3> QED BY <3>1, <3>2
  <2> QED BY <2>1, <2>2, <2>7
<1>4. \A n \in 0 .. N : n \in T
  <2> HIDE DEF T, N
  <2> QED BY <1>1, <1>2, <1>3, Induction
<1>5. N \in T BY <1>1, <1>4
<1> QED BY <1>5 DEF Items, lines

\* What a POST has touched: the hosts it has results for, and the one it waits for.
Asked(p) ==
    {Items(request[p])[i] : i \in {i \in DOMAIN Items(request[p]) :
        i <= Len(results[p]) \/ (thread[p] = "waiting" /\ i = Len(results[p]) + 1)}}

\* The results are of the first hosts in the list, one after the other.
PostInv(p) ==
    /\ thread[p] \in {"idle", "calling", "waiting", "replied"}
    /\ request[p] \in PostRequest
    /\ results[p] \in Seq([host : Hosts, ok : BOOLEAN])
    /\ status[p] \in Nat
    /\ Len(results[p]) <= Len(Items(request[p]))
    /\ \A i \in DOMAIN results[p] : results[p][i].host = Items(request[p])[i]
    /\ thread[p] = "idle" => results[p] = <<>> /\ status[p] = 0
    /\ thread[p] \in {"calling", "waiting"} =>
          status[p] = 0 /\ Len(results[p]) < Len(Items(request[p]))
    /\ status[p] = 200 => Len(results[p]) = Len(Items(request[p]))
    /\ status[p] \notin {0, 200} => results[p] = <<>> /\ thread[p] = "replied"
    /\ \A h \in Hosts : <<p, h>> \in inFlight \cup applied => h \in Asked(p)
    /\ \A i \in DOMAIN results[p] :
          results[p][i].ok => /\ <<p, results[p][i].host>> \in applied
                              /\ <<p, results[p][i].host>> \notin inFlight

\* The inductive invariant of the POSTs.
UiInv ==
    /\ request \in [Posts -> PostRequest] /\ DOMAIN thread = Posts
    /\ DOMAIN results = Posts /\ DOMAIN status = Posts
    /\ \A p \in Posts : PostInv(p)

\* The list of a POST, and the host whose turn it is.
LEMMA ItemsType ==
  ASSUME NEW req \in PostRequest
  PROVE  /\ Items(req) \in Seq(Hosts)
         /\ \A i, j \in DOMAIN Items(req) : Items(req)[i] = Items(req)[j] => i = j
         /\ DOMAIN Items(req) = 1 .. Len(Items(req)) /\ Len(Items(req)) \in Nat
<1>1. ListsOnce(Items(req), req.lines, Len(req.lines)) BY ItemsListOnce
<1>2. Items(req) \in Seq(Hosts) BY <1>1 DEF ListsOnce
<1> QED BY <1>1, <1>2 DEF ListsOnce

\* A POST that nothing is done about stays as it is, though calls may be lost.
LEMMA PostStays ==
  ASSUME NEW q, PostInv(q), request'[q] = request[q], results'[q] = results[q],
         thread'[q] = thread[q], status'[q] = status[q],
         \A h \in Hosts : /\ <<q, h>> \in applied' <=> <<q, h>> \in applied
                          /\ <<q, h>> \in inFlight' => <<q, h>> \in inFlight
  PROVE  PostInv(q)'
<1>1. Asked(q)' = Asked(q) BY DEF Asked
<1>2. \A i \in DOMAIN results[q] : results[q][i].host \in Hosts
  <2>1. results[q] \in Seq([host : Hosts, ok : BOOLEAN]) BY DEF PostInv
  <2> DEFINE R == [host : Hosts, ok : BOOLEAN]
  <2>2. \A i \in DOMAIN results[q] : results[q][i] \in R
    <3> HIDE DEF R
    <3>1. results[q] \in Seq(R) BY <2>1 DEF R
    <3> QED BY <3>1
  <2> QED BY <2>2
<1>3. \A h \in Hosts : <<q, h>> \in inFlight' \cup applied' => h \in Asked(q)' BY <1>1 DEF PostInv
<1>4. \A i \in DOMAIN results'[q] :
         results'[q][i].ok => /\ <<q, results'[q][i].host>> \in applied'
                              /\ <<q, results'[q][i].host>> \notin inFlight'
  BY <1>2 DEF PostInv
<1> QED BY <1>3, <1>4 DEF PostInv

\* A call that has returned leaves one more result.
LEMMA NotedStep ==
  ASSUME UiInv, NEW p \in Posts, thread[p] \in {"calling", "waiting"}, NEW ok \in BOOLEAN,
         Noted(p, ok), request' = request,
         \A h \in Hosts : /\ <<p, h>> \in inFlight' => <<p, h>> \in inFlight
                          /\ <<p, h>> \in applied => <<p, h>> \in applied'
                          /\ <<p, h>> \in applied' => <<p, h>> \in applied \/ h = Item(p),
         ok => <<p, Item(p)>> \in applied' /\ <<p, Item(p)>> \notin inFlight'
  PROVE  PostInv(p)'
<1> DEFINE items == Items(request[p])
           done == results[p]
           n == Len(done)
           new == [host |-> items[n + 1], ok |-> ok]
<1>1. PostInv(p) /\ request[p] \in PostRequest BY DEF UiInv, PostInv
<1>2. /\ items \in Seq(Hosts) /\ DOMAIN items = 1 .. Len(items) /\ Len(items) \in Nat
      /\ \A i, j \in DOMAIN items : items[i] = items[j] => i = j
  BY <1>1, ItemsType
<1>3. /\ done \in Seq([host : Hosts, ok : BOOLEAN]) /\ n \in Nat /\ n < Len(items)
      /\ \A i \in DOMAIN done : done[i].host = items[i]
      /\ \A i \in DOMAIN done : done[i].ok => <<p, done[i].host>> \in applied /\ <<p, done[i].host>> \notin inFlight
      /\ status[p] = 0
  <2>1. done \in Seq([host : Hosts, ok : BOOLEAN]) BY <1>1 DEF PostInv
  <2>2. n \in Nat BY <2>1
  <2>3. n < Len(items) /\ status[p] = 0 BY <1>1 DEF PostInv
  <2>4. \A i \in DOMAIN done : done[i].host = items[i] BY <1>1 DEF PostInv
  <2>5. \A i \in DOMAIN done : done[i].ok => <<p, done[i].host>> \in applied /\ <<p, done[i].host>> \notin inFlight
    BY <1>1 DEF PostInv
  <2> QED BY <2>1, <2>2, <2>3, <2>4, <2>5
<1>4. Item(p) = items[n + 1] BY DEF Item
<1>5. results'[p] = Append(done, new)
  BY <1>4 DEF Noted, UiInv
<1>6. /\ n + 1 < Len(items) => thread'[p] = "calling" /\ status'[p] = 0
      /\ ~ (n + 1 < Len(items)) => thread'[p] = "replied" /\ status'[p] = 200
  <2>1. Len(results'[p]) = n + 1 BY <1>3, <1>5
  <2>2. IF n + 1 < Len(items)
        THEN thread' = [thread EXCEPT ![p] = "calling"] /\ status' = status
        ELSE thread' = [thread EXCEPT ![p] = "replied"] /\ status' = [status EXCEPT ![p] = 200]
    BY <2>1 DEF Noted
  <2> QED BY <1>3, <2>2 DEF UiInv
<1>7. request'[p] = request[p] /\ Items(request'[p]) = items OBVIOUS
<1>8. n + 1 \in DOMAIN items /\ items[n + 1] \in Hosts BY <1>2, <1>3
<1>9. new \in [host : Hosts, ok : BOOLEAN] /\ new.host = items[n + 1] /\ new.ok = ok BY <1>8
<1> HIDE DEF items, done, n, new
<1>10. /\ results'[p] \in Seq([host : Hosts, ok : BOOLEAN]) /\ Len(results'[p]) = n + 1
       /\ DOMAIN results'[p] = 1 .. n + 1 /\ DOMAIN done = 1 .. n
       /\ \A i \in DOMAIN done : results'[p][i] = done[i]
       /\ results'[p][n + 1] = new
  BY <1>3, <1>5, <1>9 DEF n
<1>11. \A i \in 1 .. n + 1 : i \in 1 .. n \/ i = n + 1 BY <1>3
<1>12. \A i \in DOMAIN results'[p] : results'[p][i].host = items[i] BY <1>3, <1>9, <1>10, <1>11
<1>13. \A i \in DOMAIN results'[p] : i \in DOMAIN items BY <1>2, <1>3, <1>10
<1>14. \A i \in DOMAIN results'[p] :
         results'[p][i].ok => /\ <<p, results'[p][i].host>> \in applied'
                              /\ <<p, results'[p][i].host>> \notin inFlight'
  <2> TAKE i \in DOMAIN results'[p]
  <2>1. results'[p][i].host = items[i] /\ items[i] \in Hosts BY <1>2, <1>12, <1>13
  <2>2. CASE i \in 1 .. n BY <1>3, <1>10, <2>1, <2>2
  <2>3. CASE i = n + 1 BY <1>4, <1>9, <1>10, <2>3 DEF items, n, done
  <2> QED BY <1>10, <1>11, <2>2, <2>3
<1>15. Asked(p)' = {items[i] : i \in {i \in DOMAIN items : i <= n + 1}}
  <2>1. thread'[p] # "waiting" BY <1>6
  <2> QED BY <1>7, <1>10, <2>1 DEF Asked
<1>16. \A h \in Hosts : <<p, h>> \in inFlight' \cup applied' => h \in Asked(p)'
  <2> TAKE h \in Hosts
  <2> HAVE <<p, h>> \in inFlight' \cup applied'
  <2>1. <<p, h>> \in inFlight \cup applied \/ h = items[n + 1] BY <1>4
  <2>2. CASE h = items[n + 1] BY <1>3, <1>8, <1>15, <2>2
  <2>3. CASE <<p, h>> \in inFlight \cup applied
    <3>1. h \in Asked(p) BY <1>1, <2>3 DEF PostInv
    <3>2. PICK i \in DOMAIN items : h = items[i] /\ (i <= n \/ i = n + 1)
      BY <3>1 DEF Asked, items, n, done
    <3>3. i <= n + 1 BY <1>2, <1>3, <3>2
    <3> QED BY <1>15, <3>2, <3>3
  <2> QED BY <2>1, <2>2, <2>3
<1>17. /\ thread'[p] \in {"calling", "replied"} /\ status'[p] \in {0, 200}
       /\ thread'[p] = "calling" => n + 1 < Len(items) /\ status'[p] = 0
       /\ status'[p] = 200 => n + 1 = Len(items)
       /\ n + 1 <= Len(items)
  <2>1. Len(items) \in Nat
    <3>1. items \in Seq(Hosts) BY <1>2
    <3> QED BY <3>1
  <2>2. n + 1 <= Len(items) BY <1>3, <2>1
  <2>3. CASE n + 1 < Len(items)
    <3>1. thread'[p] = "calling" /\ status'[p] = 0 BY <1>6, <2>3
    <3> QED BY <2>2, <2>3, <3>1
  <2>4. CASE ~ (n + 1 < Len(items))
    <3>1. thread'[p] = "replied" /\ status'[p] = 200 BY <1>6, <2>4
    <3>2. n + 1 = Len(items) BY <1>3, <2>1, <2>2, <2>4
    <3> QED BY <2>2, <3>1, <3>2
  <2> QED BY <2>3, <2>4
<1> QED BY <1>1, <1>7, <1>10, <1>12, <1>14, <1>16, <1>17 DEF PostInv

\* The checks let a POST pass only if it has something to do.
LEMMA RefusalCodes ==
  ASSUME NEW req
  PROVE  /\ Refusal(req) \in {0, 400, 401, 403, 421}
         /\ Refusal(req) = 0 => Items(req) # <<>>
BY DEF Refusal

\* A new POST has touched nothing yet.
LEMMA PostStep ==
  ASSUME UiInv, NEW p \in Posts, NEW req \in Requests, do_POST(p, req)
  PROVE  UiInv'
<1>1. /\ thread[p] = "idle" /\ request' = [request EXCEPT ![p] = req]
      /\ status' = [status EXCEPT ![p] = Refusal(req)]
      /\ thread' = [thread EXCEPT ![p] = IF Refusal(req) = 0 THEN "calling" ELSE "replied"]
      /\ UNCHANGED <<gatewayUp, results, inFlight, applied>>
  BY DEF do_POST
<1>2. req \in PostRequest BY WebUiAssumption
<1>3. PostInv(p) BY DEF UiInv
<1>4. results[p] = <<>> /\ status[p] = 0 BY <1>1, <1>3 DEF PostInv
<1>5. Asked(p) = {}
  <2>1. \A i \in DOMAIN Items(request[p]) : ~ (i <= Len(results[p])) /\ thread[p] # "waiting"
    <3>1. request[p] \in PostRequest BY <1>3 DEF PostInv
    <3>2. DOMAIN Items(request[p]) = 1 .. Len(Items(request[p])) BY <3>1, ItemsType
    <3> QED BY <1>1, <1>4, <3>2
  <2> QED BY <2>1 DEF Asked
<1>6. PostInv(p)'
  <2>1. \A h \in Hosts : <<p, h>> \notin inFlight' \cup applied' BY <1>1, <1>3, <1>5 DEF PostInv
  <2>2. /\ request'[p] = req /\ results'[p] = <<>> /\ status'[p] = Refusal(req)
        /\ thread'[p] = IF Refusal(req) = 0 THEN "calling" ELSE "replied"
    BY <1>1, <1>4 DEF UiInv
  <2>3. /\ Len(Items(req)) \in Nat /\ Items(req) \in Seq(Hosts) BY <1>2, ItemsType
  <2>4. Refusal(req) = 0 => 0 < Len(Items(req)) BY <2>3, RefusalCodes
  <2>5. <<>> \in Seq([host : Hosts, ok : BOOLEAN]) /\ Len(<<>>) = 0 /\ DOMAIN <<>> = {} OBVIOUS
  <2>6. Refusal(req) \in Nat /\ Refusal(req) # 200 BY RefusalCodes
  <2>7. CASE Refusal(req) = 0 BY <1>2, <2>1, <2>2, <2>3, <2>4, <2>5, <2>7 DEF PostInv
  <2>8. CASE Refusal(req) # 0 BY <1>2, <2>1, <2>2, <2>3, <2>5, <2>6, <2>8 DEF PostInv
  <2> QED BY <2>7, <2>8
<1>7. ASSUME NEW q \in Posts, q # p PROVE PostInv(q)'
  <2>1. /\ request'[q] = request[q] /\ results'[q] = results[q]
        /\ thread'[q] = thread[q] /\ status'[q] = status[q]
    BY <1>1, <1>7 DEF UiInv
  <2> QED BY <1>1, <2>1, PostStays DEF UiInv
<1> QED BY <1>1, <1>2, <1>6, <1>7 DEF UiInv

\* A call that returns is one POST's business.
LEMMA NotedKeeps ==
  ASSUME UiInv, NEW p \in Posts, thread[p] \in {"calling", "waiting"}, NEW ok \in BOOLEAN,
         Noted(p, ok), request' = request,
         \A q \in Posts, h \in Hosts :
            /\ <<q, h>> \in inFlight' => <<q, h>> \in inFlight
            /\ <<q, h>> \in applied => <<q, h>> \in applied'
            /\ <<q, h>> \in applied' => <<q, h>> \in applied \/ (q = p /\ h = Item(p)),
         ok => <<p, Item(p)>> \in applied' /\ <<p, Item(p)>> \notin inFlight'
  PROVE  UiInv'
<1>1. PostInv(p)' BY NotedStep
<1>2. /\ DOMAIN thread' = Posts /\ DOMAIN results' = Posts /\ DOMAIN status' = Posts
      /\ \A q \in Posts : q # p => /\ thread'[q] = thread[q] /\ results'[q] = results[q]
                                   /\ status'[q] = status[q]
  BY DEF Noted, UiInv
<1>3. ASSUME NEW q \in Posts, q # p PROVE PostInv(q)' BY <1>2, <1>3, PostStays DEF UiInv
<1> QED BY <1>1, <1>2, <1>3 DEF UiInv

\* A call that is made is for the host whose turn it is.
LEMMA CallStep ==
  ASSUME UiInv, NEW p \in Posts, ControlCall(p)
  PROVE  UiInv'
<1>1. thread[p] = "calling" /\ UNCHANGED <<gatewayUp, request, applied>> BY DEF ControlCall
<1>2. CASE ~gatewayUp
  <2>1. Noted(p, FALSE) /\ inFlight' = inFlight BY <1>2 DEF ControlCall
  <2> QED BY <1>1, <2>1, NotedKeeps
<1>3. CASE gatewayUp
  <2> DEFINE items == Items(request[p])
             n == Len(results[p])
  <2>1. /\ inFlight' = inFlight \cup {<<p, Item(p)>>}
        /\ thread' = [thread EXCEPT ![p] = "waiting"]
        /\ results' = results /\ status' = status
    BY <1>3 DEF ControlCall
  <2>2. PostInv(p) /\ request[p] \in PostRequest BY DEF UiInv, PostInv
  <2>3. /\ items \in Seq(Hosts) /\ DOMAIN items = 1 .. Len(items) /\ Len(items) \in Nat
        /\ \A i, j \in DOMAIN items : items[i] = items[j] => i = j
    BY <2>2, ItemsType
  <2>4. n \in Nat /\ n < Len(items) /\ DOMAIN results[p] = 1 .. n
    <3>1. results[p] \in Seq([host : Hosts, ok : BOOLEAN]) BY <2>2 DEF PostInv
    <3> QED BY <1>1, <2>2, <3>1 DEF PostInv
  <2>5. Item(p) = items[n + 1] /\ n + 1 \in DOMAIN items BY <2>3, <2>4 DEF Item
  <2>6. thread'[p] = "waiting" BY <2>1 DEF UiInv
  <2>7. Asked(p)' = Asked(p) \cup {Item(p)}
    <3>1. Asked(p)' = {items[i] : i \in {i \in DOMAIN items : i <= n \/ i = n + 1}}
      BY <1>1, <2>1, <2>6 DEF Asked
    <3>2. Asked(p) = {items[i] : i \in {i \in DOMAIN items : i <= n}} BY <1>1 DEF Asked
    <3> HIDE DEF items, n
    <3> QED BY <2>5, <3>1, <3>2
  <2>8. \A h \in Hosts : <<p, h>> \in inFlight' \cup applied' => h \in Asked(p)'
    BY <1>1, <2>1, <2>2, <2>7 DEF PostInv
  <2>9. \A i \in DOMAIN results[p] :
           results[p][i].ok => /\ <<p, results[p][i].host>> \in applied'
                               /\ <<p, results[p][i].host>> \notin inFlight'
    <3> TAKE i \in DOMAIN results[p]
    <3>1. results[p][i].host = items[i] /\ i \in DOMAIN items /\ i # n + 1
      BY <2>2, <2>3, <2>4 DEF PostInv
    <3>2. items[i] # Item(p) BY <2>3, <2>5, <3>1
    <3>3. <<p, results[p][i].host>> # <<p, Item(p)>> BY <3>1, <3>2
    <3> QED BY <1>1, <2>1, <2>2, <3>3 DEF PostInv
  <2>10. PostInv(p)' BY <1>1, <2>1, <2>2, <2>4, <2>6, <2>8, <2>9 DEF PostInv
  <2>11. ASSUME NEW q \in Posts, q # p PROVE PostInv(q)'
    <3>1. thread'[q] = thread[q] BY <2>1, <2>11 DEF UiInv
    <3>2. \A h \in Hosts : <<q, h>> \in inFlight' => <<q, h>> \in inFlight BY <2>1, <2>11
    <3> QED BY <1>1, <2>1, <3>1, <3>2, PostStays DEF UiInv
  <2> QED BY <1>1, <2>1, <2>10, <2>11 DEF UiInv
<1> QED BY <1>2, <1>3

\* A call that is carried out may be one that nobody waits for.
LEMMA ServeStep ==
  ASSUME UiInv, NEW p \in Posts, NEW h \in Hosts, Serve(p, h)
  PROVE  UiInv'
<1>1. /\ <<p, h>> \in inFlight /\ inFlight' = inFlight \ {<<p, h>>}
      /\ applied' = IF h \in Refused THEN applied ELSE applied \cup {<<p, h>>}
      /\ UNCHANGED <<gatewayUp, request>>
  BY DEF Serve
<1>2. CASE thread[p] = "waiting" /\ Item(p) = h
  <2>1. Noted(p, h \notin Refused) BY <1>2 DEF Serve
  <2>2. (h \notin Refused) => <<p, Item(p)>> \in applied' /\ <<p, Item(p)>> \notin inFlight'
    BY <1>1, <1>2
  <2>3. \A q \in Posts, g \in Hosts :
            /\ <<q, g>> \in inFlight' => <<q, g>> \in inFlight
            /\ <<q, g>> \in applied => <<q, g>> \in applied'
            /\ <<q, g>> \in applied' => <<q, g>> \in applied \/ (q = p /\ g = Item(p))
    BY <1>1, <1>2
  <2>4. (h \notin Refused) \in BOOLEAN OBVIOUS
  <2> QED BY <1>1, <1>2, <2>1, <2>2, <2>3, <2>4, NotedKeeps
<1>3. CASE ~ (thread[p] = "waiting" /\ Item(p) = h)
  <2>1. UNCHANGED <<thread, results, status>> BY <1>3 DEF Serve
  <2>2. PostInv(p) BY DEF UiInv
  <2>3. h \in Asked(p) BY <1>1, <2>2 DEF PostInv
  <2>4. Asked(p)' = Asked(p) BY <1>1, <2>1 DEF Asked
  <2>5. \A g \in Hosts : <<p, g>> \in inFlight' \cup applied' => g \in Asked(p)'
    <3>1. \A g \in Hosts : <<p, g>> \in inFlight' \cup applied'
                              => <<p, g>> \in inFlight \cup applied \/ g = h
      BY <1>1
    <3> QED BY <2>2, <2>3, <2>4, <3>1 DEF PostInv
  <2>6. applied \subseteq applied' /\ inFlight' \subseteq inFlight BY <1>1
  <2>7. PostInv(p)' BY <1>1, <2>1, <2>2, <2>5, <2>6 DEF PostInv
  <2>8. ASSUME NEW q \in Posts, q # p PROVE PostInv(q)'
    <3>1. \A g \in Hosts : /\ <<q, g>> \in applied' <=> <<q, g>> \in applied
                           /\ <<q, g>> \in inFlight' => <<q, g>> \in inFlight
      BY <1>1, <2>8
    <3> QED BY <1>1, <2>1, <3>1, PostStays DEF UiInv
  <2> QED BY <1>1, <2>1, <2>7, <2>8 DEF UiInv
<1> QED BY <1>2, <1>3

\* What nobody's call changes.
LEMMA GatewayStep ==
  ASSUME UiInv, UNCHANGED <<request, thread, results, status, applied>>, inFlight' \subseteq inFlight
  PROVE  UiInv'
<1>1. ASSUME NEW q \in Posts PROVE PostInv(q)' BY PostStays DEF UiInv
<1> QED BY <1>1 DEF UiInv

\* The invariant of all POSTs.
LEMMA UiInvariant == WebUiSpec => []UiInv
<1>1. WebUiInit => UiInv
  <2> SUFFICES ASSUME WebUiInit PROVE UiInv OBVIOUS
  <2>1. Nobody \in PostRequest BY DEF Nobody, PostRequest
  <2>2. ASSUME NEW p \in Posts PROVE PostInv(p)
    <3>1. /\ request[p] = Nobody /\ thread[p] = "idle" /\ results[p] = <<>> /\ status[p] = 0
          /\ inFlight = {} /\ applied = {}
      BY DEF WebUiInit
    <3>2. <<>> \in Seq([host : Hosts, ok : BOOLEAN]) /\ Len(<<>>) = 0 /\ DOMAIN <<>> = {} OBVIOUS
    <3>3. Len(Items(Nobody)) \in Nat BY <2>1, ItemsType
    <3> QED BY <2>1, <3>1, <3>2, <3>3 DEF PostInv
  <2> QED BY <2>1, <2>2 DEF WebUiInit, UiInv
<1>2. UiInv /\ [WebUiNext]_uiVars => UiInv'
  <2> SUFFICES ASSUME UiInv, [WebUiNext]_uiVars PROVE UiInv' OBVIOUS
  <2>1. ASSUME NEW p \in Posts, NEW req \in Requests, do_POST(p, req) PROVE UiInv'
    BY <2>1, PostStep
  <2>2. ASSUME NEW p \in Posts, ControlCall(p) PROVE UiInv' BY <2>2, CallStep
  <2>3. ASSUME NEW p \in Posts, TimesOut(p) PROVE UiInv'
    BY <2>3, NotedKeeps DEF TimesOut
  <2>4. ASSUME NEW p \in Posts, NEW h \in Hosts, Serve(p, h) PROVE UiInv' BY <2>4, ServeStep
  <2>5. CASE GatewayStops BY <2>5, GatewayStep DEF GatewayStops
  <2>6. CASE GatewayStarts BY <2>6, GatewayStep DEF GatewayStarts
  <2>7. CASE UNCHANGED uiVars BY <2>7, GatewayStep DEF uiVars
  <2> QED BY <2>1, <2>2, <2>3, <2>4, <2>5, <2>6, <2>7, Zenon DEF WebUiNext
<1> QED BY <1>1, <1>2, PTL DEF WebUiSpec

\* For any number of POSTs and hosts: a host that is reported as set has been set,
\* and no call that is still under way can change it again.
THEOREM OkStaysFinal == WebUiSpec => []OkIsFinal
<1>1. UiInv => OkIsFinal BY DEF UiInv, PostInv, OkIsFinal
<1> QED BY <1>1, UiInvariant, PTL

\* For any pasted lines: a reply has a result for each host, once, and a POST that is
\* turned down has touched none.
THEOREM NamesEveryHost == WebUiSpec => []EveryHostNamed
<1>1. UiInv => EveryHostNamed
  <2> SUFFICES ASSUME UiInv, NEW p \in Posts
               PROVE  /\ status[p] = 200 =>
                           /\ {results[p][i].host : i \in DOMAIN results[p]}
                                = {h \in Hosts : Contains(request[p].lines, h)}
                           /\ IsInjective([i \in DOMAIN results[p] |-> results[p][i].host])
                      /\ status[p] \notin {0, 200} =>
                           \A h \in Hosts : <<p, h>> \notin applied \cup inFlight
    BY DEF EveryHostNamed
  <2> DEFINE items == Items(request[p])
             lines == request[p].lines
  <2>1. PostInv(p) /\ request[p] \in PostRequest BY DEF UiInv, PostInv
  <2>2. /\ items \in Seq(Hosts) /\ DOMAIN items = 1 .. Len(items)
        /\ \A i, j \in DOMAIN items : items[i] = items[j] => i = j
        /\ \A h \in Hosts : (\E i \in DOMAIN items : items[i] = h)
                               <=> \E k \in 1 .. Len(lines) : lines[k] = h
    BY <2>1, ItemsListOnce, ItemsType DEF ListsOnce
  <2>3. results[p] \in Seq([host : Hosts, ok : BOOLEAN])
        /\ \A i \in DOMAIN results[p] : results[p][i].host = items[i]
    BY <2>1 DEF PostInv
  <2> HIDE DEF items, lines
  <2>4. ASSUME status[p] = 200
        PROVE  /\ {results[p][i].host : i \in DOMAIN results[p]} = {h \in Hosts : Contains(lines, h)}
               /\ IsInjective([i \in DOMAIN results[p] |-> results[p][i].host])
    <3>1. DOMAIN results[p] = DOMAIN items
      <4>1. Len(results[p]) = Len(items) BY <2>1, <2>4 DEF PostInv, items
      <4> QED BY <2>2, <2>3, <4>1
    <3>2. {results[p][i].host : i \in DOMAIN results[p]} = {items[i] : i \in DOMAIN items}
      BY <2>3, <3>1
    <3>3. {items[i] : i \in DOMAIN items} = {h \in Hosts : Contains(lines, h)}
      BY <2>2 DEF Contains
    <3>4. IsInjective([i \in DOMAIN results[p] |-> results[p][i].host])
      BY <2>2, <2>3, <3>1 DEF IsInjective
    <3> QED BY <3>2, <3>3, <3>4
  <2>5. ASSUME status[p] \notin {0, 200}, NEW h \in Hosts
        PROVE  <<p, h>> \notin applied \cup inFlight
    <3>1. results[p] = <<>> /\ thread[p] = "replied" BY <2>1, <2>5 DEF PostInv
    <3>2. \A i \in DOMAIN items : i \in Nat /\ i > 0 BY <2>2
    <3>3. Asked(p) = {}
      <4>1. \A i \in DOMAIN Items(request[p]) : ~ (i <= Len(results[p])) BY <3>1, <3>2 DEF items
      <4> QED BY <3>1, <4>1 DEF Asked
    <3> QED BY <2>1, <3>3 DEF PostInv
  <2> QED BY <2>4, <2>5 DEF lines
<1> QED BY <1>1, UiInvariant, PTL

-----------------------------------------------------------------------------
(* Beginnings of sequences, and the i-th of a set of numbers.              *)

\* A beginning of a sequence, and the next element behind it.
LEMMA BeginningGrows ==
  ASSUME NEW V, NEW s \in Seq(V), NEW k \in Nat, k < Len(s)
  PROVE  /\ SubSeq(s, 1, k) \in Seq(V) /\ Len(SubSeq(s, 1, k)) = k
         /\ Append(SubSeq(s, 1, k), s[k + 1]) = SubSeq(s, 1, k + 1)
         /\ SubSeq(s, 1, k) \o <<s[k + 1]>> = SubSeq(s, 1, k + 1)
<1> DEFINE t == SubSeq(s, 1, k)
           u == SubSeq(s, 1, k + 1)
<1>1. /\ t \in Seq(V) /\ Len(t) = k /\ \A i \in 1 .. k : t[i] = s[i]
      /\ u \in Seq(V) /\ Len(u) = k + 1 /\ \A i \in 1 .. k + 1 : u[i] = s[i]
      /\ s[k + 1] \in V
  OBVIOUS
<1> HIDE DEF t, u
<1>2. Append(t, s[k + 1]) \in Seq(V) /\ Len(Append(t, s[k + 1])) = k + 1 BY <1>1
<1>3. \A i \in 1 .. k + 1 : Append(t, s[k + 1])[i] = u[i] BY <1>1
<1>4. Append(t, s[k + 1]) = u BY <1>1, <1>2, <1>3
<1>5. t \o <<s[k + 1]>> = Append(t, s[k + 1]) BY <1>1
<1> QED BY <1>1, <1>4, <1>5 DEF t, u

\* A beginning is a prefix, and the longest one is the whole.
LEMMA BeginningIsPrefix ==
  ASSUME NEW V, NEW s \in Seq(V), NEW k \in Nat, k <= Len(s)
  PROVE  IsPrefix(SubSeq(s, 1, k), s) /\ SubSeq(s, 1, Len(s)) = s
<1> DEFINE t == SubSeq(s, 1, k)
<1>1. t \in Seq(V) /\ Len(t) = k /\ \A i \in 1 .. k : t[i] = s[i] OBVIOUS
<1> HIDE DEF t
<1>2. SubSeq(t, 1, k) = t BY <1>1
<1>3. SubSeq(t, 1, Len(t)) = SubSeq(s, 1, Len(t)) BY <1>1, <1>2 DEF t
<1>4. SubSeq(s, 1, Len(s)) = s OBVIOUS
<1> QED BY <1>1, <1>3, <1>4 DEF IsPrefix, t

\* The i-th of a set of numbers is one of them, and i in the set of the first numbers.
LEMMA NthIsThere ==
  ASSUME NEW n \in Nat, NEW S \in SUBSET (1 .. n)
  PROVE  /\ IsFiniteSet(S) /\ Cardinality(S) \in Nat
         /\ \A i \in 1 .. Cardinality(S) : Nth(S, i) \in S
<1> DEFINE Below(k) == {m \in S : m <= k}
<1>1. IsFiniteSet(S) /\ \A k \in Nat : IsFiniteSet(Below(k))
  <2>1. IsFiniteSet(1 .. n) BY FS_Interval
  <2>2. S \subseteq 1 .. n /\ \A k \in Nat : Below(k) \subseteq 1 .. n OBVIOUS
  <2> HIDE DEF Below
  <2> QED BY <2>1, <2>2, FS_Subset
<1>2. Cardinality(S) \in Nat /\ \A k \in Nat : Cardinality(Below(k)) \in Nat
  <2> HIDE DEF Below
  <2> QED BY <1>1, FS_CardinalityType
<1>3. ASSUME NEW i \in 1 .. Cardinality(S) PROVE Nth(S, i) \in S
  <2> DEFINE T == {k \in 0 .. n : i <= Cardinality(Below(k))}
  <2>1. Below(n) = S /\ Below(0) = {}
    <3>1. \A m \in S : m \in 1 .. n OBVIOUS
    <3>2. \A m \in S : m <= n /\ ~ (m <= 0) BY <3>1
    <3> QED BY <3>2
  <2>2. n \in T
    <3>1. Below(n) = S /\ i <= Cardinality(S) BY <1>2, <2>1
    <3> HIDE DEF Below
    <3> QED BY <3>1
  <2>3. PICK k \in T : \A l \in T : k <= l
    <3>1. T \in SUBSET Nat /\ T # {}
      <4> HIDE DEF Below
      <4> QED BY <2>2
    <3> HIDE DEF T
    <3> QED BY <3>1, Least
  <2>4. k \in 0 .. n /\ k \in Nat /\ i <= Cardinality(Below(k)) BY <2>3
  <2>5. k # 0
    <3>1. Cardinality(Below(0)) = 0 BY <2>1, FS_EmptySet
    <3> HIDE DEF Below
    <3> QED BY <2>4, <3>1
  <2> DEFINE l == k - 1
  <2>6. l \in Nat /\ l \in 0 .. n /\ ~ (k <= l) /\ k = l + 1 BY <2>4, <2>5
  <2>7. l \notin T BY <2>3, <2>6
  <2>8. ~ (i <= Cardinality(Below(l))) BY <2>6, <2>7
  <2>9. Below(k) = IF k \in S THEN Below(l) \cup {k} ELSE Below(l)
    <3>1. \A m \in S : m <= k <=> m <= l \/ m = k BY <2>4, <2>6
    <3> QED BY <2>4, <2>6, <3>1
  <2>10. k \notin Below(l) BY <2>6
  <2> HIDE DEF Below, T, l
  <2>11. k \in S BY <2>4, <2>8, <2>9
  <2>12. Cardinality(Below(k)) = Cardinality(Below(l)) + 1
    BY <1>1, <2>6, <2>9, <2>10, <2>11, FS_AddElement
  <2>13. Cardinality(Below(k)) = i BY <1>2, <2>4, <2>6, <2>8, <2>12
  <2> QED BY <2>11, <2>13 DEF Nth, Below
<1> QED BY <1>1, <1>2, <1>3

\* In the numbers up to n the i-th is i.
LEMMA NthOfAll ==
  ASSUME NEW n \in Nat, NEW i \in 1 .. n
  PROVE  Nth(1 .. n, i) = i
<1>1. \A k \in 1 .. n : {m \in 1 .. n : m <= k} = 1 .. k OBVIOUS
<1>2. \A k \in 1 .. n : Cardinality(1 .. k) = k BY FS_Interval
<1>3. \A k \in 1 .. n : Cardinality({m \in 1 .. n : m <= k}) = k BY <1>1, <1>2
<1>4. Nth(1 .. n, i) = CHOOSE k \in 1 .. n : Cardinality({m \in 1 .. n : m <= k}) = i BY DEF Nth
<1> QED BY <1>3, <1>4

-----------------------------------------------------------------------------
(* The fold over the events, one event after the other.                    *)

\* Whatever its elements are.
IsSeq(s) == s \in Seq({s[i] : i \in DOMAIN s})

\* f says what has been collected after each event.
Collects(f, evs, anthropic) ==
    f = [i \in 0 .. Len(evs) |->
            IF i = 0 THEN Empty ELSE Added(f[i - 1], evs[i], anthropic)]

\* What the events come to.
CollectsTo(evs, anthropic, acc) ==
    /\ \E f : Collects(f, evs, anthropic)
    /\ \A f : Collects(f, evs, anthropic) => f[Len(evs)] = acc

\* An event more makes a sequence again, the same up to there.
LEMMA AppendIsSeq ==
  ASSUME NEW s, IsSeq(s), NEW e
  PROVE  /\ IsSeq(Append(s, e)) /\ Len(s) \in Nat /\ Len(Append(s, e)) = Len(s) + 1
         /\ DOMAIN s = 1 .. Len(s)
         /\ \A i \in 1 .. Len(s) : Append(s, e)[i] = s[i]
         /\ Append(s, e)[Len(s) + 1] = e
<1> DEFINE V == {s[i] : i \in DOMAIN s}
           t == Append(s, e)
           W == {t[i] : i \in DOMAIN t}
           U == V \cup {e}
<1>1. s \in Seq(U)
  <2>1. s \in Seq(V) BY DEF IsSeq
  <2> HIDE DEF V
  <2>2. s = [i \in 1 .. Len(s) |-> s[i]] /\ Len(s) \in Nat /\ \A i \in 1 .. Len(s) : s[i] \in U
    BY <2>1
  <2> HIDE DEF U
  <2> QED BY <2>2
<1> HIDE DEF V, U
<1>0. e \in U BY DEF U
<1>2. /\ Len(s) \in Nat /\ DOMAIN s = 1 .. Len(s) /\ Len(t) = Len(s) + 1
      /\ DOMAIN t = 1 .. Len(t)
      /\ \A i \in 1 .. Len(s) : t[i] = s[i]
      /\ t[Len(s) + 1] = e
      /\ t = [i \in 1 .. Len(t) |-> t[i]]
  <2>1. Len(s) \in Nat /\ DOMAIN s = 1 .. Len(s) BY <1>1
  <2>2. Len(t) = Len(s) + 1 BY <1>0, <1>1
  <2>3. \A i \in 1 .. Len(s) : t[i] = s[i] BY <1>0, <1>1
  <2>4. t[Len(s) + 1] = e BY <1>0, <1>1
  <2>5. t \in Seq(U) BY <1>0, <1>1
  <2>6. DOMAIN t = 1 .. Len(t) /\ t = [i \in 1 .. Len(t) |-> t[i]]
    <3> HIDE DEF t
    <3> QED BY <2>5
  <2> QED BY <2>1, <2>2, <2>3, <2>4, <2>6
<1> HIDE DEF t
<1>3. \A i \in 1 .. Len(t) : t[i] \in W BY <1>2
<1>4. Len(t) \in Nat BY <1>2
<1> HIDE DEF W
<1>5. t \in Seq(W) BY <1>2, <1>3, <1>4
<1> QED BY <1>2, <1>5 DEF IsSeq, t, W

\* What the events come to, with one event more.
LEMMA CollectsMore ==
  ASSUME NEW evs, IsSeq(evs), NEW ev, NEW anthropic \in BOOLEAN, NEW acc,
         CollectsTo(evs, anthropic, acc)
  PROVE  CollectsTo(Append(evs, ev), anthropic, Added(acc, ev, anthropic))
<1> DEFINE more == Append(evs, ev)
           n == Len(evs)
           Body(f, s, i) == IF i = 0 THEN Empty ELSE Added(f[i - 1], s[i], anthropic)
<1>1. /\ n \in Nat /\ Len(more) = n + 1
      /\ \A i \in 1 .. n : more[i] = evs[i]
      /\ more[n + 1] = ev
  BY AppendIsSeq
<1> HIDE DEF more, n
<1>2. ASSUME NEW f, NEW g, NEW s, NEW t, NEW i \in Nat,
             i > 0 => g[i - 1] = f[i - 1] /\ t[i] = s[i]
      PROVE  Body(g, t, i) = Body(f, s, i)
  <2>1. CASE i = 0 BY <2>1
  <2>2. CASE i > 0 BY <1>2, <2>2
  <2>3. i = 0 \/ i > 0 OBVIOUS
  <2> HIDE DEF Body
  <2> QED BY <2>1, <2>2, <2>3
<1>3. \A f, s : Collects(f, s, anthropic) <=> f = [i \in 0 .. Len(s) |-> Body(f, s, i)] BY DEF Collects
<1>4. ASSUME NEW f, NEW i, i = n + 1 PROVE Body(f, more, i) = Added(f[n], ev, anthropic)
  <2>1. i # 0 /\ i - 1 = n /\ more[i] = ev BY <1>1, <1>4
  <2> QED BY <2>1
<1> HIDE DEF Body
<1>5. 0 .. Len(more) = 0 .. n + 1 BY <1>1
<1>6. \A i \in 0 .. n : i \in Nat /\ i \in 0 .. n + 1 /\ (i > 0 => i - 1 \in 0 .. n /\ i - 1 \in 0 .. n + 1 /\ i \in 1 .. n)
  BY <1>1
<1>7. \A i \in 0 .. n + 1 : i \in 0 .. n \/ i = n + 1 BY <1>1
<1>8. n \in 0 .. n /\ n + 1 \in 0 .. n + 1 /\ n + 1 \notin 0 .. n BY <1>1
<1>9. PICK f : Collects(f, evs, anthropic) BY DEF CollectsTo
<1>10. f = [i \in 0 .. n |-> Body(f, evs, i)] BY <1>3, <1>9 DEF n
<1> DEFINE g == [i \in 0 .. n + 1 |-> IF i = n + 1 THEN Added(f[n], ev, anthropic) ELSE f[i]]
<1>11. \A i \in 0 .. n : g[i] = f[i] BY <1>6, <1>8
<1>12. g[n + 1] = Added(f[n], ev, anthropic) BY <1>8
<1>13. g = [i \in 0 .. n + 1 |-> Body(g, more, i)]
  <2>1. ASSUME NEW i \in 0 .. n + 1 PROVE g[i] = Body(g, more, i)
    <3> HIDE DEF g
    <3>1. CASE i = n + 1
      <4>1. Body(g, more, i) = Added(g[n], ev, anthropic) BY <1>4, <3>1
      <4> QED BY <1>8, <1>11, <1>12, <3>1, <4>1
    <3>2. CASE i # n + 1
      <4>1. i \in 0 .. n BY <1>7, <3>2
      <4>2. Body(g, more, i) = Body(f, evs, i) BY <1>1, <1>2, <1>6, <1>11, <4>1
      <4>3. f[i] = Body(f, evs, i) BY <1>10, <4>1
      <4> QED BY <1>11, <4>1, <4>2, <4>3
    <3> QED BY <3>1, <3>2
  <2>2. g = [i \in 0 .. n + 1 |-> g[i]] OBVIOUS
  <2> HIDE DEF g
  <2> QED BY <2>1, <2>2
<1>14. \E h : Collects(h, more, anthropic)
  <2> HIDE DEF g
  <2> QED BY <1>3, <1>5, <1>13
<1>15. ASSUME NEW h, Collects(h, more, anthropic) PROVE h[Len(more)] = Added(acc, ev, anthropic)
  <2>1. h = [i \in 0 .. n + 1 |-> Body(h, more, i)] BY <1>3, <1>5, <1>15
  <2> DEFINE k == [i \in 0 .. n |-> h[i]]
  <2>2. \A i \in 0 .. n : k[i] = h[i] OBVIOUS
  <2>3. k = [i \in 0 .. n |-> Body(k, evs, i)]
    <3>1. ASSUME NEW i \in 0 .. n PROVE k[i] = Body(k, evs, i)
      <4> HIDE DEF k
      <4>1. Body(h, more, i) = Body(k, evs, i) BY <1>1, <1>2, <1>6, <2>2
      <4>2. h[i] = Body(h, more, i) BY <1>6, <2>1
      <4> QED BY <2>2, <4>1, <4>2
    <3>2. k = [i \in 0 .. n |-> k[i]] OBVIOUS
    <3> HIDE DEF k
    <3> QED BY <3>1, <3>2
  <2> HIDE DEF k
  <2>4. Collects(k, evs, anthropic) BY <1>3, <2>3 DEF n
  <2>5. k[n] = acc BY <2>4 DEF CollectsTo, n
  <2>6. h[n] = acc BY <1>8, <2>2, <2>5
  <2>7. h[n + 1] = Body(h, more, n + 1) BY <1>8, <2>1
  <2> QED BY <1>1, <1>4, <2>6, <2>7
<1> QED BY <1>14, <1>15 DEF CollectsTo, more

\* What the events come to is what the addon collects.
LEMMA CollectedIs ==
  ASSUME NEW evs, NEW anthropic \in BOOLEAN, NEW acc, CollectsTo(evs, anthropic, acc)
  PROVE  Collected(evs, anthropic)[Len(evs)] = acc
<1>1. Collected(evs, anthropic) = CHOOSE f : Collects(f, evs, anthropic) BY DEF Collected, Collects
<1>2. Collects(Collected(evs, anthropic), evs, anthropic) BY <1>1 DEF CollectsTo
<1> QED BY <1>2 DEF CollectsTo

\* What every chunk adds.
Counted(acc, ev) == [acc EXCEPT !.model = ev.model, !.usage = IF ev.usage = {} THEN @ ELSE ev.usage]

\* A chunk without a choice, and one with one.
LEMMA OneChoice ==
  ASSUME NEW acc, NEW ev
  PROVE  /\ ev.choices = <<>> => OpenAiEvent(acc, ev) = Counted(acc, ev)
         /\ \A c : ev.choices = <<c>> => OpenAiEvent(acc, ev) = OpenAiChoice(Counted(acc, ev), c)
<1> DEFINE counted == Counted(acc, ev)
           Fix(f) == f = [i \in 0 .. Len(ev.choices) |->
                             IF i = 0 THEN counted ELSE OpenAiChoice(f[i - 1], ev.choices[i])]
<1>1. OpenAiEvent(acc, ev) = (CHOOSE f : Fix(f))[Len(ev.choices)]
  BY DEF OpenAiEvent, Counted
<1> HIDE DEF counted
<1>2. ASSUME ev.choices = <<>> PROVE OpenAiEvent(acc, ev) = counted
  <2> DEFINE g == [i \in 0 .. 0 |-> counted]
  <2>1. Len(ev.choices) = 0 BY <1>2
  <2>2. Fix(g) BY <2>1
  <2>3. Fix(CHOOSE f : Fix(f))
    <3> HIDE DEF Fix, g
    <3> QED BY <2>2
  <2>4. \A f : Fix(f) => f[0] = counted BY <2>1
  <2> HIDE DEF Fix
  <2> QED BY <1>1, <2>1, <2>3, <2>4
<1>3. ASSUME NEW c, ev.choices = <<c>> PROVE OpenAiEvent(acc, ev) = OpenAiChoice(counted, c)
  <2> DEFINE g == [i \in 0 .. 1 |-> IF i = 0 THEN counted ELSE OpenAiChoice(counted, c)]
  <2>1. Len(ev.choices) = 1 /\ ev.choices[1] = c BY <1>3
  <2>2. g[0] = counted /\ g[1] = OpenAiChoice(counted, c) OBVIOUS
  <2>3. Fix(g)
    <3>1. \A i \in 0 .. 1 : g[i] = IF i = 0 THEN counted ELSE OpenAiChoice(g[i - 1], ev.choices[i])
      <4> TAKE i \in 0 .. 1
      <4>1. i = 0 \/ i = 1 OBVIOUS
      <4>2. 1 - 1 = 0 OBVIOUS
      <4> HIDE DEF g
      <4> QED BY <2>1, <2>2, <4>1, <4>2
    <3>2. g = [i \in 0 .. 1 |-> g[i]] OBVIOUS
    <3> HIDE DEF g
    <3> QED BY <2>1, <3>1, <3>2
  <2>4. Fix(CHOOSE f : Fix(f))
    <3> HIDE DEF Fix, g
    <3> QED BY <2>3
  <2>5. \A f : Fix(f) => f[1] = OpenAiChoice(counted, c)
    <3> TAKE f
    <3> HAVE Fix(f)
    <3>1. f[0] = counted BY <2>1
    <3>2. f[1] = OpenAiChoice(f[0], c) BY <2>1
    <3> QED BY <3>1, <3>2
  <2> HIDE DEF Fix
  <2> QED BY <1>1, <2>1, <2>4, <2>5
<1> QED BY <1>2, <1>3 DEF counted

-----------------------------------------------------------------------------
(* What has been told of the message.                                      *)

\* The call i of m once k - 1 pieces of its arguments are there, and the calls
\* that have begun.
CallSoFar(m, i, k) == [name |-> m.tools[i].name, input |-> SubSeq(m.tools[i].input, 1, k - 1)]
CallsSoFar(m, told) == [i \in {j \in DOMAIN m.tools : told[j] # NotStarted} |-> CallSoFar(m, i, told[i])]

\* What has been told of m when text pieces of its text and told[i] - 1 pieces
\* of the arguments of each call are out.
SoFar(m, anthropic, text, told, end, begun) ==
    [text  |-> SubSeq(m.text, 1, text),
     tools |-> CallsSoFar(m, told),
     usage |-> CASE end = "counted" -> {"in", "out"}
                 [] end # "counted" /\ anthropic -> {"in"}
                 [] end # "counted" /\ ~anthropic -> {},
     stop  |-> IF end = "no" THEN Unset ELSE m.stop,
     model |-> IF begun THEN m.model ELSE Unset]

\* No more is told than there is,
ToldUpTo(m, text, told) ==
    /\ text \in 0 .. Len(m.text)
    /\ told \in [DOMAIN m.tools -> Nat]
    /\ \A i \in DOMAIN m.tools : told[i] <= Len(m.tools[i].input) + 1

\* and at the end all of it.
ToldAll(m, text, told) ==
    text = Len(m.text) /\ \A i \in DOMAIN m.tools : told[i] = Len(m.tools[i].input) + 1

\* The inductive invariant: the addon has collected what has been told.
StreamInv ==
    /\ dialect \in {"anthropic", "openai"} /\ message \in Message
    /\ ToldUpTo(message, toldText, toldTools)
    /\ ending \in {"no", "stopped", "counted"}
    /\ ending # "no" => ToldAll(message, toldText, toldTools)
    /\ IsSeq(events)
    /\ \A i \in DOMAIN events : "type" \in DOMAIN events[i] <=> dialect = "anthropic"
    /\ dialect = "anthropic" => events # <<>> /\ ending # "stopped"
    /\ ending # "no" => events # <<>>
    /\ CollectsTo(events, dialect = "anthropic",
                  SoFar(message, dialect = "anthropic", toldText, toldTools, ending, events # <<>>))

\* The parts of a message.
LEMMA ToolsAreCalls ==
  ASSUME NEW m \in Message
  PROVE  /\ m.text \in Seq(Pieces) /\ m.model \in STRING /\ m.stop \in STRING
         /\ m.tools \in Seq(Tool)
         /\ \A i \in DOMAIN m.tools : /\ m.tools[i] \in Tool
                                      /\ m.tools[i].name \in STRING
                                      /\ m.tools[i].input \in Seq(JsonPieces)
<1>1. m.text \in Seq(Pieces) /\ m.model \in STRING /\ m.stop \in STRING /\ m.tools \in Seq(Tool)
  BY DEF Message
<1> DEFINE T == Tool
           s == m.tools
<1>2. \A i \in DOMAIN s : s[i] \in T
  <2>1. s \in Seq(T) BY <1>1
  <2> HIDE DEF T, s
  <2> QED BY <2>1
<1>3. \A t \in Tool : t.name \in STRING /\ t.input \in Seq(JsonPieces) BY DEF Tool
<1> QED BY <1>1, <1>2, <1>3

\* The events that begin a call, in the two dialects, add it.
LEMMA CallBegins ==
  ASSUME NEW m \in Message, NEW told \in [DOMAIN m.tools -> Nat],
         NEW i \in DOMAIN m.tools, told[i] = NotStarted
  PROVE  LET name == m.tools[i].name
             now  == CallsSoFar(m, [told EXCEPT ![i] = 1])
         IN  /\ WithTool(CallsSoFar(m, told), i, [name |-> name, input |-> <<>>]) = now
             /\ Grown(CallsSoFar(m, told), i, name, <<>>) = now
<1> DEFINE name == m.tools[i].name
           was  == CallsSoFar(m, told)
           new  == [name |-> name, input |-> <<>>]
           next == [told EXCEPT ![i] = 1]
           D    == {j \in DOMAIN m.tools : told[j] # NotStarted}
           E    == {j \in DOMAIN m.tools : next[j] # NotStarted}
<1>1. m.tools[i].input \in Seq(JsonPieces) /\ name \in STRING BY ToolsAreCalls
<1>2. name # Unset BY <1>1, StreamAssumption
<1>3. SubSeq(m.tools[i].input, 1, 0) = <<>> BY <1>1
<1>4. DOMAIN was = D BY DEF CallsSoFar
<1>5. /\ E = D \cup {i} /\ i \notin D
      /\ \A j \in D : next[j] = told[j] /\ j # i
      /\ next[i] = 1
  BY DEF NotStarted
<1>6. \A j \in D : was[j] = CallSoFar(m, j, told[j]) BY DEF CallsSoFar
<1>7. CallSoFar(m, i, 1) = new
  <2>1. 1 - 1 = 0 OBVIOUS
  <2> QED BY <1>3, <2>1 DEF CallSoFar
<1>8. CallsSoFar(m, next) = [j \in E |-> CallSoFar(m, j, next[j])] BY DEF CallsSoFar
<1> HIDE DEF name, was, next, D, E, new
<1>9. WithTool(was, i, new) = CallsSoFar(m, next)
  <2>1. WithTool(was, i, new) = [j \in D \cup {i} |-> IF j = i THEN new ELSE was[j]]
    BY <1>4 DEF WithTool
  <2> QED BY <1>5, <1>6, <1>7, <1>8, <2>1
<1>10. Grown(was, i, name, <<>>) = WithTool(was, i, new)
  <2>1. <<>> \o <<>> = <<>> OBVIOUS
  <2>2. NewTool.input = <<>> BY DEF NewTool
  <2> QED BY <1>2, <1>4, <1>5, <2>1, <2>2 DEF Grown, new
<1> QED BY <1>9, <1>10 DEF name, was, next, new

\* The event with a piece of its arguments adds that one.
LEMMA CallGrows ==
  ASSUME NEW m \in Message, NEW told \in [DOMAIN m.tools -> Nat],
         NEW i \in DOMAIN m.tools, told[i] \in DOMAIN m.tools[i].input
  PROVE  Grown(CallsSoFar(m, told), i, Unset, <<m.tools[i].input[told[i]]>>)
            = CallsSoFar(m, [told EXCEPT ![i] = @ + 1])
<1> DEFINE s    == m.tools[i].input
           k    == told[i]
           was  == CallsSoFar(m, told)
           new  == CallSoFar(m, i, k + 1)
           next == [told EXCEPT ![i] = @ + 1]
           D    == {j \in DOMAIN m.tools : told[j] # NotStarted}
           E    == {j \in DOMAIN m.tools : next[j] # NotStarted}
<1>1. s \in Seq(JsonPieces) BY ToolsAreCalls
<1>2. k \in Nat /\ k \in 1 .. Len(s) /\ k - 1 \in Nat /\ k - 1 < Len(s) /\ k - 1 + 1 = k /\ (k + 1) - 1 = k
  <2>1. k \in DOMAIN s OBVIOUS
  <2> HIDE DEF s, k
  <2> QED BY <1>1, <2>1
<1>3. SubSeq(s, 1, k - 1) \o <<s[k]>> = SubSeq(s, 1, k)
  <2> HIDE DEF s, k
  <2> QED BY <1>1, <1>2, BeginningGrows
<1>4. DOMAIN was = D BY DEF CallsSoFar
<1>5. /\ E = D /\ i \in D
      /\ \A j \in D : j # i => next[j] = told[j]
      /\ next[i] = k + 1
  <2> HIDE DEF s
  <2> QED BY <1>2 DEF NotStarted
<1>6. \A j \in D : was[j] = CallSoFar(m, j, told[j]) BY DEF CallsSoFar
<1>7. was[i].name = m.tools[i].name /\ was[i].input = SubSeq(s, 1, k - 1)
  <2>1. was[i] = CallSoFar(m, i, k) BY <1>5, <1>6
  <2> HIDE DEF was, D, E, next
  <2> QED BY <2>1 DEF CallSoFar
<1>8. new = [name |-> was[i].name, input |-> was[i].input \o <<s[k]>>]
  <2>1. new = [name |-> m.tools[i].name, input |-> SubSeq(s, 1, (k + 1) - 1)]
    <3> HIDE DEF was, D, E, next, k
    <3> QED BY DEF CallSoFar
  <2> HIDE DEF was, D, E, next, new, k, s
  <2> QED BY <1>2, <1>3, <1>7, <2>1
<1>9. CallsSoFar(m, next) = [j \in E |-> CallSoFar(m, j, next[j])] BY DEF CallsSoFar
<1>10. Grown(was, i, Unset, <<s[k]>>) = WithTool(was, i, new)
  <2> HIDE DEF was, next, D, E, new, s, k
  <2> QED BY <1>4, <1>5, <1>8 DEF Grown
<1>12. k = told[i] OBVIOUS
<1>13. new = CallSoFar(m, i, next[i]) BY <1>5
<1> HIDE DEF was, next, D, E, new, s, k
<1>11. WithTool(was, i, new) = CallsSoFar(m, next)
  <2>1. WithTool(was, i, new) = [j \in D \cup {i} |-> IF j = i THEN new ELSE was[j]]
    BY <1>4 DEF WithTool
  <2> QED BY <1>5, <1>6, <1>9, <1>13, <2>1
<1> QED BY <1>10, <1>11 DEF was, next, s, k

-----------------------------------------------------------------------------
(* Every event tells the addon what the server tells by it.                *)

\* What has been told of the message.
SoFarNow == SoFar(message, dialect = "anthropic", toldText, toldTools, ending, events # <<>>)

\* Nothing is told at first, or the name of the model.
LEMMA StreamStarts == StreamInit => StreamInv
<1> SUFFICES ASSUME StreamInit PROVE StreamInv OBVIOUS
<1> USE DEF StreamInit
<1>1. message \in Message BY StreamAssumption
<1>2. ToldUpTo(message, toldText, toldTools)
  <2>1. message.text \in Seq(Pieces) /\ \A i \in DOMAIN message.tools : message.tools[i].input \in Seq(JsonPieces)
    BY <1>1, ToolsAreCalls
  <2>2. 0 \in 0 .. Len(message.text) BY <2>1
  <2>3. toldTools = [i \in DOMAIN message.tools |-> 0] BY DEF NotStarted
  <2>4. \A i \in DOMAIN message.tools : Len(message.tools[i].input) \in Nat BY <2>1
  <2>5. \A i \in DOMAIN message.tools : 0 <= Len(message.tools[i].input) + 1 BY <2>4
  <2> QED BY <2>2, <2>3, <2>5 DEF ToldUpTo
<1> DEFINE none == SoFar(message, TRUE, 0, toldTools, "no", FALSE)
<1>3. SubSeq(message.text, 1, 0) = <<>>
  <2>1. message.text \in Seq(Pieces) BY <1>1, ToolsAreCalls
  <2> QED BY <2>1
<1>4. CallsSoFar(message, toldTools) = <<>>
  <2>1. {j \in DOMAIN message.tools : toldTools[j] # NotStarted} = {} OBVIOUS
  <2>2. CallsSoFar(message, toldTools) = [i \in {} |-> CallSoFar(message, i, toldTools[i])]
    BY <2>1 DEF CallsSoFar
  <2> QED BY <2>2
<1>5. CollectsTo(<<>>, dialect = "anthropic", Empty)
  <2> DEFINE g == [i \in 0 .. 0 |-> Empty]
  <2>1. Len(<<>>) = 0 OBVIOUS
  <2>2. Collects(g, <<>>, dialect = "anthropic")
    <3>1. \A i \in 0 .. 0 : i = 0 OBVIOUS
    <3> QED BY <2>1, <3>1 DEF Collects
  <2>3. \A f : Collects(f, <<>>, dialect = "anthropic") => f[0] = Empty
    BY <2>1 DEF Collects
  <2> HIDE DEF g
  <2> QED BY <2>1, <2>2, <2>3 DEF CollectsTo
<1>6. CASE dialect = "openai"
  <2>1. events = <<>> BY <1>6
  <2>2. SoFarNow = Empty BY <1>3, <1>4, <1>6, <2>1 DEF SoFarNow, SoFar, Empty
  <2>3. IsSeq(events) BY <2>1 DEF IsSeq
  <2> QED BY <1>1, <1>2, <1>5, <1>6, <2>1, <2>2, <2>3 DEF StreamInv, SoFarNow
<1>7. CASE dialect = "anthropic"
  <2> DEFINE e == [type |-> "message_start", model |-> message.model, usage |-> {"in"}]
  <2>1. events = <<e>> /\ events = Append(<<>>, e) BY <1>7
  <2>2. IsSeq(<<>>) BY DEF IsSeq
  <2>3. /\ IsSeq(events) /\ Len(events) = 1 /\ events[1] = e /\ DOMAIN events = {1} /\ events # <<>>
    <3> HIDE DEF e
    <3>1. /\ IsSeq(Append(<<>>, e)) /\ Len(Append(<<>>, e)) = Len(<<>>) + 1
          /\ Append(<<>>, e)[Len(<<>>) + 1] = e
      BY <2>2, AppendIsSeq
    <3>2. Len(<<>>) = 0 OBVIOUS
    <3>3. Append(<<>>, e) = <<e>> /\ Len(<<e>>) = 1 /\ <<e>>[1] = e /\ DOMAIN <<e>> = {1} OBVIOUS
    <3>4. <<e>> # <<>> OBVIOUS
    <3>5. IsSeq(<<e>>)
      <4> USE DEF IsSeq
      <4>1. {<<e>>[i] : i \in {1}} = {e} BY <3>3
      <4> QED BY <3>3, <4>1
    <3>6. events = <<e>> BY <2>1
    <3> QED BY <3>3, <3>4, <3>5, <3>6
  <2>4. Added(Empty, e, TRUE) = SoFarNow
    <3>1. Added(Empty, e, TRUE) = [Empty EXCEPT !.model = message.model, !.usage = @ \cup {"in"}]
      BY DEF Added, AnthropicEvent
    <3> HIDE DEF e
    <3> QED BY <1>3, <1>4, <1>7, <2>3, <3>1 DEF SoFarNow, SoFar, Empty
  <2>5. CollectsTo(events, dialect = "anthropic", SoFarNow)
    <3> HIDE DEF e
    <3> QED BY <1>5, <1>7, <2>1, <2>2, <2>4, CollectsMore
  <2>6. "type" \in DOMAIN e OBVIOUS
  <2> HIDE DEF e
  <2> QED BY <1>1, <1>2, <1>7, <2>3, <2>5, <2>6 DEF StreamInv, SoFarNow
<1> QED BY <1>6, <1>7

\* It is enough that the event adds what is told by it.
LEMMA OneMore ==
  ASSUME StreamInv, NEW e, events' = Append(events, e),
         dialect' = dialect, message' = message,
         "type" \in DOMAIN e <=> dialect = "anthropic",
         Added(SoFarNow, e, dialect = "anthropic") = SoFarNow',
         ToldUpTo(message, toldText', toldTools'),
         ending' \in {"no", "stopped", "counted"},
         ending' # "no" => ToldAll(message, toldText', toldTools'),
         dialect = "anthropic" => ending' # "stopped"
  PROVE  StreamInv'
<1>1. /\ IsSeq(events) /\ \A i \in DOMAIN events : "type" \in DOMAIN events[i] <=> dialect = "anthropic"
      /\ CollectsTo(events, dialect = "anthropic", SoFarNow)
  BY DEF StreamInv, SoFarNow
<1>2. /\ IsSeq(events') /\ Len(events) \in Nat /\ Len(events') = Len(events) + 1
      /\ DOMAIN events = 1 .. Len(events)
      /\ \A i \in 1 .. Len(events) : events'[i] = events[i]
      /\ events'[Len(events) + 1] = e
  BY <1>1, AppendIsSeq
<1>3. DOMAIN events' = 1 .. Len(events')
  <2>1. events' \in Seq({events'[i] : i \in DOMAIN events'}) BY <1>2 DEF IsSeq
  <2> DEFINE V == {events'[i] : i \in DOMAIN events'}
  <2> HIDE DEF V
  <2>2. events' \in Seq(V) BY <2>1 DEF V
  <2> QED BY <2>2
<1>4. events' # <<>> BY <1>2
<1>5. \A i \in DOMAIN events' : "type" \in DOMAIN events'[i] <=> dialect = "anthropic"
  <2> TAKE i \in DOMAIN events'
  <2>1. i \in 1 .. Len(events) \/ i = Len(events) + 1 BY <1>2, <1>3
  <2> QED BY <1>1, <1>2, <2>1
<1>6. CollectsTo(events', dialect = "anthropic", SoFarNow') BY <1>1, CollectsMore
<1> QED BY <1>2, <1>4, <1>5, <1>6 DEF StreamInv, SoFarNow

\* What the addon has.
Have(text, tools, usage, stop, model) ==
    [text |-> text, tools |-> tools, usage |-> usage, stop |-> stop, model |-> model]

\* What a chunk with one choice adds to what is there.
LEMMA ChunkAdds ==
  ASSUME NEW text, NEW tools, NEW usage, NEW stop, NEW model, NEW c, NEW e,
         e.choices = <<c>>, e.usage = {}
  PROVE  OpenAiEvent(Have(text, tools, usage, stop, model), e)
          = Have(IF c.content = Unset THEN text ELSE Append(text, c.content),
                 IF c.call = Unset THEN tools
                 ELSE Grown(tools, c.call.index, c.call.name, c.call.arguments),
                 usage, c.finish_reason, e.model)
<1> DEFINE acc == Have(text, tools, usage, stop, model)
           now == Have(text, tools, usage, stop, e.model)
<1>1. Counted(acc, e) = [acc EXCEPT !.model = e.model, !.usage = @]
  <2> HIDE DEF acc
  <2> QED BY DEF Counted
<1>2. Counted(acc, e) = now BY <1>1 DEF Have
<1>3. OpenAiEvent(acc, e) = OpenAiChoice(now, c)
  <2> HIDE DEF acc, now
  <2> QED BY <1>2, OneChoice
<1> QED BY <1>3 DEF OpenAiChoice, Have

\* With an event more there are some.
LEMMA TellsMore ==
  ASSUME StreamInv, NEW e, events' = Append(events, e)
  PROVE  events' # <<>>
<1>1. IsSeq(events) BY DEF StreamInv
<1>2. Len(events') = Len(events) + 1 /\ Len(events) \in Nat BY <1>1, AppendIsSeq
<1> QED BY <1>2

\* So it is with a piece of the text,
LEMMA SendTextKeeps ==
  ASSUME StreamInv, SendText
  PROVE  StreamInv'
<1> USE DEF SendText
<1> DEFINE A == dialect = "anthropic"
           piece == message.text[toldText + 1]
           a == [type |-> "text_delta", piece |-> piece]
           o == Says(piece, Unset)
           e == IF A THEN a ELSE o
<1>1. /\ message \in Message /\ ToldUpTo(message, toldText, toldTools)
      /\ dialect \in {"anthropic", "openai"} /\ ending = "no"
  BY DEF StreamInv
<1>2. events' = Append(events, e) BY DEF Sends
<1>3. message.text \in Seq(Pieces) BY <1>1, ToolsAreCalls
<1>4. toldText \in Nat /\ toldText < Len(message.text) /\ toldText + 1 \in 0 .. Len(message.text)
  BY <1>1, <1>3 DEF ToldUpTo
<1>5. Append(SubSeq(message.text, 1, toldText), piece) = SubSeq(message.text, 1, toldText + 1)
  BY <1>3, <1>4, BeginningGrows
<1>6. piece \in STRING /\ piece # Unset
  <2>1. piece \in STRING BY <1>3, <1>4 DEF Pieces
  <2> QED BY <2>1, StreamAssumption
<1>7. "type" \in DOMAIN e <=> A BY DEF Says, Chunk
<1>8. ToldUpTo(message, toldText', toldTools') BY <1>1, <1>4 DEF ToldUpTo
<1>9. events' # <<>>
  <2>1. IsSeq(events) BY DEF StreamInv
  <2> HIDE DEF e
  <2>2. Len(events') = Len(events) + 1 /\ Len(events) \in Nat BY <1>2, <2>1, AppendIsSeq
  <2> QED BY <2>2
<1>10. Added(SoFarNow, e, A) = SoFarNow'
  <2>1. CASE A
    <3>1. Added(SoFarNow, e, A) = [SoFarNow EXCEPT !.text = Append(@, piece)]
      BY <2>1 DEF Added, AnthropicEvent
    <3>2. events # <<>> BY <2>1 DEF StreamInv
    <3> HIDE DEF e, piece
    <3> QED BY <1>1, <1>5, <1>9, <2>1, <3>1, <3>2 DEF SoFarNow, SoFar
  <2>2. CASE ~A
    <3> DEFINE c == [content |-> piece, call |-> Unset, finish_reason |-> Unset]
    <3>1. c.content = piece /\ c.call = Unset /\ c.finish_reason = Unset OBVIOUS
    <3>2. e.choices = <<c>> /\ e.usage = {} /\ e.model = message.model BY <2>2 DEF Says, Chunk
    <3>3. Added(SoFarNow, e, A) = OpenAiEvent(SoFarNow, e) BY <2>2 DEF Added
    <3> DEFINE text == SubSeq(message.text, 1, toldText)
               calls == CallsSoFar(message, toldTools)
    <3>4. SoFarNow' = Have(SubSeq(message.text, 1, toldText + 1), calls, {}, Unset, message.model)
      BY <1>1, <1>9, <2>2 DEF SoFarNow, SoFar, Have
    <3>5. SoFarNow = Have(text, calls, {}, Unset, SoFarNow.model)
      BY <1>1, <2>2 DEF SoFarNow, SoFar, Have
    <3> HIDE DEF e, c, piece, text, calls
    <3>6. OpenAiEvent(SoFarNow, e) = Have(Append(text, piece), calls, {}, Unset, message.model)
      BY <1>6, <3>1, <3>2, <3>5, ChunkAdds
    <3> QED BY <1>5, <3>3, <3>4, <3>6 DEF text
  <2> QED BY <2>1, <2>2
<1> HIDE DEF e
<1> QED BY <1>1, <1>2, <1>7, <1>8, <1>10, OneMore

\* with a call that begins,
LEMMA StartCallKeeps ==
  ASSUME StreamInv, NEW i \in DOMAIN toldTools, StartCall(i)
  PROVE  StreamInv'
<1> USE DEF StartCall
<1> DEFINE A == dialect = "anthropic"
           name == message.tools[i].name
           a == [type |-> "content_block_start", index |-> i, name |-> name]
           c == [content |-> Unset, call |-> Call(i, name, <<>>), finish_reason |-> Unset]
           e == IF A THEN a ELSE Says(Unset, Call(i, name, <<>>))
           text == SubSeq(message.text, 1, toldText)
           calls == CallsSoFar(message, toldTools)
           more == CallsSoFar(message, toldTools')
<1>1. /\ message \in Message /\ ToldUpTo(message, toldText, toldTools)
      /\ dialect \in {"anthropic", "openai"} /\ ending = "no"
      /\ toldTools \in [DOMAIN message.tools -> Nat] /\ i \in DOMAIN message.tools
  BY DEF StreamInv, ToldUpTo
<1>2. events' = Append(events, e) BY DEF Sends
<1>3. name \in STRING /\ message.tools[i].input \in Seq(JsonPieces) BY <1>1, ToolsAreCalls
<1>4. name # Unset /\ Call(i, name, <<>>) # Unset
  <2>1. DOMAIN message.tools \subseteq Nat
    <3>1. message.tools \in Seq(Tool) BY <1>1, ToolsAreCalls
    <3> QED BY <3>1
  <2>2. Call(i, name, <<>>) \in CallDelta BY <1>1, <1>3, <2>1 DEF Call, CallDelta
  <2> QED BY <1>3, <2>2, StreamAssumption
<1>5. /\ WithTool(calls, i, [name |-> name, input |-> <<>>]) = more
      /\ Grown(calls, i, name, <<>>) = more
  <2>1. toldTools[i] = NotStarted OBVIOUS
  <2> QED BY <1>1, <2>1, CallBegins
<1>6. "type" \in DOMAIN e <=> A BY DEF Says, Chunk
<1>7. ToldUpTo(message, toldText', toldTools')
  <2>1. \A j \in DOMAIN message.tools : toldTools'[j] = IF j = i THEN 1 ELSE toldTools[j] BY <1>1
  <2>2. Len(message.tools[i].input) \in Nat BY <1>3
  <2>3. 1 <= Len(message.tools[i].input) + 1 BY <2>2
  <2> QED BY <1>1, <2>1, <2>3 DEF ToldUpTo
<1>8. events' # <<>>
  <2> HIDE DEF e
  <2> QED BY <1>2, TellsMore
<1>9. Added(SoFarNow, e, A) = SoFarNow'
  <2>1. CASE A
    <3>1. Added(SoFarNow, e, A)
            = [SoFarNow EXCEPT !.tools = WithTool(@, i, [name |-> name, input |-> <<>>])]
      BY <2>1 DEF Added, AnthropicEvent
    <3>2. events # <<>> BY <2>1 DEF StreamInv
    <3>3. SoFarNow' = Have(text, more, {"in"}, Unset, message.model)
      BY <1>1, <1>8, <2>1 DEF SoFarNow, SoFar, Have
    <3>4. SoFarNow = Have(text, calls, {"in"}, Unset, message.model)
      BY <1>1, <2>1, <3>2 DEF SoFarNow, SoFar, Have
    <3> HIDE DEF e, name, text, calls, more
    <3> QED BY <1>5, <3>1, <3>3, <3>4 DEF Have
  <2>2. CASE ~A
    <3>1. /\ c.content = Unset /\ c.call = Call(i, name, <<>>) /\ c.finish_reason = Unset
          /\ c.call.index = i /\ c.call.name = name /\ c.call.arguments = <<>>
      BY DEF Call
    <3>2. e.choices = <<c>> /\ e.usage = {} /\ e.model = message.model BY <2>2 DEF Says, Chunk
    <3>3. Added(SoFarNow, e, A) = OpenAiEvent(SoFarNow, e) BY <2>2 DEF Added
    <3>4. SoFarNow' = Have(text, more, {}, Unset, message.model)
      BY <1>1, <1>8, <2>2 DEF SoFarNow, SoFar, Have
    <3>5. SoFarNow = Have(text, calls, {}, Unset, SoFarNow.model)
      BY <1>1, <2>2 DEF SoFarNow, SoFar, Have
    <3> HIDE DEF e, c, name, text, calls, more
    <3>6. OpenAiEvent(SoFarNow, e) = Have(text, more, {}, Unset, message.model)
      BY <1>4, <1>5, <3>1, <3>2, <3>5, ChunkAdds
    <3> QED BY <3>3, <3>4, <3>6
  <2> QED BY <2>1, <2>2
<1> HIDE DEF e
<1> QED BY <1>1, <1>2, <1>6, <1>7, <1>9, OneMore

\* with a piece of its arguments,
LEMMA SendArgumentsKeeps ==
  ASSUME StreamInv, NEW i \in DOMAIN toldTools, SendArguments(i)
  PROVE  StreamInv'
<1> USE DEF SendArguments
<1> DEFINE A == dialect = "anthropic"
           piece == message.tools[i].input[toldTools[i]]
           a == [type |-> "input_json_delta", index |-> i, piece |-> piece]
           c == [content |-> Unset, call |-> Call(i, Unset, <<piece>>), finish_reason |-> Unset]
           e == IF A THEN a ELSE Says(Unset, Call(i, Unset, <<piece>>))
           text == SubSeq(message.text, 1, toldText)
           calls == CallsSoFar(message, toldTools)
           more == CallsSoFar(message, toldTools')
<1>1. /\ message \in Message /\ ToldUpTo(message, toldText, toldTools)
      /\ dialect \in {"anthropic", "openai"} /\ ending = "no"
      /\ toldTools \in [DOMAIN message.tools -> Nat] /\ i \in DOMAIN message.tools
  BY DEF StreamInv, ToldUpTo
<1>2. events' = Append(events, e) BY DEF Sends
<1>3. message.tools[i].input \in Seq(JsonPieces) /\ toldTools[i] \in DOMAIN message.tools[i].input
  BY <1>1, ToolsAreCalls
<1>4. Call(i, Unset, <<piece>>) # Unset
  <2>1. DOMAIN message.tools \subseteq Nat
    <3>1. message.tools \in Seq(Tool) BY <1>1, ToolsAreCalls
    <3> QED BY <3>1
  <2>2. piece \in JsonPieces
    <3> DEFINE s == message.tools[i].input
    <3>1. s \in Seq(JsonPieces) /\ toldTools[i] \in DOMAIN s BY <1>3
    <3> HIDE DEF s
    <3>2. s[toldTools[i]] \in JsonPieces BY <3>1
    <3> QED BY <3>2 DEF s
  <2> HIDE DEF piece
  <2>3. <<piece>> \in Seq(JsonPieces) BY <2>2
  <2>4. Call(i, Unset, <<piece>>) \in CallDelta BY <1>1, <2>1, <2>3 DEF Call, CallDelta
  <2> QED BY <2>4, StreamAssumption
<1>5. Grown(calls, i, Unset, <<piece>>) = more BY <1>1, <1>3, CallGrows
<1>6. "type" \in DOMAIN e <=> A BY DEF Says, Chunk
<1>7. ToldUpTo(message, toldText', toldTools')
  <2> DEFINE n == Len(message.tools[i].input)
  <2>1. \A j \in DOMAIN message.tools : toldTools'[j] = IF j = i THEN toldTools[i] + 1 ELSE toldTools[j]
    BY <1>1
  <2>2. toldTools' \in [DOMAIN message.tools -> Nat] BY <1>1
  <2>3. n \in Nat /\ toldTools[i] \in 1 .. n
    <3> DEFINE s == message.tools[i].input
    <3>1. s \in Seq(JsonPieces) /\ toldTools[i] \in DOMAIN s BY <1>3
    <3> HIDE DEF s
    <3>2. Len(s) \in Nat /\ toldTools[i] \in 1 .. Len(s) BY <3>1
    <3> QED BY <3>2 DEF s
  <2>4. toldTools[i] + 1 <= n + 1
    <3> HIDE DEF n
    <3> QED BY <2>3
  <2>5. toldText' = toldText OBVIOUS
  <2>6. \A j \in DOMAIN message.tools : toldTools'[j] <= Len(message.tools[j].input) + 1
    BY <1>1, <2>1, <2>4 DEF ToldUpTo
  <2> QED BY <1>1, <2>2, <2>5, <2>6 DEF ToldUpTo
<1>8. events' # <<>>
  <2> HIDE DEF e
  <2> QED BY <1>2, TellsMore
<1>9. Added(SoFarNow, e, A) = SoFarNow'
  <2>1. CASE A
    <3>1. Added(SoFarNow, e, A) = [SoFarNow EXCEPT !.tools = Grown(@, i, Unset, <<piece>>)]
      BY <2>1 DEF Added, AnthropicEvent
    <3>2. events # <<>> BY <2>1 DEF StreamInv
    <3>3. SoFarNow' = Have(text, more, {"in"}, Unset, message.model)
      BY <1>1, <1>8, <2>1 DEF SoFarNow, SoFar, Have
    <3>4. SoFarNow = Have(text, calls, {"in"}, Unset, message.model)
      BY <1>1, <2>1, <3>2 DEF SoFarNow, SoFar, Have
    <3> HIDE DEF e, piece, text, calls, more
    <3> QED BY <1>5, <3>1, <3>3, <3>4 DEF Have
  <2>2. CASE ~A
    <3>1. /\ c.content = Unset /\ c.call = Call(i, Unset, <<piece>>) /\ c.finish_reason = Unset
          /\ c.call.index = i /\ c.call.name = Unset /\ c.call.arguments = <<piece>>
      <4> HIDE DEF piece
      <4> QED BY DEF Call
    <3>2. e.choices = <<c>> /\ e.usage = {} /\ e.model = message.model BY <2>2 DEF Says, Chunk
    <3>3. Added(SoFarNow, e, A) = OpenAiEvent(SoFarNow, e) BY <2>2 DEF Added
    <3>4. SoFarNow' = Have(text, more, {}, Unset, message.model)
      BY <1>1, <1>8, <2>2 DEF SoFarNow, SoFar, Have
    <3>5. SoFarNow = Have(text, calls, {}, Unset, SoFarNow.model)
      BY <1>1, <2>2 DEF SoFarNow, SoFar, Have
    <3> HIDE DEF e, c, piece, text, calls, more
    <3>6. OpenAiEvent(SoFarNow, e) = Have(text, more, {}, Unset, message.model)
      BY <1>4, <1>5, <3>1, <3>2, <3>5, ChunkAdds
    <3> QED BY <3>3, <3>4, <3>6
  <2> QED BY <2>1, <2>2
<1> HIDE DEF e
<1> QED BY <1>1, <1>2, <1>6, <1>7, <1>9, OneMore

\* with the reason to stop,
LEMMA StopKeeps ==
  ASSUME StreamInv, Stop
  PROVE  StreamInv'
<1> USE DEF Stop
<1> DEFINE A == dialect = "anthropic"
           a == [type |-> "message_delta", stop |-> message.stop, usage |-> {"out"}]
           c == [content |-> Unset, call |-> Unset, finish_reason |-> message.stop]
           e == IF A THEN a ELSE Chunk(<<c>>, {})
           text == SubSeq(message.text, 1, toldText)
           calls == CallsSoFar(message, toldTools)
<1>1. /\ message \in Message /\ ToldUpTo(message, toldText, toldTools)
      /\ dialect \in {"anthropic", "openai"} /\ ending = "no"
      /\ toldTools \in [DOMAIN message.tools -> Nat]
  BY DEF StreamInv, ToldUpTo
<1>2. events' = Append(events, e) BY DEF Sends
<1>3. ToldAll(message, toldText', toldTools') BY <1>1 DEF ToldAll
<1>4. /\ ending' \in {"no", "stopped", "counted"} /\ ending' # "no"
      /\ A => ending' # "stopped"
      /\ A <=> ending' = "counted"
  BY <1>1
<1>5. ToldUpTo(message, toldText', toldTools') BY <1>1
<1>6. "type" \in DOMAIN e <=> A BY DEF Chunk
<1>8. events' # <<>>
  <2> HIDE DEF e
  <2> QED BY <1>2, TellsMore
<1>9. Added(SoFarNow, e, A) = SoFarNow'
  <2>1. CASE A
    <3>1. Added(SoFarNow, e, A) = [SoFarNow EXCEPT !.stop = message.stop, !.usage = @ \cup {"out"}]
      BY <2>1 DEF Added, AnthropicEvent
    <3>2. events # <<>> BY <2>1 DEF StreamInv
    <3>3. SoFarNow' = Have(text, calls, {"in", "out"}, message.stop, message.model)
      BY <1>1, <1>4, <1>8, <2>1 DEF SoFarNow, SoFar, Have
    <3>4. SoFarNow = Have(text, calls, {"in"}, Unset, message.model)
      BY <1>1, <2>1, <3>2 DEF SoFarNow, SoFar, Have
    <3>5. {"in"} \cup {"out"} = {"in", "out"} OBVIOUS
    <3> HIDE DEF e, text, calls
    <3> QED BY <3>1, <3>3, <3>4, <3>5 DEF Have
  <2>2. CASE ~A
    <3>1. c.content = Unset /\ c.call = Unset /\ c.finish_reason = message.stop OBVIOUS
    <3>2. e.choices = <<c>> /\ e.usage = {} /\ e.model = message.model BY <2>2 DEF Chunk
    <3>3. Added(SoFarNow, e, A) = OpenAiEvent(SoFarNow, e) BY <2>2 DEF Added
    <3>4. SoFarNow' = Have(text, calls, {}, message.stop, message.model)
      BY <1>1, <1>4, <1>8, <2>2 DEF SoFarNow, SoFar, Have
    <3>5. SoFarNow = Have(text, calls, {}, Unset, SoFarNow.model)
      BY <1>1, <2>2 DEF SoFarNow, SoFar, Have
    <3> HIDE DEF e, c, text, calls
    <3>6. OpenAiEvent(SoFarNow, e) = Have(text, calls, {}, message.stop, message.model)
      BY <3>1, <3>2, <3>5, ChunkAdds
    <3> QED BY <3>3, <3>4, <3>6
  <2> QED BY <2>1, <2>2
<1> HIDE DEF e
<1> QED BY <1>1, <1>2, <1>3, <1>4, <1>5, <1>6, <1>9, OneMore

\* and with the usage.
LEMMA CountKeeps ==
  ASSUME StreamInv, Count
  PROVE  StreamInv'
<1> USE DEF Count
<1> DEFINE A == dialect = "anthropic"
           e == Chunk(<<>>, {"in", "out"})
           text == SubSeq(message.text, 1, toldText)
           calls == CallsSoFar(message, toldTools)
<1>1. /\ message \in Message /\ ToldUpTo(message, toldText, toldTools)
      /\ dialect \in {"anthropic", "openai"} /\ ending = "stopped" /\ ~A
      /\ ToldAll(message, toldText, toldTools) /\ events # <<>>
  BY DEF StreamInv
<1>2. events' = Append(events, e) OBVIOUS
<1>3. ToldAll(message, toldText', toldTools') BY <1>1 DEF ToldAll
<1>5. ToldUpTo(message, toldText', toldTools') BY <1>1
<1>6. "type" \notin DOMAIN e BY DEF Chunk
<1>8. events' # <<>>
  <2> HIDE DEF e
  <2> QED BY <1>2, TellsMore
<1>9. Added(SoFarNow, e, A) = SoFarNow'
  <2>1. e.choices = <<>> /\ e.usage = {"in", "out"} /\ e.usage # {} /\ e.model = message.model BY DEF Chunk
  <2>2. Added(SoFarNow, e, A) = Counted(SoFarNow, e)
    <3> HIDE DEF e
    <3> QED BY <1>1, <2>1, OneChoice DEF Added
  <2>3. SoFarNow' = Have(text, calls, {"in", "out"}, message.stop, message.model)
    BY <1>1, <1>8 DEF SoFarNow, SoFar, Have
  <2>4. SoFarNow = Have(text, calls, {}, message.stop, message.model)
    BY <1>1 DEF SoFarNow, SoFar, Have
  <2>5. Counted(SoFarNow, e) = [SoFarNow EXCEPT !.model = message.model, !.usage = {"in", "out"}]
    <3> HIDE DEF e
    <3> QED BY <2>1 DEF Counted
  <2> HIDE DEF e, text, calls
  <2> QED BY <2>2, <2>3, <2>4, <2>5 DEF Have
<1> HIDE DEF e
<1> QED BY <1>1, <1>2, <1>3, <1>5, <1>6, <1>9, OneMore

\* The addon has collected what has been told.
LEMMA StreamInvariant == StreamSpec => []StreamInv
<1>1. StreamInv /\ [StreamNext]_streamVars => StreamInv'
  <2> SUFFICES ASSUME StreamInv, [StreamNext]_streamVars PROVE StreamInv' OBVIOUS
  <2>1. CASE UNCHANGED streamVars
    <3>1. SoFarNow' = SoFarNow BY <2>1 DEF streamVars, SoFarNow
    <3> QED BY <2>1 DEF streamVars, StreamInv
  <2>2. CASE SendText BY <2>2, SendTextKeeps
  <2>3. CASE Stop BY <2>3, StopKeeps
  <2>4. CASE Count BY <2>4, CountKeeps
  <2>5. ASSUME NEW i \in DOMAIN toldTools, StartCall(i) PROVE StreamInv' BY <2>5, StartCallKeeps
  <2>6. ASSUME NEW i \in DOMAIN toldTools, SendArguments(i) PROVE StreamInv' BY <2>6, SendArgumentsKeeps
  <2> QED BY <2>1, <2>2, <2>3, <2>4, <2>5, <2>6 DEF StreamNext
<1> QED BY <1>1, StreamStarts, PTL DEF StreamSpec

-----------------------------------------------------------------------------
(* The assembled completion.                                               *)

\* What the addon makes of the events.
LEMMA AssembledNow ==
  ASSUME StreamInv
  PROVE  Assembled(events)
          = [SoFarNow EXCEPT !.tools = [i \in 1 .. Cardinality(DOMAIN @) |-> @[Nth(DOMAIN @, i)]]]
<1> DEFINE anthropic == \E i \in DOMAIN events : i <= 3 /\ "type" \in DOMAIN events[i]
           A == dialect = "anthropic"
<1>1. anthropic <=> A
  <2>1. \A i \in DOMAIN events : "type" \in DOMAIN events[i] <=> A BY DEF StreamInv
  <2>2. A => 1 \in DOMAIN events
    <3> DEFINE V == {events[i] : i \in DOMAIN events}
    <3>1. events \in Seq(V) /\ (A => events # <<>>) BY DEF StreamInv, IsSeq
    <3> HIDE DEF V
    <3> QED BY <3>1
  <2>3. 1 <= 3 OBVIOUS
  <2> HIDE DEF A
  <2> QED BY <2>1, <2>2, <2>3
<1>2. anthropic = A
  <2>1. anthropic \in BOOLEAN /\ A \in BOOLEAN OBVIOUS
  <2> HIDE DEF anthropic, A
  <2> QED BY <1>1, <2>1
<1>3. CollectsTo(events, A, SoFarNow) BY DEF StreamInv, SoFarNow
<1>4. Collected(events, A)[Len(events)] = SoFarNow
  <2>1. A \in BOOLEAN OBVIOUS
  <2> HIDE DEF A
  <2> QED BY <1>3, <2>1, CollectedIs
<1>5. Assembled(events)
        = LET acc == Collected(events, anthropic)[Len(events)]
          IN  [acc EXCEPT !.tools = [i \in 1 .. Cardinality(DOMAIN @) |-> @[Nth(DOMAIN @, i)]]]
  BY DEF Assembled
<1> HIDE DEF anthropic, A
<1> QED BY <1>2, <1>4, <1>5

\* Its parts: the calls are listed by their indices.
LEMMA AssembledParts ==
  ASSUME StreamInv
  PROVE  LET got   == Assembled(events)
             calls == CallsSoFar(message, toldTools)
         IN  /\ got = [SoFarNow EXCEPT !.tools = got.tools]
             /\ got.text = SubSeq(message.text, 1, toldText)
             /\ got.tools = [i \in 1 .. Cardinality(DOMAIN calls) |-> calls[Nth(DOMAIN calls, i)]]
<1> DEFINE calls == CallsSoFar(message, toldTools)
           list == [i \in 1 .. Cardinality(DOMAIN calls) |-> calls[Nth(DOMAIN calls, i)]]
<1>1. SoFarNow.tools = calls /\ SoFarNow.text = SubSeq(message.text, 1, toldText)
  BY DEF SoFarNow, SoFar
<1>2. Assembled(events) = [SoFarNow EXCEPT !.tools = list]
  <2> HIDE DEF calls
  <2> QED BY <1>1, AssembledNow
<1>3. SoFarNow = [text |-> SoFarNow.text, tools |-> SoFarNow.tools, usage |-> SoFarNow.usage,
                  stop |-> SoFarNow.stop, model |-> SoFarNow.model]
  BY DEF SoFarNow, SoFar
<1> HIDE DEF list, calls
<1>4. Assembled(events) = [text |-> SoFarNow.text, tools |-> list, usage |-> SoFarNow.usage,
                           stop |-> SoFarNow.stop, model |-> SoFarNow.model]
  BY <1>2, <1>3
<1>5. Assembled(events).tools = list /\ Assembled(events).text = SoFarNow.text BY <1>4
<1> QED BY <1>1, <1>2, <1>5 DEF list, calls

\* A stream that came whole gives the message as the server wrote it,
LEMMA WholeIsMessage ==
  ASSUME StreamInv, ending = "counted"
  PROVE  Assembled(events) = Have(message.text, message.tools, {"in", "out"},
                                  message.stop, message.model)
<1> DEFINE got == Assembled(events)
           calls == CallsSoFar(message, toldTools)
           n == Len(message.tools)
<1>1. message \in Message /\ ToldAll(message, toldText, toldTools)
      /\ dialect \in {"anthropic", "openai"} /\ events # <<>>
  BY DEF StreamInv
<1>2. /\ message.text \in Seq(Pieces)
      /\ \A i \in DOMAIN message.tools :
           message.tools[i] \in Tool /\ message.tools[i].input \in Seq(JsonPieces)
      /\ message.tools \in Seq(Tool)
  BY <1>1, ToolsAreCalls
<1>3. SubSeq(message.text, 1, toldText) = message.text BY <1>1, <1>2, BeginningIsPrefix DEF ToldAll
<1>4. n \in Nat /\ DOMAIN message.tools = 1 .. n /\ message.tools = [i \in 1 .. n |-> message.tools[i]]
  <2> DEFINE T == Tool
  <2>1. message.tools \in Seq(T) BY <1>2
  <2> HIDE DEF T
  <2> QED BY <2>1
<1>5. \A i \in 1 .. n : toldTools[i] # NotStarted
  <2> TAKE i \in 1 .. n
  <2>1. Len(message.tools[i].input) \in Nat BY <1>2, <1>4
  <2>2. toldTools[i] = Len(message.tools[i].input) + 1 BY <1>1, <1>4 DEF ToldAll
  <2> QED BY <2>1, <2>2 DEF NotStarted
<1>6. \A i \in 1 .. n : CallSoFar(message, i, toldTools[i]) = message.tools[i]
  <2> TAKE i \in 1 .. n
  <2> DEFINE s == message.tools[i].input
  <2>1. s \in Seq(JsonPieces) /\ toldTools[i] = Len(s) + 1 BY <1>1, <1>2, <1>4 DEF ToldAll
  <2>2. toldTools[i] - 1 = Len(s) /\ SubSeq(s, 1, Len(s)) = s
    <3> HIDE DEF s
    <3> QED BY <2>1
  <2>3. message.tools[i] = [name |-> message.tools[i].name, input |-> s]
    <3>1. \A t \in Tool : t = [name |-> t.name, input |-> t.input] BY DEF Tool
    <3> QED BY <1>2, <1>4, <3>1
  <2> QED BY <2>2, <2>3 DEF CallSoFar
<1>7. calls = message.tools
  <2>1. {j \in DOMAIN message.tools : toldTools[j] # NotStarted} = 1 .. n BY <1>4, <1>5
  <2>2. calls = [i \in 1 .. n |-> CallSoFar(message, i, toldTools[i])] BY <2>1 DEF CallsSoFar
  <2> HIDE DEF calls, n
  <2> QED BY <1>4, <1>6, <2>2
<1>8. Cardinality(1 .. n) = n
  <2> HIDE DEF n
  <2>1. Cardinality(1 .. n) = IF 1 > n THEN 0 ELSE n - 1 + 1 BY <1>4, FS_Interval
  <2> QED BY <1>4, <2>1
<1>9. \A i \in 1 .. n : Nth(1 .. n, i) = i BY <1>4, NthOfAll
<1>10. got.tools = message.tools
  <2>1. got.tools = [i \in 1 .. Cardinality(DOMAIN calls) |-> calls[Nth(DOMAIN calls, i)]]
    BY AssembledParts
  <2> HIDE DEF got, calls, n
  <2>2. got.tools = [i \in 1 .. n |-> message.tools[i]] BY <1>4, <1>7, <1>8, <1>9, <2>1
  <2> QED BY <1>4, <2>2
<1>11. SoFarNow = Have(message.text, calls, {"in", "out"}, message.stop, message.model)
  BY <1>1, <1>3 DEF SoFarNow, SoFar, Have
<1>12. got = [SoFarNow EXCEPT !.tools = got.tools] BY AssembledParts
<1> HIDE DEF got, calls
<1>13. got = Have(message.text, message.tools, {"in", "out"}, message.stop, message.model)
  BY <1>10, <1>11, <1>12 DEF Have
<1> QED BY <1>13 DEF got

\* one that was cut gives a part of it.
LEMMA PartOfMessage ==
  ASSUME StreamInv
  PROVE  LET got == Assembled(events)
         IN  /\ IsPrefix(got.text, message.text)
             /\ \A i \in DOMAIN got.tools : \E j \in DOMAIN message.tools :
                   /\ got.tools[i].name = message.tools[j].name
                   /\ IsPrefix(got.tools[i].input, message.tools[j].input)
<1> DEFINE got == Assembled(events)
           calls == CallsSoFar(message, toldTools)
           S == DOMAIN calls
           n == Len(message.tools)
<1>1. message \in Message /\ ToldUpTo(message, toldText, toldTools) BY DEF StreamInv
<1>2. /\ message.text \in Seq(Pieces) /\ message.tools \in Seq(Tool)
      /\ \A i \in DOMAIN message.tools : message.tools[i].input \in Seq(JsonPieces)
  BY <1>1, ToolsAreCalls
<1>3. IsPrefix(SubSeq(message.text, 1, toldText), message.text)
  BY <1>1, <1>2, BeginningIsPrefix DEF ToldUpTo
<1>4. n \in Nat /\ DOMAIN message.tools = 1 .. n
  <2> DEFINE T == Tool
  <2>1. message.tools \in Seq(T) BY <1>2
  <2> HIDE DEF T
  <2> QED BY <2>1
<1>5. S = {j \in DOMAIN message.tools : toldTools[j] # NotStarted} BY DEF CallsSoFar
<1>6. S \in SUBSET (1 .. n) BY <1>4, <1>5
<1>7. \A j \in S : calls[j] = CallSoFar(message, j, toldTools[j]) BY DEF CallsSoFar
<1>8. ASSUME NEW j \in S
      PROVE  /\ j \in DOMAIN message.tools /\ calls[j].name = message.tools[j].name
             /\ IsPrefix(calls[j].input, message.tools[j].input)
  <2> DEFINE s == message.tools[j].input
             k == toldTools[j] - 1
  <2>1. j \in DOMAIN message.tools /\ toldTools[j] # 0 BY <1>5 DEF NotStarted
  <2>2. s \in Seq(JsonPieces) /\ toldTools[j] \in Nat /\ toldTools[j] <= Len(s) + 1
    BY <1>1, <1>2, <2>1 DEF ToldUpTo
  <2>3. k \in Nat /\ k <= Len(s)
    <3> HIDE DEF s
    <3>1. Len(s) \in Nat BY <2>2
    <3> QED BY <2>1, <2>2, <3>1
  <2>4. IsPrefix(SubSeq(s, 1, k), s)
    <3> HIDE DEF s, k
    <3> QED BY <2>2, <2>3, BeginningIsPrefix
  <2>5. calls[j].name = message.tools[j].name /\ calls[j].input = SubSeq(s, 1, k)
    <3>1. calls[j] = CallSoFar(message, j, toldTools[j]) BY <1>7
    <3>2. calls[j] = [name |-> message.tools[j].name, input |-> SubSeq(s, 1, k)]
      BY <3>1 DEF CallSoFar
    <3>3. \A r, nm, inp : r = [name |-> nm, input |-> inp] => r.name = nm /\ r.input = inp OBVIOUS
    <3> DEFINE c == calls[j]
    <3>4. c = [name |-> message.tools[j].name, input |-> SubSeq(s, 1, k)] BY <3>2
    <3> HIDE DEF c, s, k
    <3>5. c.name = message.tools[j].name /\ c.input = SubSeq(s, 1, k) BY <3>3, <3>4
    <3> QED BY <3>5 DEF c
  <2> HIDE DEF calls, S
  <2> QED BY <2>1, <2>4, <2>5
<1>9. /\ got.text = SubSeq(message.text, 1, toldText)
      /\ got.tools = [i \in 1 .. Cardinality(S) |-> calls[Nth(S, i)]]
  BY AssembledParts
<1> HIDE DEF got, calls, S, n
<1>10. \A i \in 1 .. Cardinality(S) : Nth(S, i) \in S BY <1>4, <1>6, NthIsThere
<1>11. ASSUME NEW i \in DOMAIN got.tools
       PROVE  \E j \in DOMAIN message.tools :
                 /\ got.tools[i].name = message.tools[j].name
                 /\ IsPrefix(got.tools[i].input, message.tools[j].input)
  <2>1. i \in 1 .. Cardinality(S) BY <1>9
  <2>2. Nth(S, i) \in S /\ got.tools[i] = calls[Nth(S, i)] BY <1>9, <1>10, <2>1
  <2> QED BY <1>8, <2>2
<1> QED BY <1>3, <1>9, <1>11 DEF got

\* What arguments say does not change when they are written anew.
LEMMA DumpedSaysTheSame ==
  ASSUME NEW tools
  PROVE  Meant(Meant(tools)) = Meant(tools)
<1> DEFINE anew(p) == [p EXCEPT !.written = "dumps"]
           again(t) == [t EXCEPT !.input = Dumped(@)]
<1>1. \A p : anew(anew(p)) = anew(p) OBVIOUS
<1>2. \A input : Dumped(Dumped(input)) = Dumped(input)
  <2> TAKE input
  <2> DEFINE d == Dumped(input)
  <2>1. d = [i \in DOMAIN input |-> anew(input[i])] BY DEF Dumped
  <2>2. Dumped(d) = [i \in DOMAIN d |-> anew(d[i])] BY DEF Dumped
  <2> HIDE DEF d, anew
  <2>3. DOMAIN d = DOMAIN input /\ \A i \in DOMAIN input : d[i] = anew(input[i]) BY <2>1
  <2>4. \A i \in DOMAIN input : anew(d[i]) = anew(input[i]) BY <1>1, <2>3
  <2>5. Dumped(d) = d BY <2>1, <2>2, <2>3, <2>4
  <2> QED BY <2>5 DEF d
<1>3. \A t : again(again(t)) = again(t) BY <1>2
<1> DEFINE m == Meant(tools)
<1>4. m = [i \in DOMAIN tools |-> again(tools[i])] BY DEF Meant
<1>5. Meant(m) = [i \in DOMAIN m |-> again(m[i])] BY DEF Meant
<1> HIDE DEF m, again
<1>6. DOMAIN m = DOMAIN tools /\ \A i \in DOMAIN tools : m[i] = again(tools[i]) BY <1>4
<1>7. \A i \in DOMAIN tools : again(m[i]) = again(tools[i]) BY <1>3, <1>6
<1>8. Meant(m) = m BY <1>4, <1>5, <1>6, <1>7
<1> QED BY <1>8 DEF m

\* For any message, in either dialect and in any interleaving of its pieces: what
\* is put together of a whole stream is the message the JSON answer gives, to the
\* letter in OpenAI's dialect and up to the way arguments are written in
\* Anthropic's, and what is put together of a cut one is a part of what was sent.
THEOREM AssemblesMessage == StreamSpec => []AssembledIsMessage
<1>1. ASSUME StreamInv, ending = "counted"
      PROVE  LET got   == Assembled(events)
                 whole == AsJson(message, dialect = "anthropic")
             IN  /\ [got EXCEPT !.tools = Meant(@)] = [whole EXCEPT !.tools = Meant(@)]
                 /\ dialect = "openai" => got = whole
  <2> DEFINE made(tools) == Have(message.text, tools, {"in", "out"}, message.stop, message.model)
             whole == AsJson(message, dialect = "anthropic")
  <2>1. Assembled(events) = made(message.tools) BY <1>1, WholeIsMessage
  <2>2. whole = made(IF dialect = "anthropic" THEN Meant(message.tools) ELSE message.tools)
    BY DEF AsJson, Have
  <2>3. \A tools : [made(tools) EXCEPT !.tools = Meant(@)] = made(Meant(tools)) BY DEF Have
  <2>4. Meant(Meant(message.tools)) = Meant(message.tools) BY DumpedSaysTheSame
  <2> HIDE DEF made, whole
  <2>5. [Assembled(events) EXCEPT !.tools = Meant(@)] = made(Meant(message.tools)) BY <2>1, <2>3
  <2>6. [whole EXCEPT !.tools = Meant(@)] = made(Meant(message.tools))
    <3>1. CASE dialect = "anthropic" BY <2>2, <2>3, <2>4, <3>1
    <3>2. CASE dialect # "anthropic" BY <2>2, <2>3, <3>2
    <3> QED BY <3>1, <3>2
  <2>7. dialect = "openai" => Assembled(events) = whole BY <2>1, <2>2
  <2> QED BY <2>5, <2>6, <2>7 DEF whole
<1>2. StreamInv => AssembledIsMessage BY <1>1, PartOfMessage DEF AssembledIsMessage
<1> QED BY <1>2, StreamInvariant, PTL
=============================================================================
