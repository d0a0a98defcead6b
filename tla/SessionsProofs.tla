--------------------------- MODULE SessionsProofs ---------------------------
(***************************************************************************)
(* Proofs of the safety properties of Sessions, for any connections, names *)
(* and bound.                                                              *)
(*                                                                         *)
(* Each connection keeps ConnOK, whatever the others do: LOGIN is asked    *)
(* once, before the thread has an identity; a program past its login is    *)
(* known to its thread; and unless an answer was parted a connection that  *)
(* was reset has nothing left to answer.  Holders ties the threads to the  *)
(* table they share: while no LOGOUT was answered since the name was last  *)
(* free, it is registered for every thread that has it, so that there is   *)
(* one.                                                                    *)
(***************************************************************************)
EXTENDS Sessions, SequenceTheorems, TLAPS

\* A line LOGIN is alone, and its thread is nobody yet.
LoginFirst(c) ==
  \A i \in 1..Len(requests[c]) : requests[c][i] = "LOGIN" =>
    Len(requests[c]) = 1 /\ identity[c] = NoName /\ client[c] \in {"LOGIN", "out"}

\* What a program that waits for LOGIN's answer finds.
LoginAnswered(c) ==
  client[c] = "LOGIN" =>
    /\ ~parted[c]
    /\ answers[c] # <<>> =>
         \/ answers[c][1].is = "refused"
         \/ answers[c][1].is = "done" /\ identity[c] = user[c] /\ user[c] # NoName

\* A program past its login is the one its thread serves.
Known(c) ==
  client[c] \in Command \cup {"menu", "LOGOUT"} =>
    serving[c] /\ identity[c] = user[c] /\ user[c] # NoName

\* Used and free connections.
Lifetime(c) ==
  /\ ~serving[c] => identity[c] = NoName
  /\ link[c] = "none" => ~parted[c]

\* What may still be answered when the program is gone.
Unanswered(c) ==
  ~parted[c] => /\ link[c] = "closed" => requests[c] = <<>> \/ \E r : requests[c] = <<r>>
                /\ link[c] = "reset" => requests[c] = <<>>

InStepUnlessParted(c) == link[c] = "open" /\ ~parted[c] => InStepAt(c)

ConnOK(c) ==
  /\ InStepUnlessParted(c) /\ LoginFirst(c) /\ LoginAnswered(c) /\ Known(c) /\ Lifetime(c)
  /\ Unanswered(c)

Holders ==
  \A c \in Conn : identity[c] \in Name \ logged_out => active_sessions[identity[c]] = c

IInv ==
  TypeOK /\ (\A c \in Conn : ConnOK(c)) /\ SessionsBelong /\ Holders /\ OnlyPartedResetsKill
-----------------------------------------------------------------------------
(***************************************************************************)
(* Sequences, and connections that a step does not concern.                *)
(***************************************************************************)
LEMMA Rest ==
  ASSUME NEW S, NEW s \in Seq(S), NEW n \in 0..Len(s)
  PROVE  LET r == SubSeq(s, n + 1, Len(s))
         IN  /\ r \in Seq(S) /\ Len(r) = Len(s) - n
             /\ \A i \in 1..Len(r) : r[i] = s[n + i]
             /\ n = Len(s) => r = <<>>
             /\ n = 0 => r = s
<1> DEFINE r == SubSeq(s, n + 1, Len(s))
<1>1. Len(s) \in Nat /\ \A i \in 1..Len(s) : s[i] \in S
  BY LenProperties
<1>2. n + 1 \in Int /\ Len(s) \in Int /\ \A i \in (n + 1)..Len(s) : s[i] \in S
  BY <1>1
<1>3. r \in Seq(S) /\ Len(r) = IF n + 1 <= Len(s) THEN Len(s) - (n + 1) + 1 ELSE 0
  BY <1>1, <1>2, SubSeqProperties
<1>4. \A i \in 1..(Len(s) - (n + 1) + 1) : r[i] = s[(n + 1) + i - 1]
  BY <1>1, <1>2, SubSeqProperties
<1>5. Len(r) = Len(s) - n
  BY <1>1, <1>3
<1>6. \A i \in 1..Len(r) : r[i] = s[n + i]
  BY <1>1, <1>4, <1>5
<1>7. n = Len(s) => r = <<>>
  BY <1>1, SubSeqEmpty
<1>8. n = 0 => r = s
  BY <1>1, SubSeqFull
<1> QED BY <1>3, <1>5, <1>6, <1>7, <1>8

\* Nothing of connection d changes.
SameAt(d) ==
  /\ client'[d] = client[d] /\ user'[d] = user[d] /\ link'[d] = link[d]
  /\ requests'[d] = requests[d] /\ answers'[d] = answers[d]
  /\ serving'[d] = serving[d] /\ identity'[d] = identity[d] /\ parted'[d] = parted[d]

LEMMA OthersKeep ==
  ASSUME NEW d \in Conn, ConnOK(d), SameAt(d)
  PROVE  ConnOK(d)'
BY DEF SameAt, ConnOK, InStepUnlessParted, InStepAt, LoginFirst, LoginAnswered, Known,
   Lifetime, Unanswered

\* A step of connection c, as far as it concerns the connections.
LEMMA ConnStep ==
  ASSUME \A d \in Conn : ConnOK(d), NEW c \in Conn, ConnOK(c)',
         \A d \in Conn \ {c} : SameAt(d)
  PROVE  (\A d \in Conn : ConnOK(d))'
BY OthersKeep

LEMMA TypedAt ==
  ASSUME TypeOK, NEW c \in Conn
  PROVE  /\ requests[c] \in Seq(Request) /\ Len(requests[c]) \in Nat
         /\ answers[c] \in Seq(Reply) /\ Len(answers[c]) \in Nat
         /\ requests[c] = <<>> <=> Len(requests[c]) = 0
         /\ answers[c] = <<>> <=> Len(answers[c]) = 0
         /\ serving[c] \in BOOLEAN /\ parted[c] \in BOOLEAN
<1>1. requests[c] \in Seq(Request) /\ answers[c] \in Seq(Reply)
      /\ serving[c] \in BOOLEAN /\ parted[c] \in BOOLEAN
  BY DEF TypeOK
<1> QED BY <1>1, LenProperties, EmptySeq

\* The table and the threads' identities are left alone.
LEMMA TableKept ==
  ASSUME SessionsBelong, Holders, UNCHANGED <<active_sessions, identity, serving, logged_out>>
  PROVE  SessionsBelong' /\ Holders'
BY DEF SessionsBelong, Holders

LEMMA InitIInv == Init => IInv
<1> SUFFICES ASSUME Init PROVE IInv
  OBVIOUS
<1>1. <<>> \in Seq(Request) /\ <<>> \in Seq(Reply) /\ Len(<<>>) = 0
  BY EmptySeq
<1>2. TypeOK
  BY <1>1 DEF Init, TypeOK, Request
<1>3. \A c \in Conn : ConnOK(c)
  <2> SUFFICES ASSUME Init, NEW c \in Conn PROVE ConnOK(c)
    OBVIOUS
  <2>1. LoginFirst(c)
    BY <1>1 DEF Init, LoginFirst
  <2>2. /\ InStepUnlessParted(c) /\ LoginAnswered(c) /\ Known(c) /\ Lifetime(c)
        /\ Unanswered(c)
    BY CommandAssumption DEF Init, InStepUnlessParted, LoginAnswered, Known, Lifetime,
       Unanswered, Command
  <2> QED BY <2>1, <2>2 DEF ConnOK
<1>4. SessionsBelong /\ Holders /\ OnlyPartedResetsKill
  BY NothingAssumption DEF Init, SessionsBelong, Holders, OnlyPartedResetsKill
<1> QED BY <1>2, <1>3, <1>4 DEF IInv
-----------------------------------------------------------------------------
(***************************************************************************)
(* The client program's steps.                                             *)
(***************************************************************************)
LEMMA ConnectOK ==
  ASSUME IInv, NEW c \in Conn, NEW n \in Name \cup {NoName}, Connect(c, n)
  PROVE  IInv'
<1> USE DEF Connect, table
<1>1. link[c] = "none" /\ ~serving[c] /\ answers[c] = <<>> /\ ~parted[c] /\ identity[c] = NoName
  BY DEF IInv, TypeOK, ConnOK, Lifetime
<1>2. <<"LOGIN">> \in Seq(Request) /\ Len(<<"LOGIN">>) = 1 /\ <<"LOGIN">>[1] = "LOGIN"
  BY DEF Request
<1>3. TypeOK'
  BY <1>1, <1>2 DEF IInv, TypeOK, Request
<1>4. /\ client'[c] = "LOGIN" /\ user'[c] = n /\ link'[c] = "open"
      /\ requests'[c] = <<"LOGIN">> /\ answers'[c] = <<>>
      /\ ~serving'[c] /\ ~parted'[c] /\ identity'[c] = NoName
  BY <1>1 DEF IInv, TypeOK
<1>5. ConnOK(c)'
  <2>1. InStepUnlessParted(c)'
    BY <1>4 DEF InStepUnlessParted, InStepAt, Request
  <2>3. LoginFirst(c)'
    BY <1>2, <1>4 DEF LoginFirst
  <2>2. LoginAnswered(c)' /\ Known(c)' /\ Lifetime(c)' /\ Unanswered(c)'
    BY <1>4, CommandAssumption DEF LoginAnswered, Known, Lifetime, Unanswered, Command
  <2> QED BY <2>1, <2>2, <2>3 DEF ConnOK
<1>6. \A d \in Conn \ {c} : SameAt(d)
  BY DEF IInv, TypeOK, SameAt
<1>7. SessionsBelong' /\ Holders'
  BY TableKept DEF IInv
<1>8. OnlyPartedResetsKill'
  BY <1>1 DEF IInv, TypeOK, OnlyPartedResetsKill
<1> QED BY <1>3, <1>5, <1>6, <1>7, <1>8, ConnStep DEF IInv

LEMMA AskOK ==
  ASSUME IInv, server = "up", NEW c \in Conn, NEW r \in Command \cup {"LOGOUT"}, Ask(c, r)
  PROVE  IInv'
<1> USE DEF Ask, table
<1>1. r \in Request /\ r # "LOGIN" /\ link[c] = "open" /\ serving[c] /\ identity[c] = user[c]
  BY CommandAssumption DEF IInv, TypeOK, ConnOK, Known, Request, Command
<1>2. /\ Append(requests[c], r) \in Seq(Request)
      /\ Append(requests[c], r) # <<>>
      /\ Len(Append(requests[c], r)) = Len(requests[c]) + 1
      /\ \A i \in 1..Len(requests[c]) : Append(requests[c], r)[i] = requests[c][i]
      /\ Append(requests[c], r)[Len(requests[c]) + 1] = r
      /\ Len(requests[c]) \in Nat /\ Len(answers[c]) \in Nat
  BY <1>1, TypedAt, AppendProperties DEF IInv
<1>3. TypeOK'
  <2>1. client' \in [Conn -> Request \cup {"out", "menu", "leaving"}]
        /\ requests' \in [Conn -> Seq(Request)]
    BY <1>1, <1>2 DEF IInv, TypeOK
  <2>2. \A d \in Conn : (link[d] = "open" <=> client'[d] # "out")
                        /\ (link[d] = "none" => requests'[d] = <<>>)
    <3> SUFFICES ASSUME NEW d \in Conn
                 PROVE  /\ link[d] = "open" <=> client'[d] # "out"
                        /\ link[d] = "none" => requests'[d] = <<>>
      OBVIOUS
    <3>1. CASE d = c
      BY <1>1, <3>1, CommandAssumption DEF IInv, TypeOK, Command
    <3>2. CASE d # c
      BY <3>2 DEF IInv, TypeOK
    <3> QED BY <3>1, <3>2
  <2> QED BY <2>1, <2>2 DEF IInv, TypeOK
<1>4. /\ client'[c] = r /\ user'[c] = user[c] /\ link'[c] = "open"
      /\ requests'[c] = Append(requests[c], r) /\ answers'[c] = answers[c]
      /\ serving'[c] /\ parted'[c] = parted[c] /\ identity'[c] = identity[c]
  BY <1>1 DEF IInv, TypeOK
<1>5. InStepUnlessParted(c)'
  <2> SUFFICES ASSUME ~parted[c] PROVE requests'[c] = <<r>> /\ answers'[c] = <<>>
    BY <1>1, <1>4 DEF InStepUnlessParted, InStepAt
  <2>1. client[c] \notin Request
    BY CommandAssumption DEF Request, Command
  <2>2. requests[c] = <<>> /\ answers[c] = <<>>
    BY <1>1, <2>1 DEF IInv, ConnOK, InStepUnlessParted, InStepAt
  <2> QED BY <1>4, <2>2
<1>6. LoginFirst(c)'
  <2>1. \A i \in 1..Len(requests[c]) : requests[c][i] # "LOGIN"
    BY DEF IInv, ConnOK, LoginFirst
  <2>2. \A i \in 1..Len(requests'[c]) : requests'[c][i] # "LOGIN"
    BY <1>1, <1>2, <1>4, <2>1
  <2> QED BY <2>2 DEF LoginFirst
<1>7. ConnOK(c)'
  BY <1>1, <1>4, <1>5, <1>6 DEF IInv, ConnOK, LoginAnswered, Known, Lifetime, Unanswered
<1>8. \A d \in Conn \ {c} : SameAt(d)
  BY DEF IInv, TypeOK, SameAt
<1>9. SessionsBelong' /\ Holders' /\ OnlyPartedResetsKill'
  BY TableKept DEF IInv, OnlyPartedResetsKill
<1> QED BY <1>3, <1>7, <1>8, <1>9, ConnStep DEF IInv

LEMMA ReceiveOK ==
  ASSUME IInv, server = "up", NEW c \in Conn, Receive(c)
  PROVE  IInv'
<1> USE DEF Receive, table
<1>0. PICK k \in 0..Len(answers[c]) :
        /\ k = 0 => answers[c][1].is = "long"
        /\ answers' = [answers EXCEPT ![c] = SubSeq(@, k + 1, Len(@))]
        /\ parted' = [parted EXCEPT ![c] = @ \/ k < Len(answers[c])]
  OBVIOUS
<1>1. /\ link[c] = "open" /\ answers[c] \in Seq(Reply) /\ Len(answers[c]) \in Nat
      /\ Len(answers[c]) # 0
  <2>1. "out" \notin Request
    BY CommandAssumption DEF Request, Command
  <2> QED BY <2>1, TypedAt DEF IInv, TypeOK
<1>2. /\ answers'[c] \in Seq(Reply)
      /\ k = Len(answers[c]) => answers'[c] = <<>>
      /\ Len(answers'[c]) = Len(answers[c]) - k
  <2>1. answers'[c] = SubSeq(answers[c], k + 1, Len(answers[c]))
    BY <1>0 DEF IInv, TypeOK
  <2>2. k \in 0..Len(answers[c])
    BY <1>0
  <2>3. LET r == SubSeq(answers[c], k + 1, Len(answers[c]))
        IN  /\ r \in Seq(Reply) /\ Len(r) = Len(answers[c]) - k
            /\ k = Len(answers[c]) => r = <<>>
    BY <1>1, <2>2, Rest
  <2> QED BY <2>1, <2>3
<1>3. client'[c] \in {"menu", "leaving"} /\ client'[c] = After(c, answers[c][1])
  BY DEF IInv, TypeOK, After
<1>4. TypeOK'
  <2>1. /\ client' \in [Conn -> Request \cup {"out", "menu", "leaving"}]
        /\ answers' \in [Conn -> Seq(Reply)] /\ parted' \in [Conn -> BOOLEAN]
    BY <1>0, <1>2, <1>3 DEF IInv, TypeOK
  <2>2. \A d \in Conn : d # c => client'[d] = client[d] /\ answers'[d] = answers[d]
    BY <1>0 DEF IInv, TypeOK
  <2> QED BY <1>1, <1>3, <2>1, <2>2 DEF IInv, TypeOK
<1>5. /\ user'[c] = user[c] /\ link'[c] = "open" /\ requests'[c] = requests[c]
      /\ serving'[c] = serving[c] /\ identity'[c] = identity[c]
      /\ parted'[c] = (parted[c] \/ k < Len(answers[c]))
  BY <1>0, <1>1 DEF IInv, TypeOK
<1>6. Len(requests[c]) \in Nat /\ (requests[c] = <<>> <=> Len(requests[c]) = 0)
      /\ parted[c] \in BOOLEAN
  BY TypedAt DEF IInv
<1>7. InStepUnlessParted(c)'
  <2> SUFFICES ASSUME ~parted'[c] PROVE requests'[c] = <<>> /\ answers'[c] = <<>>
    BY <1>3, CommandAssumption DEF InStepUnlessParted, InStepAt, Request, Command
  <2>1. ~parted[c] /\ ~(k < Len(answers[c]))
    BY <1>5, <1>6
  <2>2. k = Len(answers[c])
    BY <1>1, <2>1
  <2>3. requests[c] = <<>>
    BY <1>1, <2>1 DEF IInv, ConnOK, InStepUnlessParted, InStepAt
  <2> QED BY <1>2, <1>5, <2>2, <2>3
<1>8. LoginFirst(c)'
  <2> SUFFICES ASSUME NEW i \in 1..Len(requests[c]), requests[c][i] = "LOGIN" PROVE FALSE
    BY <1>5 DEF LoginFirst
  <2>1. client[c] = "LOGIN" /\ Len(requests[c]) = 1
    BY <1>1 DEF IInv, TypeOK, ConnOK, LoginFirst
  <2>2. requests[c] = <<>>
    BY <1>1, <2>1 DEF IInv, ConnOK, InStepUnlessParted, InStepAt, LoginAnswered
  <2> QED BY <1>6, <2>1, <2>2
<1>9. Known(c)'
  <2>1. CASE client[c] # "LOGIN"
    BY <1>3, <1>5, <2>1 DEF IInv, TypeOK, ConnOK, Known, Request, After
  <2>2. CASE client[c] = "LOGIN" /\ client'[c] = "menu"
    <3>1. answers[c][1].is # "refused"
      BY <1>3, <2>2 DEF After
    <3>2. identity[c] = user[c] /\ user[c] # NoName
      BY <2>2, <3>1 DEF IInv, ConnOK, LoginAnswered
    <3>3. user[c] \in Name
      BY <3>2 DEF IInv, TypeOK
    <3>4. serving[c]
      BY <3>2, <3>3, NothingAssumption DEF IInv, ConnOK, Lifetime, TypeOK
    <3> QED BY <1>5, <3>2, <3>4 DEF Known
  <2> QED BY <1>3, <2>1, <2>2, CommandAssumption DEF Known, Command
<1>10. LoginAnswered(c)' /\ Lifetime(c)' /\ Unanswered(c)'
  BY <1>1, <1>3, <1>5 DEF IInv, ConnOK, LoginAnswered, Lifetime, Unanswered
<1>11. \A d \in Conn \ {c} : SameAt(d)
  BY <1>0 DEF IInv, TypeOK, SameAt
<1>12. SessionsBelong' /\ Holders' /\ OnlyPartedResetsKill'
  BY TableKept DEF IInv, OnlyPartedResetsKill
<1>13. ConnOK(c)'
  BY <1>7, <1>8, <1>9, <1>10 DEF ConnOK
<1> QED BY <1>4, <1>11, <1>12, <1>13, ConnStep DEF IInv

LEMMA HangUpOK ==
  ASSUME IInv, server = "up", NEW c \in Conn, client[c] # "out", HangUp(c)
  PROVE  IInv'
<1> USE DEF HangUp, table
<1>1. link[c] = "open"
  BY DEF IInv, TypeOK
<1>2. TypeOK'
  <2>1. <<>> \in Seq(Reply)
    BY EmptySeq
  <2> QED BY <1>1, <2>1 DEF IInv, TypeOK, Request
<1>3. /\ client'[c] = "out" /\ user'[c] = user[c] /\ requests'[c] = requests[c]
      /\ link'[c] = IF answers[c] = <<>> THEN "closed" ELSE "reset"
      /\ answers'[c] = <<>> /\ parted'[c] = parted[c]
      /\ serving'[c] = serving[c] /\ identity'[c] = identity[c]
  BY DEF IInv, TypeOK
<1>4. Unanswered(c)'
  <2> SUFFICES ASSUME ~parted[c]
               PROVE  /\ requests[c] = <<>> \/ \E r : requests[c] = <<r>>
                      /\ answers[c] # <<>> => requests[c] = <<>>
    BY <1>3 DEF Unanswered
  <2>1. InStepAt(c)
    BY <1>1 DEF IInv, ConnOK, InStepUnlessParted
  <2>2. requests[c] = <<>> \/ (requests[c] = <<client[c]>> /\ answers[c] = <<>>)
    BY <2>1 DEF InStepAt
  <2> QED BY <2>2
<1>5. InStepUnlessParted(c)' /\ LoginAnswered(c)' /\ Known(c)' /\ Lifetime(c)'
  <2>1. link'[c] # "open" /\ link'[c] # "none"
    BY <1>3
  <2>2. client'[c] \notin Command \cup {"menu", "LOGOUT", "LOGIN"}
    BY <1>3, CommandAssumption DEF Command
  <2>3. InStepUnlessParted(c)' /\ LoginAnswered(c)' /\ Known(c)'
    BY <2>1, <2>2 DEF InStepUnlessParted, LoginAnswered, Known
  <2>4. Lifetime(c)'
    BY <1>1, <1>3, <2>1 DEF IInv, ConnOK, Lifetime
  <2> QED BY <2>3, <2>4
<1>6. LoginFirst(c)'
  BY <1>3 DEF IInv, ConnOK, LoginFirst
<1>7. \A d \in Conn \ {c} : SameAt(d)
  BY DEF IInv, TypeOK, SameAt
<1>8. SessionsBelong' /\ Holders' /\ OnlyPartedResetsKill'
  BY TableKept DEF IInv, OnlyPartedResetsKill
<1>9. ConnOK(c)'
  BY <1>4, <1>5, <1>6 DEF ConnOK
<1> QED BY <1>2, <1>7, <1>8, <1>9, ConnStep DEF IInv
-----------------------------------------------------------------------------
(***************************************************************************)
(* The server's steps: what reading and answering do to a connection,      *)
(* whatever the command.                                                   *)
(***************************************************************************)
LEMMA ReadOK ==
  ASSUME IInv, NEW c \in Conn, NEW n \in 1..Len(requests[c]), Read(c, n)
  PROVE  /\ requests' \in [Conn -> Seq(Request)]
         /\ \A d \in Conn \ {c} : requests'[d] = requests[d]
         /\ link[c] # "none" /\ serving[c]
         /\ ~parted[c] => requests'[c] = <<>> /\ link[c] # "reset"
         /\ LoginFirst(c)'
<1> DEFINE left == SubSeq(requests[c], n + 1, Len(requests[c]))
<1>1. requests[c] \in Seq(Request) /\ Len(requests[c]) \in Nat /\ n \in 0..Len(requests[c])
      /\ Len(requests[c]) # 0 /\ n >= 1
  BY TypedAt DEF IInv
<1>2. /\ left \in Seq(Request)
      /\ Len(left) = Len(requests[c]) - n
      /\ \A i \in 1..Len(left) : left[i] = requests[c][n + i]
      /\ n = Len(requests[c]) => left = <<>>
  BY <1>1, Rest
<1>3. requests' = [requests EXCEPT ![c] = left] /\ requests'[c] = left
  BY DEF Read, IInv, TypeOK
<1>4. requests' \in [Conn -> Seq(Request)] /\ \A d \in Conn \ {c} : requests'[d] = requests[d]
  BY <1>2, <1>3 DEF IInv, TypeOK
<1>5. link[c] # "none" /\ serving[c]
  BY DEF IInv, TypeOK, Read
<1>6. ASSUME ~parted[c] PROVE requests'[c] = <<>> /\ link[c] # "reset"
  <2>1. requests[c] # <<>>
    BY <1>1
  <2>2. link[c] # "reset"
    BY <1>6, <2>1 DEF IInv, ConnOK, Unanswered
  <2>3. \E r : requests[c] = <<r>>
    BY <1>5, <1>6, <2>1, <2>2 DEF IInv, TypeOK, ConnOK, Unanswered, InStepUnlessParted, InStepAt
  <2>4. Len(requests[c]) = 1
    BY <2>3
  <2>5. n = Len(requests[c])
    BY <2>4
  <2>6. left = <<>>
    <3>1. n = Len(requests[c]) => left = <<>>
      BY <1>2
    <3> HIDE DEF left
    <3> QED BY <2>5, <3>1
  <2> QED BY <1>3, <2>2, <2>6
<1>7. LoginFirst(c)'
  <2> SUFFICES ASSUME NEW i \in 1..Len(left), left[i] = "LOGIN" PROVE FALSE
    BY <1>3 DEF LoginFirst
  <2>0. Len(left) = Len(requests[c]) - n /\ left[i] = requests[c][n + i]
    BY <1>2
  <2> HIDE DEF left
  <2>3. n + i \in 1..Len(requests[c]) /\ n + i # 1
    BY <1>1, <2>0
  <2>1. n + i \in 1..Len(requests[c]) /\ requests[c][n + i] = "LOGIN" /\ n + i # 1
    BY <2>0, <2>3
  <2>2. Len(requests[c]) = 1
    BY <2>1 DEF IInv, ConnOK, LoginFirst
  <2> QED BY <1>1, <2>1, <2>2
<1> QED BY <1>4, <1>5, <1>6, <1>7

LEMMA ReplyOK ==
  ASSUME IInv, server = "up", NEW c \in Conn, NEW n \in 1..Len(requests[c]), Read(c, n),
         NEW a \in Reply, SendReply(c, a), a.to = Head(requests[c]),
         link[c] = "open" /\ ~parted[c] /\ a.is = "refused" => a.to = "LOGIN",
         identity' \in [Conn -> Name \cup {NoName}],
         active_sessions' \in [Name -> Conn \cup {NoConn}], logged_out' \subseteq Name
  PROVE  /\ TypeOK' /\ OnlyPartedResetsKill'
         /\ InStepUnlessParted(c)' /\ LoginFirst(c)' /\ Unanswered(c)'
         /\ link'[c] # "none" /\ serving[c]
         /\ answers'[c] # <<>> /\ client[c] = "LOGIN" =>
              a.to = "LOGIN" /\ answers'[c][1] = a
         /\ \A d \in Conn \ {c} : identity'[d] = identity[d] => SameAt(d)
<1>1. /\ requests' \in [Conn -> Seq(Request)]
      /\ \A d \in Conn \ {c} : requests'[d] = requests[d]
      /\ link[c] # "none" /\ serving[c]
      /\ ~parted[c] => requests'[c] = <<>> /\ link[c] # "reset"
      /\ LoginFirst(c)'
  BY ReadOK
<1>2. UNCHANGED <<client, user, serving, parted>>
  BY DEF Read
<1>3. /\ answers[c] \in Seq(Reply) /\ Append(answers[c], a) \in Seq(Reply)
  BY TypedAt, AppendProperties DEF IInv
<1>4. /\ link' \in [Conn -> {"open", "closed", "reset", "none"}]
      /\ answers' \in [Conn -> Seq(Reply)] /\ server' \in {"up", "down"}
      /\ \A d \in Conn \ {c} : link'[d] = link[d] /\ answers'[d] = answers[d]
      /\ link'[c] # "none" /\ (link'[c] = "open" <=> link[c] = "open")
      /\ link[c] = "open" => answers'[c] = Append(answers[c], a)
      /\ link[c] # "open" => answers'[c] = answers[c]
      /\ link[c] = "closed" => link'[c] = "reset"
      /\ link[c] = "reset" => link'[c] = "reset"
      /\ server' = "down" => link[c] = "reset"
  <2>1. CASE link[c] = "open" /\ answers' = [answers EXCEPT ![c] = Append(@, a)]
             /\ UNCHANGED <<link, server>>
    BY <1>3, <2>1 DEF IInv, TypeOK
  <2>2. CASE link[c] = "closed" /\ link' = [link EXCEPT ![c] = "reset"]
             /\ UNCHANGED <<answers, server>>
    BY <2>2 DEF IInv, TypeOK
  <2>3. CASE link[c] = "reset" /\ server' = "down" /\ UNCHANGED <<link, answers>>
    BY <2>3 DEF IInv, TypeOK
  <2> QED BY <2>1, <2>2, <2>3 DEF SendReply
<1>5. TypeOK'
  <2> SUFFICES ASSUME NEW d \in Conn
               PROVE  /\ link'[d] = "open" <=> client'[d] # "out"
                      /\ link'[d] # "open" => answers'[d] = <<>>
                      /\ link'[d] = "none" => ~serving'[d] /\ requests'[d] = <<>>
    BY <1>1, <1>2, <1>4 DEF IInv, TypeOK
  <2>1. CASE d = c
    BY <1>2, <1>4, <2>1 DEF IInv, TypeOK
  <2>2. CASE d # c
    BY <1>1, <1>2, <1>4, <2>2 DEF IInv, TypeOK
  <2> QED BY <2>1, <2>2
<1>6. link[c] = "open" /\ ~parted[c] =>
        /\ client[c] \in Request /\ a.to = client[c] /\ requests'[c] = <<>>
        /\ answers'[c] = <<a>>
  <2> SUFFICES ASSUME link[c] = "open", ~parted[c]
               PROVE  /\ client[c] \in Request /\ a.to = client[c] /\ requests'[c] = <<>>
                      /\ answers'[c] = <<a>>
    OBVIOUS
  <2>1. requests[c] # <<>>
    BY TypedAt DEF IInv
  <2>2. client[c] \in Request /\ requests[c] = <<client[c]>> /\ answers[c] = <<>>
    BY <2>1 DEF IInv, ConnOK, InStepUnlessParted, InStepAt
  <2>3. Head(requests[c]) = client[c] /\ answers'[c] = <<a>>
    BY <1>4, <2>2
  <2> QED BY <1>1, <2>2, <2>3
<1>7. InStepUnlessParted(c)'
  BY <1>2, <1>4, <1>6 DEF InStepUnlessParted, InStepAt
<1>8. Unanswered(c)'
  BY <1>1, <1>2, <1>4 DEF Unanswered, IInv, TypeOK
<1>9. OnlyPartedResetsKill'
  BY <1>1, <1>2, <1>4 DEF OnlyPartedResetsKill
<1>10. answers'[c] # <<>> /\ client[c] = "LOGIN" => a.to = "LOGIN" /\ answers'[c][1] = a
  <2> SUFFICES ASSUME client[c] = "LOGIN" PROVE a.to = "LOGIN" /\ answers'[c][1] = a
    OBVIOUS
  <2>1. link[c] = "open" /\ ~parted[c]
    BY DEF IInv, TypeOK, ConnOK, LoginAnswered
  <2> QED BY <1>6, <2>1
<1>11. ASSUME NEW d \in Conn \ {c}, identity'[d] = identity[d] PROVE SameAt(d)
  BY <1>1, <1>2, <1>4, <1>11 DEF SameAt
<1> QED BY <1>1, <1>4, <1>5, <1>7, <1>8, <1>9, <1>10, <1>11

\* What is left to show of a step that answers: what the program learns, whom the
\* thread serves, and the table.
LEMMA ServedOK ==
  ASSUME IInv, server = "up", NEW c \in Conn, NEW n \in 1..Len(requests[c]), Read(c, n),
         NEW a \in Reply, SendReply(c, a), a.to = Head(requests[c]),
         link[c] = "open" /\ ~parted[c] /\ a.is = "refused" => a.to = "LOGIN",
         a.to = "LOGIN" => \/ a.is = "refused"
                           \/ a.is = "done" /\ identity'[c] = user[c] /\ user[c] # NoName,
         a.to # "LOGIN" => identity'[c] = identity[c],
         client[c] \in Command \cup {"menu", "LOGOUT"} => identity'[c] = identity[c],
         identity' \in [Conn -> Name \cup {NoName}],
         \A d \in Conn \ {c} : identity'[d] = identity[d],
         active_sessions' \in [Name -> Conn \cup {NoConn}], logged_out' \subseteq Name,
         SessionsBelong', Holders'
  PROVE  IInv'
<1>1. /\ TypeOK' /\ OnlyPartedResetsKill'
      /\ InStepUnlessParted(c)' /\ LoginFirst(c)' /\ Unanswered(c)'
      /\ link'[c] # "none" /\ serving[c]
      /\ answers'[c] # <<>> /\ client[c] = "LOGIN" => a.to = "LOGIN" /\ answers'[c][1] = a
      /\ \A d \in Conn \ {c} : SameAt(d)
  BY ReplyOK
<1>2. UNCHANGED <<client, user, serving, parted>>
  BY DEF Read
<1>3. ConnOK(c)
  BY DEF IInv
<1>4. LoginAnswered(c)'
  BY <1>1, <1>2, <1>3 DEF ConnOK, LoginAnswered
<1>5. Known(c)' /\ Lifetime(c)'
  BY <1>1, <1>2, <1>3, ReadOK DEF ConnOK, Known, Lifetime
<1>6. ConnOK(c)'
  BY <1>1, <1>4, <1>5 DEF ConnOK
<1> QED BY <1>1, <1>6, ConnStep DEF IInv

\* The first line, when it is read.
LEMMA FirstLine ==
  ASSUME IInv, NEW c \in Conn, requests[c] # <<>>
  PROVE  /\ Head(requests[c]) \in Request /\ 1 \in 1..Len(requests[c])
         /\ Head(requests[c]) = "LOGIN" => identity[c] = NoName /\ client[c] \in {"LOGIN", "out"}
         /\ link[c] # "none"
<1>1. /\ requests[c] \in Seq(Request) /\ Len(requests[c]) \in Nat /\ Len(requests[c]) # 0
      /\ link[c] # "none"
  BY TypedAt DEF IInv, TypeOK
<1>2. Head(requests[c]) = requests[c][1] /\ 1 \in 1..Len(requests[c])
  BY <1>1
<1>3. LoginFirst(c)
  BY DEF IInv, ConnOK
<1>4. requests[c][1] \in Request
  BY <1>1, <1>2, LenProperties
<1> QED BY <1>1, <1>2, <1>3, <1>4 DEF LoginFirst

LEMMA LoginSucceedsOK ==
  ASSUME IInv, server = "up", NEW c \in Conn, LoginSucceeds(c)
  PROVE  IInv'
<1> DEFINE a == [to |-> "LOGIN", is |-> "done"]
<1>1. /\ 1 \in 1..Len(requests[c]) /\ user[c] \in Name /\ identity[c] = NoName
      /\ client[c] \in {"LOGIN", "out"} /\ link[c] # "none" /\ Head(requests[c]) = "LOGIN"
  BY FirstLine DEF LoginSucceeds, IInv, TypeOK
<1>2. Read(c, 1) /\ SendReply(c, a) /\ AddSession(user[c], c) /\ logged_out' = logged_out
      /\ identity' = [identity EXCEPT ![c] = user[c]] /\ serving' = serving /\ serving[c]
  BY DEF LoginSucceeds, Read
<1>3. a \in Reply /\ a.to = "LOGIN" /\ a.is = "done"
  BY DEF Reply, Request
<1>4. /\ identity' \in [Conn -> Name \cup {NoName}] /\ identity'[c] = user[c]
      /\ \A d \in Conn \ {c} : identity'[d] = identity[d]
      /\ active_sessions' \in [Name -> Conn \cup {NoConn}] /\ logged_out' \subseteq Name
      /\ active_sessions'[user[c]] = c /\ active_sessions[user[c]] = NoConn
      /\ \A m \in Name \ {user[c]} : active_sessions'[m] = active_sessions[m]
  BY <1>1, <1>2 DEF IInv, TypeOK, AddSession
<1>5. client[c] \notin Command \cup {"menu", "LOGOUT"}
  BY <1>1, CommandAssumption DEF Command
<1>6. SessionsBelong'
  <2> SUFFICES ASSUME NEW m \in Name, active_sessions'[m] # NoConn
               PROVE  serving'[active_sessions'[m]] /\ identity'[active_sessions'[m]] = m
    BY DEF SessionsBelong
  <2>1. CASE m = user[c]
    BY <1>2, <1>4, <2>1
  <2>2. CASE m # user[c]
    <3>1. active_sessions[m] \in Conn /\ serving[active_sessions[m]]
          /\ identity[active_sessions[m]] = m
      BY <1>4, <2>2 DEF IInv, TypeOK, SessionsBelong
    <3>2. active_sessions[m] # c
      BY <1>1, <3>1, NothingAssumption
    <3> QED BY <1>2, <1>4, <2>2, <3>1, <3>2
  <2> QED BY <2>1, <2>2
<1>7. Holders'
  <2> SUFFICES ASSUME NEW d \in Conn, identity'[d] \in Name \ logged_out
               PROVE  active_sessions'[identity'[d]] = d
    BY <1>2 DEF Holders
  <2>1. CASE d = c
    BY <1>4, <2>1
  <2>2. CASE d # c
    <3>1. active_sessions[identity[d]] = d /\ identity'[d] = identity[d]
      BY <1>4, <2>2 DEF IInv, Holders
    <3>2. identity[d] # user[c]
      BY <1>4, <3>1, NothingAssumption
    <3> QED BY <1>4, <3>1, <3>2
  <2> QED BY <2>1, <2>2
<1>8. user[c] # NoName
  BY <1>1, NothingAssumption
<1> QED BY <1>1, <1>2, <1>3, <1>4, <1>5, <1>6, <1>7, <1>8, ServedOK

LEMMA LoginFailsOK ==
  ASSUME IInv, server = "up", NEW c \in Conn, LoginFails(c)
  PROVE  IInv'
<1> DEFINE a == [to |-> "LOGIN", is |-> "refused"]
<1>1. 1 \in 1..Len(requests[c]) /\ Head(requests[c]) = "LOGIN"
  BY FirstLine DEF LoginFails
<1>2. Read(c, 1) /\ SendReply(c, a) /\ UNCHANGED <<identity, active_sessions, logged_out, serving>>
  BY DEF LoginFails, Read, table
<1>3. a \in Reply /\ a.to = "LOGIN" /\ a.is = "refused"
  BY DEF Reply, Request
<1>4. /\ identity' \in [Conn -> Name \cup {NoName}]
      /\ active_sessions' \in [Name -> Conn \cup {NoConn}] /\ logged_out' \subseteq Name
  BY <1>2 DEF IInv, TypeOK
<1>5. SessionsBelong' /\ Holders'
  BY <1>2, TableKept DEF IInv
<1> QED BY <1>1, <1>2, <1>3, <1>4, <1>5, ServedOK

LEMMA ServeOK ==
  ASSUME IInv, server = "up", NEW c \in Conn, NEW r \in Command,
         NEW n \in 1..Len(requests[c]), Serve(c, r, n)
  PROVE  IInv'
<1>1. r \in Request /\ r # "LOGIN" /\ r = Head(requests[c])
  BY CommandAssumption DEF Serve, Command, Request
<1>2. Read(c, n) /\ UNCHANGED <<identity, active_sessions, logged_out, serving>>
  BY DEF Serve, Read, table
<1>3. /\ identity' \in [Conn -> Name \cup {NoName}]
      /\ active_sessions' \in [Name -> Conn \cup {NoConn}] /\ logged_out' \subseteq Name
  BY <1>2 DEF IInv, TypeOK
<1>4. SessionsBelong' /\ Holders'
  BY <1>2, TableKept DEF IInv
<1>5. \A is \in {"done", "long"} : SendReply(c, [to |-> r, is |-> is]) => IInv'
  <2> SUFFICES ASSUME NEW is \in {"done", "long"}, SendReply(c, [to |-> r, is |-> is])
               PROVE  IInv'
    OBVIOUS
  <2> DEFINE a == [to |-> r, is |-> is]
  <2>1. a \in Reply /\ a.to = r /\ a.is # "refused"
    BY <1>1 DEF Reply
  <2> HIDE DEF a
  <2>2. SendReply(c, a)
    BY DEF a
  <2> QED BY <1>1, <1>2, <1>3, <1>4, <2>1, <2>2, ServedOK
<1>6. CASE ~Admitted(c, r, n) /\ SendReply(c, [to |-> r, is |-> "refused"])
  <2> DEFINE a == [to |-> r, is |-> "refused"]
  <2>1. a \in Reply /\ a.to = r
    BY <1>1 DEF Reply
  <2>2. ~(link[c] = "open" /\ ~parted[c])
    <3> SUFFICES ASSUME link[c] = "open", ~parted[c] PROVE FALSE
      OBVIOUS
    <3>1. requests[c] # <<>>
      BY DEF Serve
    <3>2. client[c] \in Request /\ requests[c] = <<client[c]>>
      BY <3>1 DEF IInv, ConnOK, InStepUnlessParted, InStepAt
    <3>3. client[c] = r /\ Len(requests[c]) = 1
      BY <1>1, <3>2
    <3>4. identity[c] = user[c] /\ user[c] # NoName
      BY <3>3 DEF IInv, ConnOK, Known
    <3>5. n = 1
      BY <3>3
    <3> QED BY <1>6, <3>4, <3>5 DEF Admitted
  <2> HIDE DEF a
  <2>3. SendReply(c, a)
    BY <1>6 DEF a
  <2> QED BY <1>1, <1>2, <1>3, <1>4, <2>1, <2>2, <2>3, ServedOK
<1> QED BY <1>5, <1>6 DEF Serve

LEMMA LogoutOK ==
  ASSUME IInv, server = "up", NEW c \in Conn, Logout(c)
  PROVE  IInv'
<1>1. 1 \in 1..Len(requests[c]) /\ Head(requests[c]) = "LOGOUT"
  BY FirstLine DEF Logout
<1>2. Read(c, 1) /\ identity' = identity /\ serving' = serving
  BY DEF Logout, Read
<1>3. identity' \in [Conn -> Name \cup {NoName}]
  BY <1>2 DEF IInv, TypeOK
<1>4. CASE /\ identity[c] # NoName /\ RemoveSession(identity[c])
           /\ logged_out' = logged_out \cup {identity[c]}
           /\ SendReply(c, [to |-> "LOGOUT", is |-> "done"])
  <2> DEFINE a == [to |-> "LOGOUT", is |-> "done"]
  <2>1. a \in Reply /\ a.to = "LOGOUT" /\ a.is = "done"
    BY DEF Reply, Request
  <2>2. /\ active_sessions' \in [Name -> Conn \cup {NoConn}] /\ logged_out' \subseteq Name
        /\ \A m \in Name : active_sessions'[m] =
             IF m = identity[c] THEN NoConn ELSE active_sessions[m]
    BY <1>4 DEF IInv, TypeOK, RemoveSession
  <2>3. SessionsBelong'
    BY <1>2, <2>2 DEF IInv, SessionsBelong
  <2>4. Holders'
    BY <1>2, <1>4, <2>2 DEF IInv, Holders
  <2> HIDE DEF a
  <2>5. SendReply(c, a)
    BY <1>4 DEF a
  <2> QED BY <1>1, <1>2, <1>3, <2>1, <2>2, <2>3, <2>4, <2>5, ServedOK
<1>5. CASE identity[c] = NoName /\ UNCHANGED table
           /\ SendReply(c, [to |-> "LOGOUT", is |-> "refused"])
  <2> DEFINE a == [to |-> "LOGOUT", is |-> "refused"]
  <2>1. a \in Reply /\ a.to = "LOGOUT" /\ a.is = "refused"
    BY DEF Reply, Request
  <2>2. ~(link[c] = "open" /\ ~parted[c])
    <3> SUFFICES ASSUME link[c] = "open", ~parted[c] PROVE FALSE
      OBVIOUS
    <3>1. requests[c] # <<>>
      BY DEF Logout
    <3>2. requests[c] = <<client[c]>>
      BY <3>1 DEF IInv, ConnOK, InStepUnlessParted, InStepAt
    <3>3. client[c] = "LOGOUT"
      BY <1>1, <3>2
    <3>4. identity[c] = user[c] /\ user[c] # NoName
      BY <3>3 DEF IInv, ConnOK, Known
    <3> QED BY <1>5, <3>4
  <2>3. /\ active_sessions' \in [Name -> Conn \cup {NoConn}] /\ logged_out' \subseteq Name
        /\ SessionsBelong' /\ Holders'
    BY <1>2, <1>5, TableKept DEF IInv, TypeOK, table
  <2> HIDE DEF a
  <2>4. SendReply(c, a)
    BY <1>5 DEF a
  <2> QED BY <1>1, <1>2, <1>3, <2>1, <2>2, <2>3, <2>4, ServedOK
<1> QED BY <1>4, <1>5 DEF Logout
-----------------------------------------------------------------------------
(***************************************************************************)
(* The beginning and the end of a thread.                                  *)
(***************************************************************************)
LEMMA AcceptOK ==
  ASSUME IInv, NEW c \in Conn, Accept(c)
  PROVE  IInv'
<1>1. UNCHANGED <<client, user, link, requests, answers, identity, active_sessions,
                  logged_out, server, parted>>
  BY DEF Accept, table
<1>2. serving' = [serving EXCEPT ![c] = TRUE] /\ link[c] # "none" /\ serving'[c] /\ ~serving[c]
  BY DEF Accept, IInv, TypeOK
<1>3. TypeOK'
  BY <1>1, <1>2 DEF IInv, TypeOK
<1>4. ConnOK(c)'
  BY <1>1, <1>2 DEF IInv, ConnOK, InStepUnlessParted, InStepAt, LoginFirst, LoginAnswered,
     Known, Lifetime, Unanswered
<1>5. \A d \in Conn \ {c} : SameAt(d)
  BY <1>1, <1>2 DEF SameAt, IInv, TypeOK
<1>6. SessionsBelong'
  BY <1>1, <1>2 DEF IInv, TypeOK, SessionsBelong
<1>7. Holders' /\ OnlyPartedResetsKill'
  BY <1>1 DEF IInv, Holders, OnlyPartedResetsKill
<1> QED BY <1>3, <1>4, <1>5, <1>6, <1>7, ConnStep DEF IInv

LEMMA LoseRequestsOK ==
  ASSUME IInv, NEW c \in Conn, LoseRequests(c)
  PROVE  IInv'
<1>1. UNCHANGED <<client, user, link, answers, serving, identity, active_sessions,
                  logged_out, server, parted>>
  BY DEF LoseRequests, table
<1>2. <<>> \in Seq(Request) /\ 1..Len(<<>>) = {}
  BY EmptySeq
<1>3. requests' = [requests EXCEPT ![c] = <<>>] /\ requests'[c] = <<>> /\ link[c] = "reset"
  BY DEF LoseRequests, IInv, TypeOK
<1>4. TypeOK'
  BY <1>1, <1>2, <1>3 DEF IInv, TypeOK
<1>5. LoginFirst(c)'
  BY <1>2, <1>3 DEF LoginFirst
<1>6. ConnOK(c)'
  BY <1>1, <1>3, <1>5 DEF IInv, ConnOK, InStepUnlessParted, LoginAnswered, Known, Lifetime,
     Unanswered
<1>7. \A d \in Conn \ {c} : SameAt(d)
  BY <1>1, <1>3 DEF SameAt, IInv, TypeOK
<1>8. SessionsBelong' /\ Holders' /\ OnlyPartedResetsKill'
  BY <1>1, TableKept DEF IInv, OnlyPartedResetsKill
<1> QED BY <1>4, <1>6, <1>7, <1>8, ConnStep DEF IInv

LEMMA HandleEofOK ==
  ASSUME IInv, server = "up", NEW c \in Conn, HandleEof(c)
  PROVE  IInv'
<1>1. UNCHANGED <<client, requests, answers, server>>
  BY DEF HandleEof
<1>2. /\ link[c] \in {"closed", "reset"} /\ requests[c] = <<>> /\ client[c] = "out"
      /\ answers[c] = <<>>
  BY DEF HandleEof, IInv, TypeOK
<1>3. /\ link' = [link EXCEPT ![c] = "none"] /\ serving' = [serving EXCEPT ![c] = FALSE]
      /\ identity' = [identity EXCEPT ![c] = NoName] /\ user' = [user EXCEPT ![c] = NoName]
      /\ parted' = [parted EXCEPT ![c] = FALSE]
      /\ logged_out' = {n \in logged_out : \E d \in Conn \ {c} : serving[d] /\ identity[d] = n}
  BY DEF HandleEof, Free
<1>4. /\ active_sessions' \in [Name -> Conn \cup {NoConn}]
      /\ \A m \in Name : active_sessions'[m] =
           IF m = identity[c] THEN NoConn ELSE active_sessions[m]
  BY DEF HandleEof, RemoveSession, IInv, TypeOK
<1>5. TypeOK'
  BY <1>1, <1>2, <1>3, <1>4 DEF IInv, TypeOK
<1>6. /\ link'[c] = "none" /\ ~serving'[c] /\ identity'[c] = NoName /\ ~parted'[c]
      /\ client'[c] = "out" /\ requests'[c] = <<>>
  BY <1>1, <1>2, <1>3 DEF IInv, TypeOK
<1>7. ConnOK(c)'
  <2>1. 1..Len(<<>>) = {}
    OBVIOUS
  <2>2. LoginFirst(c)'
    BY <1>6, <2>1 DEF LoginFirst
  <2>3. /\ InStepUnlessParted(c)' /\ LoginAnswered(c)' /\ Known(c)' /\ Lifetime(c)'
        /\ Unanswered(c)'
    BY <1>6, CommandAssumption DEF InStepUnlessParted, LoginAnswered, Known, Lifetime,
       Unanswered, Command
  <2> QED BY <2>2, <2>3 DEF ConnOK
<1>8. \A d \in Conn \ {c} : SameAt(d)
  BY <1>1, <1>3 DEF SameAt, IInv, TypeOK
<1>9. SessionsBelong'
  <2> SUFFICES ASSUME NEW m \in Name, active_sessions'[m] # NoConn
               PROVE  serving'[active_sessions'[m]] /\ identity'[active_sessions'[m]] = m
    BY DEF SessionsBelong
  <2>1. /\ m # identity[c] /\ active_sessions'[m] = active_sessions[m]
        /\ active_sessions[m] \in Conn
        /\ serving[active_sessions[m]] /\ identity[active_sessions[m]] = m
    BY <1>4 DEF IInv, TypeOK, SessionsBelong
  <2> QED BY <1>8, <2>1 DEF SameAt
<1>10. Holders'
  <2> SUFFICES ASSUME NEW d \in Conn, identity'[d] \in Name \ logged_out'
               PROVE  active_sessions'[identity'[d]] = d
    BY DEF Holders
  <2>1. d # c
    BY <1>6, NothingAssumption
  <2>2. identity'[d] = identity[d] /\ serving[d]
    BY <1>8, <2>1, NothingAssumption DEF SameAt, IInv, ConnOK, Lifetime
  <2>3. identity[d] \notin logged_out
    BY <1>3, <2>1, <2>2
  <2>4. identity'[d] = identity[d] /\ active_sessions[identity[d]] = d
    BY <2>2, <2>3 DEF IInv, Holders
  <2>5. identity[c] # identity[d]
    BY <2>1, <2>2, <2>3, <2>4 DEF IInv, Holders
  <2> QED BY <1>4, <2>4, <2>5
<1>11. OnlyPartedResetsKill'
  BY <1>1 DEF OnlyPartedResetsKill
<1> QED BY <1>5, <1>7, <1>8, <1>9, <1>10, <1>11, ConnStep DEF IInv
-----------------------------------------------------------------------------
(***************************************************************************)
(* The invariant, and what follows from it.                                *)
(***************************************************************************)
LEMMA NextIInv == IInv /\ [Next]_vars => IInv'
<1>1. ASSUME IInv, Next PROVE IInv'
  <2>1. PICK c \in Conn : server = "up" /\ (Program(c) \/ Thread(c))
    BY <1>1 DEF Next
  <2>2. ASSUME Program(c) PROVE IInv'
    <3>1. \A n \in Name \cup {NoName} : Connect(c, n) => IInv'
      BY <1>1, ConnectOK
    <3>2. \A r \in Command \cup {"LOGOUT"} : Ask(c, r) => IInv'
      BY <1>1, <2>1, AskOK
    <3>3. Receive(c) => IInv'
      BY <1>1, <2>1, ReceiveOK
    <3>4. Leave(c) \/ Kill(c) => IInv'
      BY <1>1, <2>1, HangUpOK DEF Leave, Kill
    <3> QED BY <2>2, <3>1, <3>2, <3>3, <3>4 DEF Program
  <2>3. ASSUME Thread(c) PROVE IInv'
    <3>1. Accept(c) \/ LoseRequests(c) \/ HandleEof(c) => IInv'
      BY <1>1, <2>1, AcceptOK, LoseRequestsOK, HandleEofOK
    <3>2. LoginSucceeds(c) \/ LoginFails(c) \/ Logout(c) => IInv'
      BY <1>1, <2>1, LoginSucceedsOK, LoginFailsOK, LogoutOK
    <3>3. \A r \in Command : \A n \in 1..Len(requests[c]) : Serve(c, r, n) => IInv'
      BY <1>1, <2>1, ServeOK
    <3> QED BY <2>3, <3>1, <3>2, <3>3 DEF Thread
  <2> QED BY <2>1, <2>2, <2>3
<1>2. ASSUME IInv, UNCHANGED vars PROVE IInv'
  <2>1. UNCHANGED <<client, user, link, requests, answers, serving, identity,
                    active_sessions, logged_out, server, parted>>
    BY <1>2 DEF vars, table
  <2>2. TypeOK' /\ OnlyPartedResetsKill'
    BY <1>2, <2>1 DEF IInv, TypeOK, OnlyPartedResetsKill
  <2>3. SessionsBelong' /\ Holders'
    BY <1>2, <2>1, TableKept DEF IInv
  <2>4. \A d \in Conn : ConnOK(d)'
    BY <1>2, <2>1, OthersKeep DEF IInv, SameAt
  <2> QED BY <2>2, <2>3, <2>4 DEF IInv
<1> QED BY <1>1, <1>2

LEMMA AlwaysIInv == Spec => []IInv
BY InitIInv, NextIInv, PTL DEF Spec

(***************************************************************************)
(* Types, and what becomes of a connection.                                *)
(***************************************************************************)
THEOREM SessionsTypeCorrect == Spec => []TypeOK
<1>1. IInv => TypeOK
  BY DEF IInv
<1> QED BY <1>1, AlwaysIInv, PTL

(***************************************************************************)
(* A registered name belongs to a running thread of that identity, however *)
(* logins, logouts and broken connections interleave.                      *)
(***************************************************************************)
THEOREM NamesBelongToThreads == Spec => []SessionsBelong
<1>1. IInv => SessionsBelong
  BY DEF IInv
<1> QED BY <1>1, AlwaysIInv, PTL

(***************************************************************************)
(* A program at its menu or waiting for a command's answer is known to its *)
(* thread.  Until an answer on its connection is read in parts, the two    *)
(* are in step, and no logged-in program is refused.                       *)
(***************************************************************************)
THEOREM ProgramsStayInStep == Spec => []InStep
<1>1. IInv => InStep
  BY DEF IInv, ConnOK, InStepUnlessParted, Known, LoggedIn, InStep
<1> QED BY <1>1, AlwaysIInv, PTL

(***************************************************************************)
(* No two threads share a name unless a LOGOUT under it was answered since *)
(* no thread used it.                                                      *)
(***************************************************************************)
THEOREM BrokenConnectionsKeepNamesApart == Spec => []NamesSharedOnlyAfterLogout
<1>1. IInv => NamesSharedOnlyAfterLogout
  BY DEF IInv, TypeOK, Holders, NamesSharedOnlyAfterLogout
<1> QED BY <1>1, AlwaysIInv, PTL

(***************************************************************************)
(* The server does not answer a reset connection whose answers were all    *)
(* read whole.                                                             *)
(***************************************************************************)
THEOREM ServerOutlivesPrograms == Spec => []OnlyPartedResetsKill
<1>1. IInv => OnlyPartedResetsKill
  BY DEF IInv
<1> QED BY <1>1, AlwaysIInv, PTL
=============================================================================
