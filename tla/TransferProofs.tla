--------------------------- MODULE TransferProofs ---------------------------
(***************************************************************************)
(* What tb mv promises, for any boards, cards, people and number of moves. *)
(*                                                                         *)
(* The argument: numbers are handed out in order and never come back       *)
(* (Numbered); from BEGIN IMMEDIATE to its last step a move is the only    *)
(* writer of its source, so what it packed is what it deletes (Held); and  *)
(* what it committed at the far end has the work and the events of what it *)
(* packed, whatever becomes of it there (Copied).                          *)
(***************************************************************************)
EXTENDS Transfer, TLAPS

Numbered ==
  \A b \in Board, i \in Id :
    /\ work[b][i] # None <=> i <= made[b]
    /\ Live(b, i) => i <= made[b]

Held ==
  \A m \in Mover :
    /\ mv[m] # None => mv[m].from # mv[m].to
    /\ At(m, "holding") \/ At(m, "copied") =>
         /\ writer[mv[m].from] = m
         /\ Live(mv[m].from, mv[m].id)
         /\ mv[m].packed = rows[mv[m].from][mv[m].id]

Copied ==
  \A m \in Mover : At(m, "copied") =>
    /\ mv[m].new \in Id /\ mv[m].new <= made[mv[m].to]
    /\ work[mv[m].to][mv[m].new] = work[mv[m].from][mv[m].id]
    /\ acked[mv[m].from][mv[m].id] \subseteq acked[mv[m].to][mv[m].new]

LiveKept ==
  \A b \in Board, i \in Id : Live(b, i) => acked[b][i] \subseteq rows[b][i].events

DeadKept ==
  \A b \in Board, i \in Id :
    work[b][i] # None /\ ~Live(b, i) =>
      \/ <<b, i>> \in removed
      \/ \E r \in outs[b] : /\ r.old = i /\ r.new <= made[r.to]
                            /\ work[r.to][r.new] = work[b][i]
                            /\ acked[b][i] \subseteq acked[r.to][r.new]

BlockGood(b, row) ==
  row.on # None => row.on <= made[b] /\ work[b][row.on] = row.onWork

BlocksGood == \A b \in Board, i \in Id : Live(b, i) => BlockGood(b, rows[b][i])

IInv == /\ TypeOK /\ Numbered /\ Held /\ Copied
        /\ LiveKept /\ DeadKept /\ BlocksGood /\ OneCopy

-----------------------------------------------------------------------------
(* Lemmas about the pieces of a step                                       *)

\* The state before anything is filed.
LEMMA InitIInv == Init => IInv
<1> SUFFICES ASSUME Init PROVE IInv OBVIOUS
<1>1. TypeOK BY TransferAssumption DEF Init, TypeOK
<1>2. Numbered BY TransferAssumption DEF Init, Numbered, Live, Id
<1>3. Held /\ Copied BY DEF Init, Held, Copied, At
<1>4. LiveKept /\ DeadKept /\ BlocksGood /\ OneCopy
  BY DEF Init, LiveKept, DeadKept, BlocksGood, OneCopy, Live
<1> QED BY <1>1, <1>2, <1>3, <1>4 DEF IInv

\* A command that rewrites one row inside its own transaction: note, take, put
\* back, block.  Nobody holds that board, so no move has packed the row.
LEMMA RowWritten ==
  ASSUME IInv, NEW b \in Board, NEW i \in Id, Free(b), Live(b, i),
         NEW row \in Row, BlockGood(b, row),
         rows' = [rows EXCEPT ![b] = [rows[b] EXCEPT ![i] = row]],
         NEW told \in SUBSET Entry, told \subseteq row.events, acked[b][i] \subseteq told,
         acked' = [acked EXCEPT ![b] = [acked[b] EXCEPT ![i] = told]],
         UNCHANGED <<made, outs, writer, mv, work, removed, spare>>
  PROVE  IInv'
<1> USE DEF IInv
<1>0. /\ \A c \in Board, j \in Id :
           /\ rows'[c][j] = IF c = b /\ j = i THEN row ELSE rows[c][j]
           /\ acked'[c][j] = IF c = b /\ j = i THEN told ELSE acked[c][j]
           /\ Live(c, j)' <=> Live(c, j)
           /\ acked[c][j] \subseteq acked'[c][j]
  <2>1. \A c \in Board, j \in Id :
           /\ rows'[c][j] = IF c = b /\ j = i THEN row ELSE rows[c][j]
           /\ acked'[c][j] = IF c = b /\ j = i THEN told ELSE acked[c][j]
    BY DEF TypeOK
  <2> QED BY <2>1, NullAssumption DEF Live
<1>1. TypeOK'
  <2>1. rows' \in [Board -> [Id -> Row \cup {None}]] BY DEF TypeOK
  <2>2. acked' \in [Board -> [Id -> SUBSET Entry]] BY DEF TypeOK
  <2> QED BY <2>1, <2>2 DEF TypeOK
<1>2. Numbered' BY <1>0 DEF Numbered
<1>3. Held'
  <2> SUFFICES ASSUME NEW m \in Mover
               PROVE  /\ mv[m] # None => mv[m].from # mv[m].to
                      /\ At(m, "holding") \/ At(m, "copied") =>
                           /\ writer[mv[m].from] = m
                           /\ rows'[mv[m].from][mv[m].id] # None
                           /\ mv[m].packed = rows'[mv[m].from][mv[m].id]
    BY DEF Held, At, Live
  <2>1. CASE At(m, "holding") \/ At(m, "copied")
    <3>1. mv[m] \in Move BY <2>1 DEF At, TypeOK
    <3>2. mv[m].from \in Board /\ mv[m].id \in Id BY <3>1 DEF Move
    <3>3. mv[m].from # b BY <2>1, TransferAssumption DEF Held, Free
    <3>4. rows'[mv[m].from][mv[m].id] = rows[mv[m].from][mv[m].id] BY <1>0, <3>2, <3>3
    <3> QED BY <2>1, <3>4 DEF Held, Live
  <2> QED BY <2>1 DEF Held
<1>4. Copied'
  <2> SUFFICES ASSUME NEW m \in Mover, At(m, "copied")
               PROVE  /\ mv[m].new \in Id /\ mv[m].new <= made[mv[m].to]
                      /\ work[mv[m].to][mv[m].new] = work[mv[m].from][mv[m].id]
                      /\ acked'[mv[m].from][mv[m].id] \subseteq acked'[mv[m].to][mv[m].new]
    BY DEF Copied, At
  <2>1. mv[m] \in Move BY DEF At, TypeOK
  <2>2. mv[m].from \in Board /\ mv[m].id \in Id /\ mv[m].to \in Board BY <2>1 DEF Move
  <2>3. mv[m].from # b BY TransferAssumption DEF Held, Free
  <2>4. acked'[mv[m].from][mv[m].id] = acked[mv[m].from][mv[m].id] BY <1>0, <2>2, <2>3
  <2> QED BY <1>0, <2>2, <2>4 DEF Copied
<1>5. LiveKept' BY <1>0 DEF LiveKept
<1>6. DeadKept'
  <2> SUFFICES ASSUME NEW c \in Board, NEW j \in Id, work[c][j] # None, ~Live(c, j)
               PROVE  \/ <<c, j>> \in removed
                      \/ \E r \in outs[c] : /\ r.old = j /\ r.new <= made[r.to]
                                            /\ work[r.to][r.new] = work[c][j]
                                            /\ acked'[c][j] \subseteq acked'[r.to][r.new]
    BY <1>0 DEF DeadKept
  <2>1. acked'[c][j] = acked[c][j] BY <1>0
  <2>2. \A r \in outs[c] : r.to \in Board /\ r.new \in Id BY DEF TypeOK, Out
  <2> QED BY <1>0, <2>1, <2>2 DEF DeadKept
<1>7. BlocksGood' BY <1>0 DEF BlocksGood, BlockGood
<1>8. OneCopy' BY <1>0 DEF OneCopy, Copying, At
<1> QED BY <1>1, <1>2, <1>3, <1>4, <1>5, <1>6, <1>7, <1>8

\* The commands that rewrite one row.
LEMMA Writes ==
  ASSUME IInv, NEW b \in Board, NEW i \in Id,
         \/ \E e \in Entry : Note(b, i, e)
         \/ \E n \in Name : Take(b, i, n)
         \/ PutBack(b, i)
         \/ \E j \in Id : BlockOn(b, i, j)
  PROVE  IInv'
<1>1. Free(b) /\ Live(b, i) BY DEF Note, Take, PutBack, BlockOn
<1>2. /\ rows \in [Board -> [Id -> Row \cup {None}]]
      /\ acked \in [Board -> [Id -> SUBSET Entry]]
      /\ work \in [Board -> [Id -> Work \cup {None}]]
      /\ rows[b][i] \in Row /\ acked[b][i] \in SUBSET Entry
      /\ acked[b][i] \subseteq rows[b][i].events
      /\ BlockGood(b, rows[b][i])
  BY <1>1 DEF IInv, TypeOK, Live, LiveKept, BlocksGood
<1>3. UNCHANGED <<made, outs, writer, mv, work, removed, spare>>
  BY DEF Note, Take, PutBack, BlockOn
<1>4. CASE \E e \in Entry : Note(b, i, e)
  <2>1. PICK e \in Entry : Note(b, i, e) BY <1>4
  <2> DEFINE row == [rows[b][i] EXCEPT !.events = @ \cup {e}]
             told == acked[b][i] \cup {e}
  <2>2. row \in Row /\ row.events = rows[b][i].events \cup {e}
        /\ row.on = rows[b][i].on /\ row.onWork = rows[b][i].onWork
    BY <1>2 DEF Row
  <2>3. rows' = [rows EXCEPT ![b] = [rows[b] EXCEPT ![i] = row]] BY <2>1 DEF Note
  <2>4. acked' = [acked EXCEPT ![b] = [acked[b] EXCEPT ![i] = told]] BY <2>1 DEF Note
  <2>5. BlockGood(b, row) BY <1>2, <2>2 DEF BlockGood
  <2>6. told \in SUBSET Entry /\ told \subseteq row.events /\ acked[b][i] \subseteq told
    BY <1>2, <2>2
  <2> HIDE DEF row, told
  <2> QED BY <1>1, <1>3, <2>2, <2>3, <2>4, <2>5, <2>6, RowWritten
<1>5. ASSUME NEW row \in Row, rows' = [rows EXCEPT ![b] = [rows[b] EXCEPT ![i] = row]],
             row.events = rows[b][i].events, BlockGood(b, row), acked' = acked
      PROVE  IInv'
  <2> DEFINE told == acked[b][i]
  <2>1. acked' = [acked EXCEPT ![b] = [acked[b] EXCEPT ![i] = told]] BY <1>2, <1>5
  <2>2. told \in SUBSET Entry /\ told \subseteq row.events /\ acked[b][i] \subseteq told
    BY <1>2, <1>5
  <2> HIDE DEF told
  <2> QED BY <1>1, <1>3, <1>5, <2>1, <2>2, RowWritten
<1>6. CASE \E n \in Name : Take(b, i, n)
  <2>1. PICK n \in Name : Take(b, i, n) BY <1>6
  <2> DEFINE row == [rows[b][i] EXCEPT !.col = "doing", !.owner = n]
  <2>2. row \in Row /\ row.events = rows[b][i].events
        /\ row.on = rows[b][i].on /\ row.onWork = rows[b][i].onWork
    BY <1>2 DEF Row
  <2>3. rows' = [rows EXCEPT ![b] = [rows[b] EXCEPT ![i] = row]] BY <2>1 DEF Take
  <2>4. acked' = acked BY <2>1 DEF Take
  <2>5. BlockGood(b, row) BY <1>2, <2>2 DEF BlockGood
  <2> HIDE DEF row
  <2> QED BY <1>5, <2>2, <2>3, <2>4, <2>5
<1>7. CASE PutBack(b, i)
  <2> DEFINE row == [rows[b][i] EXCEPT !.col = "todo", !.owner = None]
  <2>2. row \in Row /\ row.events = rows[b][i].events
        /\ row.on = rows[b][i].on /\ row.onWork = rows[b][i].onWork
    BY <1>2 DEF Row
  <2>3. rows' = [rows EXCEPT ![b] = [rows[b] EXCEPT ![i] = row]] BY <1>7 DEF PutBack
  <2>4. acked' = acked BY <1>7 DEF PutBack
  <2>5. BlockGood(b, row) BY <1>2, <2>2 DEF BlockGood
  <2> HIDE DEF row
  <2> QED BY <1>5, <2>2, <2>3, <2>4, <2>5
<1>8. CASE \E j \in Id : BlockOn(b, i, j)
  <2>1. PICK j \in Id : BlockOn(b, i, j) BY <1>8
  <2> DEFINE row == [rows[b][i] EXCEPT !.on = j, !.onWork = work[b][j]]
  <2>2. row \in Row /\ row.events = rows[b][i].events
        /\ row.on = j /\ row.onWork = work[b][j]
    <3>1. rows[b][i] \in Row /\ work[b][j] \in Work \cup {None} BY <1>2
    <3>2. row.events = rows[b][i].events /\ row.on = j /\ row.onWork = work[b][j]
      BY <3>1 DEF Row
    <3>3. row \in Row BY <3>1 DEF Row
    <3> QED BY <3>2, <3>3
  <2>3. rows' = [rows EXCEPT ![b] = [rows[b] EXCEPT ![i] = row]] BY <2>1 DEF BlockOn
  <2>4. acked' = acked BY <2>1 DEF BlockOn
  <2>5. j <= made[b] BY <2>1 DEF BlockOn, IInv, Numbered
  <2>6. BlockGood(b, row) BY <2>2, <2>5 DEF BlockGood
  <2> HIDE DEF row
  <2> QED BY <1>5, <2>2, <2>3, <2>4, <2>6
<1> QED BY <1>4, <1>6, <1>7, <1>8

\* A new card under the next number: no card, move or record knew that number.
LEMMA NewNumber ==
  ASSUME IInv, NEW b \in Board, made[b] < MaxId,
         NEW row \in Row, BlockGood(b, row), NEW w \in Work, NEW told \in SUBSET Entry,
         told \subseteq row.events,
         rows' = [rows EXCEPT ![b] = [rows[b] EXCEPT ![NewId(b)] = row]],
         made' = [made EXCEPT ![b] = NewId(b)],
         work' = [work EXCEPT ![b] = [work[b] EXCEPT ![NewId(b)] = w]],
         acked' = [acked EXCEPT ![b] = [acked[b] EXCEPT ![NewId(b)] = told]],
         UNCHANGED <<outs, writer, removed>>
  PROVE  /\ NewId(b) \in Id /\ ~Live(b, NewId(b))
         /\ made'[b] = NewId(b)
         /\ rows'[b][NewId(b)] = row /\ work'[b][NewId(b)] = w /\ acked'[b][NewId(b)] = told
         /\ \A c \in Board, j \in Id :
              <<c, j>> # <<b, NewId(b)>> =>
                rows'[c][j] = rows[c][j] /\ work'[c][j] = work[c][j] /\ acked'[c][j] = acked[c][j]
         /\ \A c \in Board, j \in Id : j <= made[c] => <<c, j>> # <<b, NewId(b)>> /\ j <= made'[c]
         /\ Numbered' /\ LiveKept' /\ DeadKept' /\ BlocksGood'
<1> DEFINE new == NewId(b)
<1>1. made[b] \in Nat /\ MaxId \in Nat /\ made \in [Board -> 0..MaxId]
  BY TransferAssumption DEF IInv, TypeOK
<1>2. new \in Id /\ new = made[b] + 1 BY <1>1 DEF Id, NewId
<1>3. ~Live(b, new) BY <1>1, <1>2 DEF IInv, Numbered
<1>4. /\ rows \in [Board -> [Id -> Row \cup {None}]]
      /\ acked \in [Board -> [Id -> SUBSET Entry]]
      /\ work \in [Board -> [Id -> Work \cup {None}]]
  BY DEF IInv, TypeOK
<1> HIDE DEF new
<1>5. /\ rows' = [rows EXCEPT ![b] = [rows[b] EXCEPT ![new] = row]]
      /\ made' = [made EXCEPT ![b] = new]
      /\ work' = [work EXCEPT ![b] = [work[b] EXCEPT ![new] = w]]
      /\ acked' = [acked EXCEPT ![b] = [acked[b] EXCEPT ![new] = told]]
  BY DEF new
<1>6. made'[b] = new /\ \A c \in Board : c # b => made'[c] = made[c] BY <1>1, <1>5
<1>7. rows'[b][new] = row /\ work'[b][new] = w /\ acked'[b][new] = told
  BY <1>2, <1>4, <1>5
<1>8. \A c \in Board, j \in Id :
        <<c, j>> # <<b, new>> =>
          rows'[c][j] = rows[c][j] /\ work'[c][j] = work[c][j] /\ acked'[c][j] = acked[c][j]
  BY <1>2, <1>4, <1>5
<1>9. \A c \in Board, j \in Id : j <= made[c] => <<c, j>> # <<b, new>> /\ j <= made'[c]
  BY <1>1, <1>2, <1>6 DEF Id
<1>10. Numbered'
  <2> SUFFICES ASSUME NEW c \in Board, NEW j \in Id
               PROVE  /\ work'[c][j] # None <=> j <= made'[c]
                      /\ rows'[c][j] # None => j <= made'[c]
    BY DEF Numbered, Live
  <2>1. CASE <<c, j>> = <<b, new>>
    BY <1>2, <1>6, <1>7, <2>1, TransferAssumption DEF Id
  <2>2. CASE c = b /\ j # new
    <3>1. j <= made[b] <=> j <= made'[b] BY <1>1, <1>2, <1>6, <2>2 DEF Id
    <3> QED BY <1>8, <2>2, <3>1 DEF IInv, Numbered, Live
  <2>3. CASE c # b
    BY <1>6, <1>8, <2>3 DEF IInv, Numbered, Live
  <2> QED BY <2>1, <2>2, <2>3
<1>11. LiveKept'
  <2> SUFFICES ASSUME NEW c \in Board, NEW j \in Id, rows'[c][j] # None
               PROVE  acked'[c][j] \subseteq rows'[c][j].events
    BY DEF LiveKept, Live
  <2>1. CASE <<c, j>> = <<b, new>> BY <1>7, <2>1
  <2>2. CASE <<c, j>> # <<b, new>> BY <1>8, <2>2 DEF IInv, LiveKept, Live
  <2> QED BY <2>1, <2>2
<1>12. DeadKept'
  <2> SUFFICES ASSUME NEW c \in Board, NEW j \in Id, work'[c][j] # None, rows'[c][j] = None
               PROVE  \/ <<c, j>> \in removed
                      \/ \E r \in outs[c] : /\ r.old = j /\ r.new <= made'[r.to]
                                            /\ work'[r.to][r.new] = work'[c][j]
                                            /\ acked'[c][j] \subseteq acked'[r.to][r.new]
    BY DEF DeadKept, Live
  <2>1. <<c, j>> # <<b, new>> BY <1>7, NullAssumption
  <2>2. work[c][j] # None /\ ~Live(c, j) /\ work'[c][j] = work[c][j] /\ acked'[c][j] = acked[c][j]
    BY <1>8, <2>1 DEF Live
  <2>3. CASE \E r \in outs[c] : /\ r.old = j /\ r.new <= made[r.to]
                                /\ work[r.to][r.new] = work[c][j]
                                /\ acked[c][j] \subseteq acked[r.to][r.new]
    <3>1. PICK r \in outs[c] : /\ r.old = j /\ r.new <= made[r.to]
                               /\ work[r.to][r.new] = work[c][j]
                               /\ acked[c][j] \subseteq acked[r.to][r.new]
      BY <2>3
    <3>2. r.to \in Board /\ r.new \in Id BY DEF IInv, TypeOK, Out
    <3>3. <<r.to, r.new>> # <<b, new>> /\ r.new <= made'[r.to] BY <1>9, <3>1, <3>2
    <3> QED BY <1>8, <2>2, <3>1, <3>2, <3>3
  <2> QED BY <2>2, <2>3 DEF IInv, DeadKept
<1>13. BlocksGood'
  <2> SUFFICES ASSUME NEW c \in Board, NEW j \in Id, rows'[c][j] # None, rows'[c][j].on # None
               PROVE  /\ rows'[c][j].on <= made'[c]
                      /\ work'[c][rows'[c][j].on] = rows'[c][j].onWork
    BY DEF BlocksGood, BlockGood, Live
  <2> DEFINE r == rows'[c][j]
  <2>1. r \in Row BY <1>4, <1>7, <1>8
  <2>2. r.on \in Id BY <2>1 DEF Row
  <2>3. BlockGood(c, r)
    <3>1. CASE <<c, j>> = <<b, new>> BY <1>7, <3>1
    <3>2. CASE <<c, j>> # <<b, new>> BY <1>8, <3>2 DEF IInv, BlocksGood, Live
    <3> QED BY <3>1, <3>2
  <2>4. r.on <= made[c] /\ work[c][r.on] = r.onWork BY <2>3 DEF BlockGood
  <2> HIDE DEF r
  <2>5. r.on <= made'[c] /\ work'[c][r.on] = r.onWork BY <1>8, <1>9, <2>2, <2>4
  <2> QED BY <2>5 DEF r
<1> QED BY <1>2, <1>3, <1>6, <1>7, <1>8, <1>9, <1>10, <1>11, <1>12, <1>13 DEF new

\* tb add.
LEMMA Adds ==
  ASSUME IInv, NEW b \in Board, NEW w \in Work, Add(b, w)
  PROVE  IInv'
<1> DEFINE row == [col |-> "todo", owner |-> None, events |-> {}, on |-> None, onWork |-> None]
           new == NewId(b)
           none == {}
<1>1. row \in Row /\ row.on = None /\ none \subseteq row.events /\ none \in SUBSET Entry
  BY DEF Row
<1>2. BlockGood(b, row) BY <1>1 DEF BlockGood
<1> HIDE DEF row, none
<1>3. /\ made[b] < MaxId
      /\ rows' = [rows EXCEPT ![b] = [rows[b] EXCEPT ![NewId(b)] = row]]
      /\ made' = [made EXCEPT ![b] = NewId(b)]
      /\ work' = [work EXCEPT ![b] = [work[b] EXCEPT ![NewId(b)] = w]]
      /\ acked' = [acked EXCEPT ![b] = [acked[b] EXCEPT ![NewId(b)] = none]]
      /\ UNCHANGED <<outs, writer, mv, removed, spare>>
  BY DEF Add, row, none
<1>4. /\ new \in Id /\ ~Live(b, new)
      /\ made'[b] = new
      /\ rows'[b][new] = row /\ work'[b][new] = w /\ acked'[b][new] = none
      /\ \A c \in Board, j \in Id :
           <<c, j>> # <<b, new>> =>
             rows'[c][j] = rows[c][j] /\ work'[c][j] = work[c][j] /\ acked'[c][j] = acked[c][j]
      /\ \A c \in Board, j \in Id : j <= made[c] => <<c, j>> # <<b, new>> /\ j <= made'[c]
      /\ Numbered' /\ LiveKept' /\ DeadKept' /\ BlocksGood'
  BY <1>1, <1>2, <1>3, NewNumber
<1> HIDE DEF new
<1>5. TypeOK'
  <2>1. rows' \in [Board -> [Id -> Row \cup {None}]] BY <1>1, <1>3 DEF IInv, TypeOK
  <2>2. new \in 0..MaxId BY <1>4, TransferAssumption DEF Id
  <2>3. made' \in [Board -> 0..MaxId] BY <1>3, <2>2 DEF IInv, TypeOK, new
  <2>4. work' \in [Board -> [Id -> Work \cup {None}]] BY <1>3 DEF IInv, TypeOK
  <2>5. acked' \in [Board -> [Id -> SUBSET Entry]] BY <1>1, <1>3 DEF IInv, TypeOK
  <2> QED BY <1>3, <2>1, <2>3, <2>4, <2>5 DEF IInv, TypeOK
<1>6. Held'
  <2> SUFFICES ASSUME NEW m \in Mover
               PROVE  /\ mv[m] # None => mv[m].from # mv[m].to
                      /\ At(m, "holding") \/ At(m, "copied") =>
                           /\ writer[mv[m].from] = m
                           /\ rows'[mv[m].from][mv[m].id] # None
                           /\ mv[m].packed = rows'[mv[m].from][mv[m].id]
    BY <1>3 DEF Held, At, Live
  <2>1. CASE At(m, "holding") \/ At(m, "copied")
    <3>1. mv[m] \in Move BY <2>1 DEF At, IInv, TypeOK
    <3>2. mv[m].from \in Board /\ mv[m].id \in Id BY <3>1 DEF Move
    <3>3. Live(mv[m].from, mv[m].id) BY <2>1 DEF IInv, Held
    <3>4. rows'[mv[m].from][mv[m].id] = rows[mv[m].from][mv[m].id] BY <1>4, <3>2, <3>3
    <3> QED BY <2>1, <3>4 DEF IInv, Held, Live
  <2> QED BY <2>1 DEF IInv, Held
<1>7. Copied'
  <2> SUFFICES ASSUME NEW m \in Mover, At(m, "copied")
               PROVE  /\ mv[m].new \in Id /\ mv[m].new <= made'[mv[m].to]
                      /\ work'[mv[m].to][mv[m].new] = work'[mv[m].from][mv[m].id]
                      /\ acked'[mv[m].from][mv[m].id] \subseteq acked'[mv[m].to][mv[m].new]
    BY <1>3 DEF Copied, At
  <2>1. mv[m] \in Move BY DEF At, IInv, TypeOK
  <2>2. mv[m].from \in Board /\ mv[m].id \in Id /\ mv[m].to \in Board BY <2>1 DEF Move
  <2>3. Live(mv[m].from, mv[m].id) BY DEF IInv, Held
  <2>4. <<mv[m].from, mv[m].id>> # <<b, new>> BY <1>4, <2>2, <2>3
  <2>5. mv[m].new \in Id /\ mv[m].new <= made[mv[m].to] BY DEF IInv, Copied
  <2> QED BY <1>4, <2>2, <2>4, <2>5 DEF IInv, Copied
<1>8. OneCopy'
  <2> SUFFICES ASSUME NEW c \in Board, NEW d \in Board, NEW i \in Id, NEW j \in Id,
                      rows'[c][i] # None, rows'[d][j] # None, work'[c][i] = work'[d][j],
                      <<c, i>> # <<d, j>>
               PROVE  \/ <<c, i>> \in spare \/ <<d, j>> \in spare
                      \/ Copying(c, i) \/ Copying(d, j)
    BY <1>3 DEF OneCopy, Live, Copying, At
  <2>1. w # None /\ \A a \in Board, k \in Id : work[a][k] # w
    BY TransferAssumption DEF Add
  <2>2. <<c, i>> # <<b, new>> /\ <<d, j>> # <<b, new>> BY <1>4, <2>1
  <2>3. Live(c, i) /\ Live(d, j) /\ work[c][i] = work[d][j] BY <1>4, <2>2 DEF Live
  <2> QED BY <2>3 DEF IInv, OneCopy
<1> QED BY <1>4, <1>5, <1>6, <1>7, <1>8 DEF IInv

\* The destination's commit: a card under a new number, with the work and the
\* events of the one that was packed.
LEMMA Receives ==
  ASSUME IInv, NEW m \in Mover, Receive(m)
  PROVE  IInv'
<1>0. PICK b \in Board, i \in Id, to \in Board :
        mv[m] \in Move /\ mv[m].from = b /\ mv[m].id = i /\ mv[m].to = to
  <2>1. mv[m] \in Move BY DEF Receive, At, IInv, TypeOK
  <2> QED BY <2>1 DEF Move
<1> DEFINE new == NewId(to)
           row == Received(mv[m].packed)
           w == work[b][i]
           told == acked[b][i]
<1>1. /\ At(m, "holding") /\ mv[m] # None /\ mv[m] \in Move
      /\ mv[m].from = b /\ mv[m].id = i /\ mv[m].to = to /\ b # to
  BY <1>0 DEF Receive, At, IInv, Held
<1>2. /\ Live(b, i) /\ mv[m].packed = rows[b][i] /\ writer[b] = m
      /\ rows[b][i] \in Row /\ w \in Work /\ told \in SUBSET Entry
      /\ told \subseteq rows[b][i].events
  <2>1. Live(b, i) /\ mv[m].packed = rows[b][i] /\ writer[b] = m BY <1>1 DEF IInv, Held
  <2>2. rows[b][i] \in Row BY <1>1, <2>1 DEF IInv, TypeOK, Live
  <2>3. w \in Work BY <1>1, <2>1 DEF IInv, TypeOK, Numbered
  <2>4. told \in SUBSET Entry BY <1>1 DEF IInv, TypeOK
  <2>5. told \subseteq rows[b][i].events BY <1>1, <2>1 DEF IInv, LiveKept
  <2> QED BY <2>1, <2>2, <2>3, <2>4, <2>5
<1>3. row \in Row /\ row.on = None /\ told \subseteq row.events
  <2>1. row = [rows[b][i] EXCEPT !.col = "todo", !.owner = None, !.on = None, !.onWork = None]
    BY <1>2 DEF Received
  <2> HIDE DEF row
  <2> QED BY <1>2, <2>1 DEF Row
<1>4. BlockGood(to, row) BY <1>3 DEF BlockGood
<1>5. /\ made[to] < MaxId
      /\ rows' = [rows EXCEPT ![to] = [rows[to] EXCEPT ![NewId(to)] = row]]
      /\ made' = [made EXCEPT ![to] = NewId(to)]
      /\ work' = [work EXCEPT ![to] = [work[to] EXCEPT ![NewId(to)] = w]]
      /\ acked' = [acked EXCEPT ![to] = [acked[to] EXCEPT ![NewId(to)] = told]]
      /\ UNCHANGED <<outs, writer, removed>>
  BY <1>1 DEF Receive
<1>6. /\ mv' = [mv EXCEPT ![m] = [mv[m] EXCEPT !.pc = "copied", !.new = new]]
      /\ spare' = IF <<b, i>> \in spare THEN spare \cup {<<to, new>>} ELSE spare
  BY <1>1 DEF Receive
<1> HIDE DEF row, w, told
<1>7. /\ new \in Id /\ ~Live(to, new)
      /\ made'[to] = new
      /\ rows'[to][new] = row /\ work'[to][new] = w /\ acked'[to][new] = told
      /\ \A c \in Board, j \in Id :
           <<c, j>> # <<to, new>> =>
             rows'[c][j] = rows[c][j] /\ work'[c][j] = work[c][j] /\ acked'[c][j] = acked[c][j]
      /\ \A c \in Board, j \in Id : j <= made[c] => <<c, j>> # <<to, new>> /\ j <= made'[c]
      /\ Numbered' /\ LiveKept' /\ DeadKept' /\ BlocksGood'
  BY <1>1, <1>2, <1>3, <1>4, <1>5, NewNumber
<1> HIDE DEF new
<1>8. /\ mv'[m] = [mv[m] EXCEPT !.pc = "copied", !.new = new]
      /\ mv'[m] \in Move /\ mv'[m].pc = "copied" /\ mv'[m].new = new
      /\ mv'[m].from = b /\ mv'[m].id = i /\ mv'[m].to = to /\ mv'[m].packed = rows[b][i]
  <2>1. mv'[m] = [mv[m] EXCEPT !.pc = "copied", !.new = new] BY <1>6 DEF IInv, TypeOK
  <2> QED BY <1>1, <1>2, <1>7, <2>1 DEF Move
<1>9. \A n \in Mover \ {m} : mv'[n] = mv[n] BY <1>6 DEF IInv, TypeOK
<1>10. TypeOK'
  <2>1. rows' \in [Board -> [Id -> Row \cup {None}]] BY <1>3, <1>5 DEF IInv, TypeOK
  <2>2. new \in 0..MaxId BY <1>7, TransferAssumption DEF Id
  <2>3. made' \in [Board -> 0..MaxId] BY <1>5, <2>2 DEF IInv, TypeOK, new
  <2>4. work' \in [Board -> [Id -> Work \cup {None}]] BY <1>2, <1>5 DEF IInv, TypeOK
  <2>5. acked' \in [Board -> [Id -> SUBSET Entry]] BY <1>2, <1>5 DEF IInv, TypeOK
  <2>6. mv' \in [Mover -> Move \cup {None}] BY <1>6, <1>8 DEF IInv, TypeOK
  <2>7. spare' \subseteq Place BY <1>1, <1>6, <1>7 DEF IInv, TypeOK, Place
  <2> QED BY <1>5, <2>1, <2>3, <2>4, <2>5, <2>6, <2>7 DEF IInv, TypeOK
<1>11. <<b, i>> # <<to, new>> /\ rows'[b][i] = rows[b][i] /\ work'[b][i] = w /\ acked'[b][i] = told
  BY <1>1, <1>7 DEF w, told
<1>12. Held'
  <2> SUFFICES ASSUME NEW n \in Mover
               PROVE  /\ mv'[n] # None => mv'[n].from # mv'[n].to
                      /\ At(n, "holding")' \/ At(n, "copied")' =>
                           /\ writer[mv'[n].from] = n
                           /\ rows'[mv'[n].from][mv'[n].id] # None
                           /\ mv'[n].packed = rows'[mv'[n].from][mv'[n].id]
    BY <1>5 DEF Held, At, Live
  <2>1. CASE n = m BY <1>1, <1>2, <1>8, <1>11, <2>1 DEF Live
  <2>2. CASE n # m /\ (At(n, "holding") \/ At(n, "copied"))
    <3>1. mv'[n] = mv[n] BY <1>9, <2>2
    <3>2. mv[n] \in Move BY <2>2 DEF At, IInv, TypeOK
    <3>3. mv[n].from \in Board /\ mv[n].id \in Id BY <3>2 DEF Move
    <3>4. Live(mv[n].from, mv[n].id) BY <2>2 DEF IInv, Held
    <3>5. rows'[mv[n].from][mv[n].id] = rows[mv[n].from][mv[n].id] BY <1>7, <3>3, <3>4
    <3> QED BY <2>2, <3>1, <3>5 DEF IInv, Held, Live
  <2>3. CASE n # m /\ ~(At(n, "holding") \/ At(n, "copied"))
    BY <1>9, <2>3 DEF IInv, Held, At
  <2> QED BY <2>1, <2>2, <2>3
<1>13. Copied'
  <2> SUFFICES ASSUME NEW n \in Mover, At(n, "copied")'
               PROVE  /\ mv'[n].new \in Id /\ mv'[n].new <= made'[mv'[n].to]
                      /\ work'[mv'[n].to][mv'[n].new] = work'[mv'[n].from][mv'[n].id]
                      /\ acked'[mv'[n].from][mv'[n].id] \subseteq acked'[mv'[n].to][mv'[n].new]
    BY DEF Copied
  <2>1. CASE n = m
    <3>1. new <= made'[to] BY <1>7 DEF Id
    <3> QED BY <1>7, <1>8, <1>11, <2>1, <3>1
  <2>2. CASE n # m
    <3>1. mv'[n] = mv[n] /\ At(n, "copied") BY <1>9, <2>2 DEF At
    <3>2. mv[n] \in Move BY <3>1 DEF At, IInv, TypeOK
    <3>3. mv[n].from \in Board /\ mv[n].id \in Id /\ mv[n].to \in Board BY <3>2 DEF Move
    <3>4. Live(mv[n].from, mv[n].id) BY <3>1 DEF IInv, Held
    <3>5. <<mv[n].from, mv[n].id>> # <<to, new>> BY <1>7, <3>3, <3>4
    <3>6. mv[n].new \in Id /\ mv[n].new <= made[mv[n].to] BY <3>1 DEF IInv, Copied
    <3>7. mv[n].new <= made'[mv[n].to] /\ <<mv[n].to, mv[n].new>> # <<to, new>>
      BY <1>7, <3>3, <3>6
    <3>8. /\ work'[mv[n].to][mv[n].new] = work[mv[n].to][mv[n].new]
          /\ acked'[mv[n].to][mv[n].new] = acked[mv[n].to][mv[n].new]
          /\ work'[mv[n].from][mv[n].id] = work[mv[n].from][mv[n].id]
          /\ acked'[mv[n].from][mv[n].id] = acked[mv[n].from][mv[n].id]
      BY <1>7, <3>3, <3>5, <3>6, <3>7
    <3> QED BY <3>1, <3>6, <3>7, <3>8 DEF IInv, Copied
  <2> QED BY <2>1, <2>2
<1>14. OneCopy'
  <2>1. Copying(b, i)' BY <1>8, NullAssumption DEF Copying, At
  <2>2. \A c \in Board, j \in Id : Copying(c, j) => Copying(c, j)'
    <3> SUFFICES ASSUME NEW c \in Board, NEW j \in Id,
                        NEW n \in Mover, At(n, "copied"), mv[n].from = c, mv[n].id = j
                 PROVE  Copying(c, j)'
      BY DEF Copying
    <3>1. n # m BY <1>1 DEF At
    <3> QED BY <1>9, <3>1 DEF Copying, At
  <2>3. spare \subseteq spare' BY <1>6
  <2>4. ASSUME NEW d \in Board, NEW j \in Id, rows'[d][j] # None, work'[d][j] = w,
               <<d, j>> # <<to, new>>
        PROVE  \/ <<to, new>> \in spare' \/ <<d, j>> \in spare' \/ Copying(d, j)'
    <3>1. CASE d = b /\ j = i BY <2>1, <3>1
    <3>2. CASE ~(d = b /\ j = i)
      <4>1. Live(d, j) /\ work[d][j] = work[b][i] BY <1>7, <2>4 DEF Live, w
      <4>2. ~Copying(b, i)
        <5> SUFFICES ASSUME NEW n \in Mover, At(n, "copied"), mv[n].from = b, mv[n].id = i
                     PROVE  FALSE
          BY DEF Copying
        <5>1. writer[b] = n BY DEF IInv, Held
        <5> QED BY <1>1, <1>2, <5>1 DEF At
      <4>3. <<b, i>> \in spare \/ <<d, j>> \in spare \/ Copying(d, j)
        BY <1>1, <1>2, <3>2, <4>1, <4>2 DEF IInv, OneCopy
      <4> QED BY <1>6, <2>2, <2>3, <4>3
    <3> QED BY <3>1, <3>2
  <2>5. ASSUME NEW c \in Board, NEW d \in Board, NEW k \in Id, NEW j \in Id,
               rows'[c][k] # None, rows'[d][j] # None, work'[c][k] = work'[d][j],
               <<c, k>> # <<d, j>>
        PROVE  \/ <<c, k>> \in spare' \/ <<d, j>> \in spare'
               \/ Copying(c, k)' \/ Copying(d, j)'
    <3>1. CASE c = to /\ k = new
      <4>1. work'[d][j] = w /\ <<d, j>> # <<to, new>> BY <1>7, <2>5, <3>1
      <4>2. \/ <<to, new>> \in spare' \/ <<d, j>> \in spare' \/ Copying(d, j)' BY <2>4, <2>5, <4>1
      <4> QED BY <3>1, <4>2
    <3>2. CASE d = to /\ j = new
      <4>1. work'[c][k] = w /\ <<c, k>> # <<to, new>> BY <1>7, <2>5, <3>2
      <4>2. \/ <<to, new>> \in spare' \/ <<c, k>> \in spare' \/ Copying(c, k)' BY <2>4, <2>5, <4>1
      <4> QED BY <3>2, <4>2
    <3>3. CASE ~(c = to /\ k = new) /\ ~(d = to /\ j = new)
      <4>1. Live(c, k) /\ Live(d, j) /\ work[c][k] = work[d][j]
        BY <1>7, <2>5, <3>3 DEF Live
      <4>2. \/ <<c, k>> \in spare \/ <<d, j>> \in spare \/ Copying(c, k) \/ Copying(d, j)
        BY <2>5, <4>1 DEF IInv, OneCopy
      <4> QED BY <2>2, <2>3, <4>2
    <3> QED BY <3>1, <3>2, <3>3
  <2> QED BY <2>5 DEF OneCopy, Live
<1> QED BY <1>7, <1>10, <1>12, <1>13, <1>14 DEF IInv

\* The deletes at the source, or tb rm: a card goes from one place, and says where to.
LEMMA Goes ==
  ASSUME IInv, NEW b \in Board, NEW i \in Id, Live(b, i),
         rows' = [rows EXCEPT ![b] = [rows[b] EXCEPT ![i] = None]],
         \A c \in Board : outs[c] \subseteq outs'[c],
         removed \subseteq removed',
         \/ <<b, i>> \in removed'
         \/ \E r \in outs'[b] : /\ r.old = i /\ r.new <= made[r.to]
                                /\ work[r.to][r.new] = work[b][i]
                                /\ acked[b][i] \subseteq acked[r.to][r.new],
         UNCHANGED <<made, work, acked, spare>>
  PROVE  /\ rows' \in [Board -> [Id -> Row \cup {None}]]
         /\ \A c \in Board, j \in Id :
              rows'[c][j] = IF c = b /\ j = i THEN None ELSE rows[c][j]
         /\ Numbered' /\ LiveKept' /\ DeadKept' /\ BlocksGood'
<1>1. rows \in [Board -> [Id -> Row \cup {None}]] BY DEF IInv, TypeOK
<1>2. rows' \in [Board -> [Id -> Row \cup {None}]] BY <1>1
<1>3. \A c \in Board, j \in Id :
        rows'[c][j] = IF c = b /\ j = i THEN None ELSE rows[c][j]
  BY <1>1
<1>4. Numbered' BY <1>3 DEF IInv, Numbered, Live
<1>5. LiveKept' BY <1>3 DEF IInv, LiveKept, Live
<1>6. DeadKept'
  <2> SUFFICES ASSUME NEW c \in Board, NEW j \in Id, work[c][j] # None, rows'[c][j] = None
               PROVE  \/ <<c, j>> \in removed'
                      \/ \E r \in outs'[c] : /\ r.old = j /\ r.new <= made[r.to]
                                             /\ work[r.to][r.new] = work[c][j]
                                             /\ acked[c][j] \subseteq acked[r.to][r.new]
    BY DEF DeadKept, Live
  <2>1. CASE c = b /\ j = i BY <2>1
  <2>2. CASE ~(c = b /\ j = i)
    <3>1. ~Live(c, j) BY <1>3, <2>2 DEF Live
    <3>2. \/ <<c, j>> \in removed
          \/ \E r \in outs[c] : /\ r.old = j /\ r.new <= made[r.to]
                                /\ work[r.to][r.new] = work[c][j]
                                /\ acked[c][j] \subseteq acked[r.to][r.new]
      BY <3>1 DEF IInv, DeadKept
    <3> QED BY <3>2
  <2> QED BY <2>1, <2>2
<1>7. BlocksGood' BY <1>3 DEF IInv, BlocksGood, BlockGood, Live
<1> QED BY <1>2, <1>3, <1>4, <1>5, <1>6, <1>7

\* tb rm waits for the lock, so it never takes a card a move has packed.
LEMMA Removes ==
  ASSUME IInv, NEW b \in Board, NEW i \in Id, Remove(b, i)
  PROVE  IInv'
<1>1. /\ Free(b) /\ Live(b, i)
      /\ rows' = [rows EXCEPT ![b] = [rows[b] EXCEPT ![i] = None]]
      /\ removed' = removed \cup {<<b, i>>}
      /\ UNCHANGED <<made, outs, writer, mv, work, acked, spare>>
  BY DEF Remove
<1>2. /\ rows' \in [Board -> [Id -> Row \cup {None}]]
      /\ \A c \in Board, j \in Id :
           rows'[c][j] = IF c = b /\ j = i THEN None ELSE rows[c][j]
      /\ Numbered' /\ LiveKept' /\ DeadKept' /\ BlocksGood'
  BY <1>1, Goes
<1>3. TypeOK' BY <1>1, <1>2 DEF IInv, TypeOK, Place
<1>4. Held'
  <2> SUFFICES ASSUME NEW m \in Mover
               PROVE  /\ mv[m] # None => mv[m].from # mv[m].to
                      /\ At(m, "holding") \/ At(m, "copied") =>
                           /\ writer[mv[m].from] = m
                           /\ rows'[mv[m].from][mv[m].id] # None
                           /\ mv[m].packed = rows'[mv[m].from][mv[m].id]
    BY <1>1 DEF Held, At, Live
  <2>1. CASE At(m, "holding") \/ At(m, "copied")
    <3>1. mv[m] \in Move BY <2>1 DEF At, IInv, TypeOK
    <3>2. mv[m].from \in Board /\ mv[m].id \in Id BY <3>1 DEF Move
    <3>3. mv[m].from # b BY <1>1, <2>1, TransferAssumption DEF IInv, Held, Free
    <3>4. rows'[mv[m].from][mv[m].id] = rows[mv[m].from][mv[m].id] BY <1>2, <3>2, <3>3
    <3> QED BY <2>1, <3>4 DEF IInv, Held, Live
  <2> QED BY <2>1 DEF IInv, Held
<1>5. Copied' BY <1>1 DEF IInv, Copied, At
<1>6. OneCopy' BY <1>1, <1>2 DEF IInv, OneCopy, Live, Copying, At
<1> QED BY <1>2, <1>3, <1>4, <1>5, <1>6 DEF IInv

\* A process that ends gives up its locks and packs nothing any more.
LEMMA Ends ==
  ASSUME IInv, NEW m \in Mover, mv[m] # None,
         writer' = Released(m), mv' = Ended(m)
  PROVE  /\ writer' \in [Board -> Mover \cup {None}]
         /\ mv' \in [Mover -> Move \cup {None}]
         /\ \A n \in Mover \ {m} : mv'[n] = mv[n]
         /\ mv'[m].pc = "ended" /\ mv'[m].from = mv[m].from /\ mv'[m].to = mv[m].to
         /\ \A n \in Mover, pc \in {"holding", "copied"} :
              At(n, pc)' => n # m /\ At(n, pc)
         /\ \A b \in Board, n \in Mover \ {m} : writer[b] = n => writer'[b] = n
         /\ Copied => Copied' \/ ~UNCHANGED <<made, work, acked>>
<1>1. mv \in [Mover -> Move \cup {None}] /\ writer \in [Board -> Mover \cup {None}]
  BY DEF IInv, TypeOK
<1>2. mv[m] \in Move BY <1>1
<1> DEFINE new == [mv[m] EXCEPT !.pc = "ended", !.packed = None]
<1>3. mv' = [mv EXCEPT ![m] = new] BY DEF Ended
<1>4. new \in Move /\ new.pc = "ended" /\ new.from = mv[m].from /\ new.to = mv[m].to
  BY <1>2 DEF Move
<1> HIDE DEF new
<1>5. mv' \in [Mover -> Move \cup {None}] BY <1>1, <1>3, <1>4
<1>6. mv'[m] = new /\ \A n \in Mover \ {m} : mv'[n] = mv[n] BY <1>1, <1>3
<1>7. writer' \in [Board -> Mover \cup {None}] BY <1>1 DEF Released
<1>8. \A b \in Board, n \in Mover \ {m} : writer[b] = n => writer'[b] = n BY DEF Released
<1>9. \A n \in Mover, pc \in {"holding", "copied"} : At(n, pc)' => n # m /\ At(n, pc)
  BY <1>4, <1>6 DEF At
<1>10. ASSUME Copied, UNCHANGED <<made, work, acked>> PROVE Copied'
  BY <1>6, <1>9, <1>10 DEF Copied
<1> QED BY <1>4, <1>5, <1>6, <1>7, <1>8, <1>9, <1>10

\* The moves that end without touching a board.
LEMMA Drops ==
  ASSUME IInv, NEW m \in Mover, mv[m] # None, mv[m].pc # "copied", Drop(m)
  PROVE  IInv'
<1>1. /\ writer' = Released(m) /\ mv' = Ended(m)
      /\ UNCHANGED <<rows, made, outs, work, acked, removed, spare>>
  BY DEF Drop
<1>2. /\ writer' \in [Board -> Mover \cup {None}]
      /\ mv' \in [Mover -> Move \cup {None}]
      /\ \A n \in Mover \ {m} : mv'[n] = mv[n]
      /\ mv'[m].pc = "ended" /\ mv'[m].from = mv[m].from /\ mv'[m].to = mv[m].to
      /\ \A n \in Mover, pc \in {"holding", "copied"} : At(n, pc)' => n # m /\ At(n, pc)
      /\ \A b \in Board, n \in Mover \ {m} : writer[b] = n => writer'[b] = n
      /\ Copied'
  BY <1>1, Ends DEF IInv
<1>3. TypeOK' BY <1>1, <1>2 DEF IInv, TypeOK
<1>4. Numbered' /\ LiveKept' /\ DeadKept' /\ BlocksGood'
  BY <1>1 DEF IInv, Numbered, LiveKept, DeadKept, BlocksGood, BlockGood, Live
<1>5. Held'
  <2> SUFFICES ASSUME NEW n \in Mover
               PROVE  /\ mv'[n] # None => mv'[n].from # mv'[n].to
                      /\ At(n, "holding")' \/ At(n, "copied")' =>
                           /\ writer'[mv'[n].from] = n
                           /\ rows[mv'[n].from][mv'[n].id] # None
                           /\ mv'[n].packed = rows[mv'[n].from][mv'[n].id]
    BY <1>1 DEF Held, At, Live
  <2>1. CASE n = m BY <1>2, <2>1 DEF IInv, Held
  <2>2. CASE n # m
    <3>1. mv'[n] = mv[n] BY <1>2, <2>2
    <3>2. ASSUME At(n, "holding") \/ At(n, "copied")
          PROVE  writer'[mv[n].from] = n
      <4>1. mv[n].from \in Board BY <3>2 DEF At, IInv, TypeOK, Move
      <4> QED BY <1>2, <2>2, <3>2, <4>1 DEF IInv, Held
    <3> QED BY <1>2, <2>2, <3>1, <3>2 DEF IInv, Held, Live
  <2> QED BY <2>1, <2>2
<1>6. OneCopy'
  <2>1. \A b \in Board, i \in Id : Copying(b, i) => Copying(b, i)'
    <3> SUFFICES ASSUME NEW b \in Board, NEW i \in Id,
                        NEW n \in Mover, At(n, "copied"), mv[n].from = b, mv[n].id = i
                 PROVE  Copying(b, i)'
      BY DEF Copying
    <3>1. n # m BY DEF At
    <3> QED BY <1>2, <3>1 DEF Copying, At
  <2> QED BY <1>1, <2>1 DEF IInv, OneCopy, Live
<1> QED BY <1>2, <1>3, <1>4, <1>5, <1>6 DEF IInv

\* The reads before the move.
LEMMA Checks ==
  ASSUME IInv, NEW m \in Mover, NEW b \in Board, NEW i \in Id, NEW to \in Board,
         Check(m, b, i, to)
  PROVE  IInv'
<1> DEFINE new == [pc |-> "checked", from |-> b, id |-> i, to |-> to,
                   packed |-> None, new |-> None]
<1>1. /\ mv[m] = None /\ to # b
      /\ mv' = [mv EXCEPT ![m] = new]
      /\ UNCHANGED <<rows, made, outs, writer, work, acked, removed, spare>>
  BY DEF Check
<1>2. new \in Move /\ new.pc = "checked" /\ new.from = b /\ new.to = to BY DEF Move
<1> HIDE DEF new
<1>3. mv'[m] = new /\ \A n \in Mover \ {m} : mv'[n] = mv[n] BY <1>1 DEF IInv, TypeOK
<1>4. TypeOK' BY <1>1, <1>2 DEF IInv, TypeOK
<1>5. Numbered' /\ LiveKept' /\ DeadKept' /\ BlocksGood'
  BY <1>1 DEF IInv, Numbered, LiveKept, DeadKept, BlocksGood, BlockGood, Live
<1>6. Held'
  <2> SUFFICES ASSUME NEW n \in Mover
               PROVE  /\ mv'[n] # None => mv'[n].from # mv'[n].to
                      /\ At(n, "holding")' \/ At(n, "copied")' =>
                           /\ writer[mv'[n].from] = n
                           /\ rows[mv'[n].from][mv'[n].id] # None
                           /\ mv'[n].packed = rows[mv'[n].from][mv'[n].id]
    BY <1>1 DEF Held, At, Live
  <2>1. CASE n = m BY <1>1, <1>2, <1>3, <2>1 DEF At
  <2>2. CASE n # m BY <1>3, <2>2 DEF IInv, Held, At, Live
  <2> QED BY <2>1, <2>2
<1>7. Copied' BY <1>1, <1>2, <1>3 DEF IInv, Copied, At
<1>8. OneCopy'
  <2>1. \A c \in Board, j \in Id : Copying(c, j) => Copying(c, j)'
    BY <1>1, <1>3 DEF Copying, At
  <2> QED BY <1>1, <2>1 DEF IInv, OneCopy, Live
<1> QED BY <1>4, <1>5, <1>6, <1>7, <1>8 DEF IInv

\* The lock on the source, and the card as it is under it.
LEMMA Holds ==
  ASSUME IInv, NEW m \in Mover, Hold(m)
  PROVE  IInv'
<1>1. PICK b \in Board, i \in Id :
        mv[m] \in Move /\ mv[m].from = b /\ mv[m].id = i
  <2>1. mv[m] \in Move BY DEF Hold, At, IInv, TypeOK
  <2> QED BY <2>1 DEF Move
<1> DEFINE new == [mv[m] EXCEPT !.pc = "holding", !.packed = rows[b][i]]
<1>2. /\ At(m, "checked") /\ Free(b) /\ Live(b, i)
      /\ writer' = [writer EXCEPT ![b] = m]
      /\ mv' = [mv EXCEPT ![m] = new]
      /\ UNCHANGED <<rows, made, outs, work, acked, removed, spare>>
  BY <1>1 DEF Hold
<1>3. /\ new \in Move /\ new.pc = "holding" /\ new.from = b /\ new.id = i
      /\ new.to = mv[m].to /\ new.packed = rows[b][i]
  <2>1. rows[b][i] \in Row \cup {None} BY DEF IInv, TypeOK
  <2> QED BY <1>1, <2>1 DEF Move
<1> HIDE DEF new
<1>4. mv'[m] = new /\ \A n \in Mover \ {m} : mv'[n] = mv[n] BY <1>2 DEF IInv, TypeOK
<1>5. writer'[b] = m /\ \A c \in Board \ {b} : writer'[c] = writer[c]
  BY <1>2 DEF IInv, TypeOK
<1>6. TypeOK' BY <1>2, <1>3 DEF IInv, TypeOK
<1>7. Numbered' /\ LiveKept' /\ DeadKept' /\ BlocksGood'
  BY <1>2 DEF IInv, Numbered, LiveKept, DeadKept, BlocksGood, BlockGood, Live
<1>8. Held'
  <2> SUFFICES ASSUME NEW n \in Mover
               PROVE  /\ mv'[n] # None => mv'[n].from # mv'[n].to
                      /\ At(n, "holding")' \/ At(n, "copied")' =>
                           /\ writer'[mv'[n].from] = n
                           /\ rows[mv'[n].from][mv'[n].id] # None
                           /\ mv'[n].packed = rows[mv'[n].from][mv'[n].id]
    BY <1>2 DEF Held, At, Live
  <2>1. CASE n = m
    <3>1. mv[m] # None /\ mv[m].from # mv[m].to BY <1>2 DEF IInv, Held, At
    <3>2. mv'[n] = new /\ writer'[b] = n /\ rows[b][i] # None BY <1>2, <1>4, <1>5, <2>1 DEF Live
    <3> QED BY <1>1, <1>3, <3>1, <3>2
  <2>2. CASE n # m
    <3>1. mv'[n] = mv[n] BY <1>4, <2>2
    <3>2. ASSUME At(n, "holding") \/ At(n, "copied")
          PROVE  writer'[mv[n].from] = n
      <4>1. mv[n].from \in Board BY <3>2 DEF At, IInv, TypeOK, Move
      <4>2. writer[mv[n].from] = n BY <3>2 DEF IInv, Held
      <4>3. mv[n].from # b BY <1>2, <4>2, TransferAssumption DEF Free
      <4> QED BY <1>5, <4>1, <4>2, <4>3
    <3> QED BY <3>1, <3>2 DEF IInv, Held, At, Live
  <2> QED BY <2>1, <2>2
<1>9. Copied' BY <1>2, <1>3, <1>4 DEF IInv, Copied, At
<1>10. OneCopy'
  <2>1. \A c \in Board, j \in Id : Copying(c, j) => Copying(c, j)'
    BY <1>2, <1>4 DEF Copying, At
  <2> QED BY <1>2, <2>1 DEF IInv, OneCopy, Live
<1> QED BY <1>6, <1>7, <1>8, <1>9, <1>10 DEF IInv

\* The last commit, or its failure: the other moves keep their boards and their cards.
LEMMA OthersHeld ==
  ASSUME IInv, NEW m \in Mover, At(m, "copied"),
         writer' = Released(m), mv' = Ended(m),
         \A c \in Board, j \in Id :
           rows'[c][j] = rows[c][j] \/ (c = mv[m].from /\ j = mv[m].id)
  PROVE  Held' /\ \A c \in Board, j \in Id :
                    /\ <<c, j>> # <<mv[m].from, mv[m].id>>
                    /\ Copying(c, j)
                    => Copying(c, j)'
<1>1. /\ \A n \in Mover \ {m} : mv'[n] = mv[n]
      /\ mv'[m].pc = "ended" /\ mv'[m].from = mv[m].from /\ mv'[m].to = mv[m].to
      /\ \A n \in Mover, pc \in {"holding", "copied"} : At(n, pc)' => n # m /\ At(n, pc)
      /\ \A b \in Board, n \in Mover \ {m} : writer[b] = n => writer'[b] = n
  BY Ends DEF At
<1>2. Held'
  <2> SUFFICES ASSUME NEW n \in Mover
               PROVE  /\ mv'[n] # None => mv'[n].from # mv'[n].to
                      /\ At(n, "holding")' \/ At(n, "copied")' =>
                           /\ writer'[mv'[n].from] = n
                           /\ rows'[mv'[n].from][mv'[n].id] # None
                           /\ mv'[n].packed = rows'[mv'[n].from][mv'[n].id]
    BY DEF Held, At, Live
  <2>1. CASE n = m BY <1>1, <2>1 DEF At, IInv, Held
  <2>2. CASE n # m
    <3>1. mv'[n] = mv[n] BY <1>1, <2>2
    <3>2. ASSUME At(n, "holding") \/ At(n, "copied")
          PROVE  /\ writer'[mv[n].from] = n
                 /\ rows'[mv[n].from][mv[n].id] = rows[mv[n].from][mv[n].id]
      <4>1. mv[n].from \in Board /\ mv[n].id \in Id BY <3>2 DEF At, IInv, TypeOK, Move
      <4>2. writer[mv[n].from] = n /\ writer[mv[m].from] = m BY <3>2 DEF IInv, Held
      <4>3. mv[n].from # mv[m].from BY <2>2, <4>2
      <4> QED BY <1>1, <2>2, <4>1, <4>2, <4>3
    <3> QED BY <1>1, <3>1, <3>2 DEF IInv, Held, Live
  <2> QED BY <2>1, <2>2
<1>3. ASSUME NEW c \in Board, NEW j \in Id, NEW n \in Mover, At(n, "copied"),
             mv[n].from = c, mv[n].id = j, <<c, j>> # <<mv[m].from, mv[m].id>>
      PROVE  Copying(c, j)'
  <2>1. n # m BY <1>3
  <2> QED BY <1>1, <1>3, <2>1 DEF Copying, At
<1> QED BY <1>2, <1>3 DEF Copying

\* The deletes and the commit at the source.
LEMMA Clears ==
  ASSUME IInv, NEW m \in Mover, Clear(m)
  PROVE  IInv'
<1>1. PICK b \in Board, i \in Id, to \in Board, new \in Id :
        /\ mv[m] \in Move /\ mv[m].from = b /\ mv[m].id = i /\ mv[m].to = to /\ mv[m].new = new
        /\ new <= made[to] /\ work[to][new] = work[b][i] /\ acked[b][i] \subseteq acked[to][new]
        /\ Live(b, i)
  <2>1. mv[m] \in Move BY DEF Clear, At, IInv, TypeOK
  <2> QED BY <2>1 DEF Move, Clear, IInv, Copied, Held
<1> DEFINE r == [old |-> i, to |-> to, new |-> new]
<1>2. /\ At(m, "copied") /\ mv[m] # None
      /\ rows' = [rows EXCEPT ![b] = [rows[b] EXCEPT ![i] = None]]
      /\ outs' = [outs EXCEPT ![b] = outs[b] \cup {r}]
      /\ writer' = Released(m) /\ mv' = Ended(m)
      /\ UNCHANGED <<made, work, acked, removed, spare>>
  BY <1>1 DEF Clear, At
<1>3. r \in Out /\ r.old = i /\ r.to = to /\ r.new = new BY DEF Out
<1> HIDE DEF r
<1>4. outs' \in [Board -> SUBSET Out] /\ outs'[b] = outs[b] \cup {r}
      /\ \A c \in Board : outs[c] \subseteq outs'[c]
  BY <1>2, <1>3 DEF IInv, TypeOK
<1>5. \E q \in outs'[b] : /\ q.old = i /\ q.new <= made[q.to]
                          /\ work[q.to][q.new] = work[b][i]
                          /\ acked[b][i] \subseteq acked[q.to][q.new]
  BY <1>1, <1>3, <1>4
<1>6. /\ rows' \in [Board -> [Id -> Row \cup {None}]]
      /\ \A c \in Board, j \in Id :
           rows'[c][j] = IF c = b /\ j = i THEN None ELSE rows[c][j]
      /\ Numbered' /\ LiveKept' /\ DeadKept' /\ BlocksGood'
  <2>1. removed \subseteq removed' /\ UNCHANGED <<made, work, acked, spare>> BY <1>2
  <2>2. rows' = [rows EXCEPT ![b] = [rows[b] EXCEPT ![i] = None]] BY <1>2
  <2>3. \A c \in Board : outs[c] \subseteq outs'[c] BY <1>4
  <2>4. Live(b, i) BY <1>1
  <2> QED BY <1>5, <2>1, <2>2, <2>3, <2>4, Goes
<1>7. /\ writer' \in [Board -> Mover \cup {None}]
      /\ mv' \in [Mover -> Move \cup {None}]
      /\ Copied'
  BY <1>2, Ends DEF IInv
<1>8. TypeOK' BY <1>2, <1>4, <1>6, <1>7 DEF IInv, TypeOK
<1>9. Held' /\ \A c \in Board, j \in Id :
                 <<c, j>> # <<b, i>> /\ Copying(c, j) => Copying(c, j)'
  BY <1>1, <1>2, <1>6, OthersHeld
<1>10. OneCopy' BY <1>2, <1>6, <1>9 DEF IInv, OneCopy, Live
<1> QED BY <1>6, <1>7, <1>8, <1>9, <1>10 DEF IInv

\* A move that breaks off between the two commits.
LEMMA BreaksOff ==
  ASSUME IInv, NEW m \in Mover, BreakOff(m)
  PROVE  IInv'
<1>1. PICK b \in Board, i \in Id : mv[m] \in Move /\ mv[m].from = b /\ mv[m].id = i
  <2>1. mv[m] \in Move BY DEF BreakOff, At, IInv, TypeOK
  <2> QED BY <2>1 DEF Move
<1>2. /\ At(m, "copied") /\ mv[m] # None
      /\ writer' = Released(m) /\ mv' = Ended(m)
      /\ spare' = spare \cup {<<b, i>>}
      /\ UNCHANGED <<rows, made, outs, work, acked, removed>>
  BY <1>1 DEF BreakOff, At
<1>3. /\ writer' \in [Board -> Mover \cup {None}]
      /\ mv' \in [Mover -> Move \cup {None}]
      /\ Copied'
  BY <1>2, Ends DEF IInv
<1>4. TypeOK' BY <1>2, <1>3 DEF IInv, TypeOK, Place
<1>5. Numbered' /\ LiveKept' /\ DeadKept' /\ BlocksGood'
  BY <1>2 DEF IInv, Numbered, LiveKept, DeadKept, BlocksGood, BlockGood, Live
<1>6. Held' /\ \A c \in Board, j \in Id :
                 <<c, j>> # <<b, i>> /\ Copying(c, j) => Copying(c, j)'
  BY <1>1, <1>2, OthersHeld
<1>7. OneCopy'
  <2> SUFFICES ASSUME NEW c \in Board, NEW d \in Board, NEW k \in Id, NEW j \in Id,
                      Live(c, k), Live(d, j), work[c][k] = work[d][j], <<c, k>> # <<d, j>>
               PROVE  \/ <<c, k>> \in spare' \/ <<d, j>> \in spare'
                      \/ Copying(c, k)' \/ Copying(d, j)'
    BY <1>2 DEF OneCopy, Live, Copying
  <2>1. \/ <<c, k>> \in spare \/ <<d, j>> \in spare \/ Copying(c, k) \/ Copying(d, j)
    BY DEF IInv, OneCopy
  <2> QED BY <1>2, <1>6, <2>1
<1> QED BY <1>3, <1>4, <1>5, <1>6, <1>7 DEF IInv

LEMMA NextKeeps == IInv /\ [Next]_vars => IInv'
<1> SUFFICES ASSUME IInv, [Next]_vars PROVE IInv' OBVIOUS
<1>1. CASE Command
  <2>1. PICK b \in Board :
          \/ \E w \in Work : Add(b, w)
          \/ \E i \in Id : \/ \E e \in Entry : Note(b, i, e)
                           \/ \E n \in Name : Take(b, i, n)
                           \/ \E j \in Id : BlockOn(b, i, j)
                           \/ PutBack(b, i)
                           \/ Remove(b, i)
    BY <1>1 DEF Command
  <2>2. CASE \E w \in Work : Add(b, w) BY <2>2, Adds
  <2>3. ASSUME NEW i \in Id,
               \/ \E e \in Entry : Note(b, i, e)
               \/ \E n \in Name : Take(b, i, n)
               \/ \E j \in Id : BlockOn(b, i, j)
               \/ PutBack(b, i)
        PROVE  IInv'
    BY <2>3, Writes
  <2>4. ASSUME NEW i \in Id, Remove(b, i) PROVE IInv' BY <2>4, Removes
  <2> QED BY <2>1, <2>2, <2>3, <2>4
<1>2. ASSUME NEW m \in Mover, Start(m) PROVE IInv' BY <1>2, Checks DEF Start
<1>3. ASSUME NEW m \in Mover, Step(m) PROVE IInv'
  <2>1. CASE Hold(m) BY <2>1, Holds
  <2>2. CASE Receive(m) BY <2>2, Receives
  <2>3. CASE Clear(m) BY <2>3, Clears
  <2>4. CASE Refuse(m)
    <3>1. Drop(m) /\ (At(m, "checked") \/ At(m, "holding"))
      BY <2>4 DEF Refuse, Missing, Busy, BusyAtSource, Full
    <3>2. mv[m] # None /\ mv[m].pc # "copied" BY <3>1 DEF At
    <3> QED BY <3>1, <3>2, Drops
  <2> QED BY <1>3, <2>1, <2>2, <2>3, <2>4 DEF Step
<1>4. ASSUME NEW m \in Mover, Undone(m) PROVE IInv'
  <2>1. mv[m] # None /\ mv[m].pc # "copied" /\ Drop(m) BY <1>4 DEF Undone, At
  <2> QED BY <2>1, Drops
<1>5. ASSUME NEW m \in Mover, BreakOff(m) PROVE IInv' BY <1>5, BreaksOff
<1>6. CASE UNCHANGED vars
  <2>1. UNCHANGED <<rows, made, outs, writer, mv, work, acked, removed, spare>>
    BY <1>6 DEF vars
  <2>2. TypeOK' /\ Numbered' /\ LiveKept' /\ DeadKept' /\ BlocksGood'
    BY <2>1 DEF IInv, TypeOK, Numbered, LiveKept, DeadKept, BlocksGood, BlockGood, Live
  <2>3. Held' /\ Copied' BY <2>1 DEF IInv, Held, Copied, At, Live
  <2>4. OneCopy' BY <2>1 DEF IInv, OneCopy, Copying, At, Live
  <2> QED BY <2>2, <2>3, <2>4 DEF IInv
<1> QED BY <1>1, <1>2, <1>3, <1>4, <1>5, <1>6 DEF Next

LEMMA TransferInvariance == Spec => []IInv
BY InitIInv, NextKeeps, PTL DEF Spec

\* Every reachable state of the boards and the moves has the types the module says.
THEOREM TransferTypeCorrect == Spec => []TypeOK
<1>1. IInv => TypeOK BY DEF IInv
<1> QED BY <1>1, TransferInvariance, PTL

\* A number a board handed out is a card there, was removed on purpose, or is explained by a
\* `moved-out' record that names the very card it became: tb mv loses no card, wherever it
\* breaks off.
THEOREM CardsAreNeverLost == Spec => []Whereabouts
<1>1. IInv => Whereabouts BY DEF IInv, DeadKept, Whereabouts
<1> QED BY <1>1, TransferInvariance, PTL

\* Two boards show the same card only between a move's two commits or after it broke off there.
THEOREM OneCopyOnly == Spec => []OneCopy
<1>1. IInv => OneCopy BY DEF IInv
<1> QED BY <1>1, TransferInvariance, PTL

\* An event somebody was told is kept is on the card, or on what the card became elsewhere.
THEOREM AcksAreKept == Spec => []AckedKept
<1>1. IInv => AckedKept
  <2> SUFFICES ASSUME IInv, NEW b \in Board, NEW i \in Id, work[b][i] # None
               PROVE  \/ Live(b, i) /\ acked[b][i] \subseteq rows[b][i].events
                      \/ <<b, i>> \in removed
                      \/ \E r \in outs[b] : r.old = i /\ acked[b][i] \subseteq acked[r.to][r.new]
    BY DEF AckedKept
  <2>1. CASE Live(b, i) BY <2>1 DEF IInv, LiveKept
  <2>2. CASE ~Live(b, i) BY <2>2 DEF IInv, DeadKept
  <2> QED BY <2>1, <2>2
<1> QED BY <1>1, TransferInvariance, PTL

\* A card's block names, on whatever board the card is, the card it was set on.
THEOREM BlocksNameTheirCards == Spec => []BlockNamesItsCard
<1>1. IInv => BlockNamesItsCard
  BY DEF IInv, BlocksGood, BlockGood, BlockNamesItsCard
<1> QED BY <1>1, TransferInvariance, PTL
=============================================================================
