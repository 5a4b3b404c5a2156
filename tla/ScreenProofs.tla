---------------------------- MODULE ScreenProofs ----------------------------
(***************************************************************************)
(* What holds of a board beside the chores, the wizard and the full-screen *)
(* board, for any number of cards, processes, repositories and keys.       *)
(***************************************************************************)
EXTENDS Screen, DeskProofs

-----------------------------------------------------------------------------
(* Lists of phases                                                         *)

SyncWords == {"fetch", "save", "cards", "lookup", "linked", "plan", "gmove", "gnote"}
ReapWords == {"kill", "permit", "world", "scan", "free", "fnote", "journal"}
SetupWords == {"welcome", "connect", "choose", "panel", "skill", "snippet", "block", "remember"}
LongWords == {"begin", "row", "commit"}
AllWords == DeskWords \cup SyncWords \cup ReapWords \cup SetupWords
            \cup {"repo", "aged", "holder", "alive", "release", "past", "same"}
\* Whatever does not belong to a long transaction, to the plan of a sync or to a reaper's scan.
MildWords == AllWords \ (LongWords \cup {"plan", "gmove", "scan", "free"})

\* Phase x may be one of command c.
Sound(c, x) ==
  /\ x.do = "row" => PlanMeant(x.arg)
  /\ x.do = "put" => x.arg[1] \in Key \cup {SetupDone}
  /\ x.do \in SetupWords => c.op = "setup"
  /\ x.do = "plan" => c.op \in {"sync", "fetched"}
  /\ x.do \in {"scan", "free"} => c.op = "reap"
  /\ x.do = "write" => c.op # "reap"

\* A list of phases of c with words of W.
Of(W, c, s) == \E S : s \in Seq(S) /\ \A x \in S : x.do \in W /\ Sound(c, x)

\* The phases c has left: those of a long transaction are together, a card is freed before a note says so.
InLine(c, s) ==
  /\ Of(AllWords, c, s)
  /\ c.op \notin Bulk => Of(AllWords \ LongWords, c, s)
  /\ \A n \in 1..Len(s) :
       /\ s[n].do \in {"begin", "row"} => n + 1 \in 1..Len(s) /\ s[n + 1].do \in {"row", "commit"}
       /\ s[n].do \in {"row", "commit"} /\ n > 1 => s[n - 1].do \in {"begin", "row"}
       /\ s[n].do = "free" => n + 1 \in 1..Len(s)

LEMMA OfList ==
  ASSUME NEW W, NEW c, NEW s, NEW S, s \in Seq(S), \A x \in S : x.do \in W /\ Sound(c, x)
  PROVE  Of(W, c, s)
BY DEF Of

LEMMA OfNone == ASSUME NEW W, NEW c PROVE Of(W, c, <<>>)
<1> DEFINE s == <<>>
           S == {}
<1>1. s \in Seq(S) /\ \A x \in S : x.do \in W /\ Sound(c, x) OBVIOUS
<1> HIDE DEF s, S
<1>2. Of(W, c, s) BY <1>1, OfList
<1> QED BY <1>2 DEF s

LEMMA OfOne == ASSUME NEW W, NEW c, NEW x, x.do \in W, Sound(c, x) PROVE Of(W, c, <<x>>)
<1> DEFINE s == <<x>>
           S == {x}
<1>1. s \in Seq(S) /\ \A y \in S : y.do \in W /\ Sound(c, y) OBVIOUS
<1> HIDE DEF s, S
<1>2. Of(W, c, s) BY <1>1, OfList
<1> QED BY <1>2 DEF s

LEMMA OfMore == ASSUME NEW W, NEW V, V \subseteq W, NEW c, NEW s, Of(V, c, s) PROVE Of(W, c, s)
BY DEF Of

LEMMA OfAnd ==
  ASSUME NEW W, NEW c, NEW s, NEW t, Of(W, c, s), Of(W, c, t)
  PROVE  Of(W, c, s \o t)
<1>1. PICK S : s \in Seq(S) /\ \A x \in S : x.do \in W /\ Sound(c, x) BY DEF Of
<1>2. PICK T : t \in Seq(T) /\ \A x \in T : x.do \in W /\ Sound(c, x) BY DEF Of
<1>3. s \in Seq(S \cup T) /\ t \in Seq(S \cup T) BY <1>1, <1>2, SeqMonotonic
<1>4. s \o t \in Seq(S \cup T) BY <1>3, ConcatProperties
<1> QED BY <1>1, <1>2, <1>4 DEF Of

LEMMA OfTail ==
  ASSUME NEW W, NEW c, NEW s, Of(W, c, s), s # <<>>
  PROVE  Of(W, c, Tail(s)) /\ Head(s).do \in W /\ Sound(c, Head(s))
<1>1. PICK S : s \in Seq(S) /\ \A x \in S : x.do \in W /\ Sound(c, x) BY DEF Of
<1>2. Tail(s) \in Seq(S) /\ Head(s) \in S BY <1>1, HeadTailProperties
<1> QED BY <1>1, <1>2 DEF Of

LEMMA WordSound ==
  ASSUME NEW c, NEW w, w \notin {"row", "put"}, w \in SetupWords => c.op = "setup",
         w = "plan" => c.op \in {"sync", "fetched"}, w \in {"scan", "free"} => c.op = "reap",
         w = "write" => c.op # "reap", NEW W, w \in W
  PROVE  Of(W, c, <<Do(w)>>) /\ Sound(c, Do(w)) /\ Do(w).do = w
<1>1. Do(w).do = w /\ Sound(c, Do(w)) BY DEF Do, Sound
<1> QED BY <1>1, OfOne

LEMMA PutSound ==
  ASSUME NEW c, NEW key \in Key \cup {SetupDone}, NEW v, NEW W, "put" \in W
  PROVE  Of(W, c, <<Put(key, v)>>) /\ Sound(c, Put(key, v)) /\ Put(key, v).do = "put"
<1>1. Put(key, v).do = "put" /\ Sound(c, Put(key, v)) BY DEF Put, Sound, SetupWords
<1> QED BY <1>1, OfOne

LEMMA MildAre ==
  /\ MildWords \subseteq AllWords \ LongWords
  /\ DeskWords \ LongWords \subseteq MildWords
  /\ DeskWords \subseteq AllWords \ {"plan", "gmove", "scan", "free"}
  /\ SetupWords \subseteq MildWords
  /\ {"fetch", "save", "repo", "aged", "world", "holder", "alive", "release", "past", "same"} \subseteq MildWords
BY DEF MildWords, AllWords, LongWords, DeskWords, SyncWords, ReapWords, SetupWords, CardWords

LEMMA SimpleMild == ASSUME NEW c, NEW s, Simple(c, s) PROVE Of(MildWords, c, s)
<1>1. PICK S : s \in Seq(S) /\ \A x \in S : Plainly(c, x) BY DEF Simple
<1>2. ASSUME NEW x \in S PROVE x.do \in MildWords /\ Sound(c, x)
  <2>1. x.do \in DeskWords \ LongWords /\ Fits(c, x) BY <1>1 DEF Plainly, Fits, LongWords
  <2>2. x.do = "write" => c.op # "reap" BY <2>1 DEF Fits, CardWords, CardOps
  <2>3. x.do \notin SetupWords /\ x.do \notin {"plan", "scan", "free"} /\ x.do # "row"
    BY <2>1 DEF DeskWords, CardWords, SetupWords, LongWords
  <2> QED BY <2>1, <2>2, <2>3, MildAre DEF Sound, Fits
<1> QED BY <1>1, <1>2 DEF Of

LEMMA LooseInLine ==
  ASSUME NEW c, NEW s, Of(AllWords \ LongWords, c, s), c.op = "reap" => Of(AllWords \ (LongWords \cup {"free"}), c, s)
  PROVE  InLine(c, s)
<1>1. Of(AllWords, c, s) BY OfMore
<1>2. PICK S : s \in Seq(S) /\ \A x \in S : x.do \in AllWords \ LongWords /\ Sound(c, x) BY DEF Of
<1>3. \A n \in 1..Len(s) : s[n].do \notin LongWords BY <1>2, ElementOfSeq
<1>4. \A n \in 1..Len(s) : s[n].do # "free"
  <2>1. CASE c.op = "reap"
    <3>1. PICK T : s \in Seq(T) /\ \A x \in T : x.do \in AllWords \ (LongWords \cup {"free"}) BY <2>1 DEF Of
    <3> QED BY <3>1, ElementOfSeq
  <2>2. CASE c.op # "reap"
    <3>1. \A x \in S : x.do # "free" BY <1>2, <2>2 DEF Sound
    <3> QED BY <3>1, <1>2, ElementOfSeq
  <2> QED BY <2>1, <2>2
<1> QED BY <1>1, <1>3, <1>4 DEF InLine, LongWords

LEMMA MildInLine == ASSUME NEW c, NEW s, Of(MildWords, c, s) PROVE InLine(c, s)
<1>1. MildWords \subseteq AllWords \ LongWords /\ MildWords \subseteq AllWords \ (LongWords \cup {"free"})
  BY DEF MildWords
<1> QED BY <1>1, OfMore, LooseInLine

LEMMA InLineTail ==
  ASSUME NEW c, NEW s, InLine(c, s), s # <<>>
  PROVE  /\ InLine(c, Tail(s)) /\ Head(s).do \in AllWords /\ Sound(c, Head(s))
         /\ Head(s).do \in {"begin", "row"} => Tail(s) # <<>> /\ Head(Tail(s)).do \in {"row", "commit"}
         /\ Tail(s) # <<>> /\ Head(Tail(s)).do \in {"row", "commit"} => Head(s).do \in {"begin", "row"}
         /\ Head(s).do = "free" => Tail(s) # <<>>
<1> DEFINE t == Tail(s)
<1>1. Of(AllWords, c, t) /\ Head(s).do \in AllWords /\ Sound(c, Head(s)) BY OfTail DEF InLine
<1>2. c.op \notin Bulk => Of(AllWords \ LongWords, c, t) BY OfTail DEF InLine
<1>3. PICK S : s \in Seq(S) BY DEF InLine, Of
<1>4. /\ t \in Seq(S) /\ Len(t) = Len(s) - 1 /\ Len(s) \in Nat /\ Len(s) # 0 /\ Head(s) = s[1]
      /\ \A n \in 1..Len(t) : t[n] = s[n + 1]
  BY <1>3, HeadTailProperties
<1> HIDE DEF t
<1>5. ASSUME NEW n \in 1..Len(t)
      PROVE  /\ t[n].do \in {"begin", "row"} => n + 1 \in 1..Len(t) /\ t[n + 1].do \in {"row", "commit"}
             /\ t[n].do \in {"row", "commit"} /\ n > 1 => t[n - 1].do \in {"begin", "row"}
             /\ t[n].do = "free" => n + 1 \in 1..Len(t)
  <2>1. n + 1 \in 1..Len(s) /\ t[n] = s[n + 1] BY <1>4
  <2>2. ASSUME t[n].do \in {"begin", "row"} PROVE n + 1 \in 1..Len(t) /\ t[n + 1].do \in {"row", "commit"}
    <3>1. (n + 1) + 1 \in 1..Len(s) /\ s[(n + 1) + 1].do \in {"row", "commit"} BY <2>1, <2>2 DEF InLine
    <3>2. n + 1 \in 1..Len(t) BY <3>1, <1>4
    <3> QED BY <3>1, <3>2, <1>4
  <2>3. ASSUME t[n].do \in {"row", "commit"}, n > 1 PROVE t[n - 1].do \in {"begin", "row"}
    <3>1. (n + 1) - 1 = n /\ n + 1 > 1 /\ n - 1 \in 1..Len(t) /\ (n - 1) + 1 = n BY <1>4, <2>3
    <3>2. s[(n + 1) - 1].do \in {"begin", "row"} BY <2>1, <2>3, <3>1 DEF InLine
    <3>3. t[n - 1] = s[n] BY <3>1, <1>4
    <3> QED BY <3>1, <3>2, <3>3
  <2>4. ASSUME t[n].do = "free" PROVE n + 1 \in 1..Len(t)
    <3>1. (n + 1) + 1 \in 1..Len(s) BY <2>1, <2>4 DEF InLine
    <3> QED BY <3>1, <1>4
  <2> QED BY <2>2, <2>3, <2>4
<1>6. InLine(c, t) BY <1>1, <1>2, <1>5 DEF InLine
<1>7. 1 \in 1..Len(s) BY <1>4
<1>8. ASSUME Head(s).do \in {"begin", "row"} PROVE t # <<>> /\ Head(t).do \in {"row", "commit"}
  <2>1. 1 + 1 \in 1..Len(s) /\ s[1 + 1].do \in {"row", "commit"} BY <1>4, <1>7, <1>8 DEF InLine
  <2>2. 1 \in 1..Len(t) BY <2>1, <1>4
  <2>3. t # <<>> /\ Head(t) = t[1] BY <2>2, <1>4, HeadTailProperties
  <2> QED BY <2>1, <2>2, <2>3, <1>4
<1>9. ASSUME t # <<>>, Head(t).do \in {"row", "commit"} PROVE Head(s).do \in {"begin", "row"}
  <2>1. 1 \in 1..Len(t) /\ Head(t) = t[1] BY <1>9, <1>4, HeadTailProperties
  <2>2. t[1] = s[1 + 1] /\ 1 + 1 \in 1..Len(s) BY <2>1, <1>4
  <2> DEFINE n == 1 + 1
  <2>3. n \in 1..Len(s) /\ n > 1 /\ s[n].do \in {"row", "commit"} /\ n - 1 = 1 BY <2>1, <2>2, <1>9
  <2> HIDE DEF n
  <2>4. s[n - 1].do \in {"begin", "row"} BY <2>3 DEF InLine
  <2> QED BY <2>3, <2>4, <1>4
<1>10. ASSUME Head(s).do = "free" PROVE t # <<>>
  <2>1. 1 + 1 \in 1..Len(s) BY <1>4, <1>7, <1>10 DEF InLine
  <2>2. Len(t) # 0 BY <2>1, <1>4
  <2> QED BY <2>2, <1>4
<1> QED BY <1>1, <1>6, <1>8, <1>9, <1>10 DEF t

LEMMA PhasedInLine ==
  ASSUME NEW c, NEW P, Phased(c, P), c.op # "reap"
  PROVE  InLine(c, P) /\ Of(DeskWords, c, P) /\ P # <<>> /\ Head(P).do = "open"
<1>1. P \in Seq(Range(P)) /\ 1 \in 1..Len(P) /\ P[1].do = "open" /\ Len(P) \in Nat BY DEF Phased
<1>2. ASSUME NEW n \in 1..Len(P) PROVE n = 1 \/ n \in 2..Len(P) BY <1>1
<1>3. ASSUME NEW n \in 1..Len(P) PROVE P[n].do \in DeskWords /\ Sound(c, P[n])
  <2>1. P[n].do \in DeskWords BY <1>1, <1>2 DEF Phased, Fits, DeskWords
  <2>2. P[n].do \notin SetupWords /\ P[n].do \notin {"plan", "scan", "free"} BY <2>1 DEF DeskWords, CardWords, SetupWords
  <2>3. P[n].do = "row" => PlanMeant(P[n].arg) BY <1>1, <1>2 DEF Phased
  <2>4. P[n].do = "put" => P[n].arg[1] \in Key \cup {SetupDone} BY <1>1, <1>2 DEF Phased, Fits
  <2> QED BY <2>1, <2>2, <2>3, <2>4 DEF Sound
<1>4. \A x \in Range(P) : x.do \in DeskWords /\ Sound(c, x) BY <1>1, <1>3 DEF Range
<1>5. Of(DeskWords, c, P) BY <1>1, <1>4 DEF Of
<1>6. Of(AllWords, c, P) BY <1>5, OfMore, MildAre
<1>7. ASSUME c.op \notin Bulk PROVE Of(AllWords \ LongWords, c, P)
  <2>1. \A n \in 1..Len(P) : P[n].do \notin LongWords BY <1>1, <1>2, <1>7 DEF Phased, LongWords
  <2>2. \A x \in Range(P) : x.do \in DeskWords \ LongWords /\ Sound(c, x) BY <1>1, <1>4, <2>1 DEF Range
  <2>3. DeskWords \ LongWords \subseteq AllWords \ LongWords BY MildAre
  <2> QED BY <2>2, <2>3, <1>1 DEF Of
<1>8. ASSUME NEW n \in 1..Len(P)
      PROVE  /\ P[n].do \in {"begin", "row"} => n + 1 \in 1..Len(P) /\ P[n + 1].do \in {"row", "commit"}
             /\ P[n].do \in {"row", "commit"} /\ n > 1 => P[n - 1].do \in {"begin", "row"}
             /\ P[n].do = "free" => n + 1 \in 1..Len(P)
  <2>3. P[n].do # "free" BY <1>3 DEF DeskWords, CardWords
  <2>1. P[n].do \in LongWords => n \in 2..Len(P) BY <1>1, <1>2 DEF LongWords
  <2>2. \A m \in 2..Len(P) : m \in 1..Len(P) BY <1>1
  <2> QED BY <2>1, <2>2, <2>3 DEF Phased, LongWords
<1>9. InLine(c, P) BY <1>6, <1>7, <1>8 DEF InLine
<1> QED BY <1>1, <1>5, <1>9, HeadTailProperties

-----------------------------------------------------------------------------
(* What always holds of a board and of what works on it                    *)

\* What a process has left, and whose transaction is open.
Holds(p) == cmd[p].left # <<>> /\ Head(cmd[p].left).do \in {"row", "commit"}
ProcOK(p) ==
  /\ Meant(plan[p]) /\ Shape(cmd[p]) /\ InLine(plan[p], cmd[p].left)
  /\ Holds(p) <=> writer = p
  /\ cmd[p].left # <<>> => Head(cmd[p].left).do = "open" \/ Someone(plan[p]) \/ plan[p].op = "reap"

AppFields ==
  {"open", "on", "mode", "card", "typed", "base", "why", "cards", "items", "repo", "page", "panel", "busy", "past",
   "target", "slot", "keys", "left", "fetches"}
\* A command of a key is one that may be typed.
Typed(c) == Meant(c) /\ DOMAIN c = DOMAIN Blank /\ c.by = Me
AppOK ==
  /\ DOMAIN app = AppFields /\ \A c \in app.keys : Typed(c)
  /\ app.mode \in {"confirm", "typing"} => Typed(app.typed) /\ app.typed.op \in CardOps
  /\ app.busy # None => Someone(plan[Tui])

FileOK ==
  /\ WellFormed(db)
  /\ IF writer = None THEN work = None ELSE writer \in Proc /\ WellFormed(work) /\ Grows(db, work)

ScreenInv ==
  /\ FileOK /\ FromOK /\ cmd = [p \in Proc |-> cmd[p]] /\ plan = [p \in Proc |-> plan[p]]
  /\ \A p \in Proc : ProcOK(p)
  /\ AppOK

-----------------------------------------------------------------------------
(* One step of one process                                                 *)

\* What phase what leaves of what the process remembers.
Kept(what, c, s) ==
  /\ what \notin {"item", "mode", "rules", "repo", "holder"} => s.item = c.item
  /\ what \notin {"cards", "world"} => s.base = c.base
  /\ what \notin {"fetch", "old"} => s.old = c.old

\* Of a card its scan found dead: no probe vouched for the owner.
Dead(p, pair) == pair[2] = None \/ ~Vouched(p, pair[2])

\* It ends, goes to its next phase, or goes on with what it found to do.
Stopped(p) == \E how \in {"ok", "refused", "killed"} : cmd' = [cmd EXCEPT ![p] = Ended(how)]
Passed(p, what) ==
  \E s : /\ cmd' = [cmd EXCEPT ![p] = s] /\ Shape(s)
         /\ s.left = Tail(cmd[p].left) /\ s.left # <<>> /\ Kept(what, cmd[p], s)
Turned(p, what) ==
  \E s : /\ cmd' = [cmd EXCEPT ![p] = s] /\ Shape(s) /\ s.left # <<>>
         /\ \/ what = "plan" /\ s.item = cmd[p].item /\ Of({"gmove", "gnote"}, plan[p], s.left)
            \/ what = "scan" /\ plan[p].dry /\ s.left = <<Do("journal")>>
            \/ /\ what = "scan" /\ ~plan[p].dry /\ s.base = cmd[p].base
               /\ \E S : /\ s.left \in Seq(S)
                         /\ \A x \in S : /\ x.do \in {"free", "fnote"}
                                         /\ \E pair \in s.old : pair[1] = x.arg /\ Dead(p, pair)
               /\ \A n \in 1..Len(s.left) : s.left[n].do = "free" => n + 1 \in 1..Len(s.left)
            \/ /\ what = "free" /\ s.old = cmd[p].old /\ s.base = cmd[p].base /\ Tail(cmd[p].left) # <<>>
               /\ s.left = Tail(Tail(cmd[p].left))
            \/ /\ what \in SetupWords
               /\ \E steps : Of(MildWords, plan[p], steps) /\ s.left \in {steps, steps \o Tail(cmd[p].left)}

\* It writes nothing, or commits one short transaction; what a long one of its own had written is gone.
Short ==
  /\ UNCHANGED <<writer, work>>
  /\ db' = db \/ (writer = None /\ WellFormed(db') /\ Grows(db, db'))
Dropped(p) == db' = db /\ IF writer = p THEN writer' = None /\ work' = None ELSE UNCHANGED <<writer, work>>
Begins(p) == writer = None /\ writer' = p /\ work' = db /\ db' = db
Fills == UNCHANGED <<db, writer>> /\ WellFormed(work') /\ Grows(db, work')
Closes == writer' = None /\ work' = None /\ (db' = db \/ (WellFormed(db') /\ Grows(db, db')))

StepForm(p, what) ==
  /\ At(p, what) /\ plan' = plan /\ from' = from
  /\ \/ what \notin LongWords /\ Short /\ (Stopped(p) \/ Turned(p, what))
     \/ what \notin LongWords /\ Short /\ Passed(p, what) /\ (what = "open" => Someone(plan[p]))
     \/ Stopped(p) /\ Dropped(p)
     \/ what = "begin" /\ Begins(p) /\ Passed(p, what)
     \/ what = "row" /\ Fills /\ Passed(p, what)
     \/ what = "commit" /\ Closes /\ (Stopped(p) \/ Passed(p, what))

LEMMA WithField ==
  ASSUME NEW s, Shape(s), NEW x
  PROVE  /\ Shape([s EXCEPT !.left = x]) /\ [s EXCEPT !.left = x].left = x
         /\ \A w : Kept(w, s, [s EXCEPT !.left = x])
         /\ Shape([s EXCEPT !.item = x]) /\ [s EXCEPT !.item = x].left = s.left
         /\ \A w \in {"item", "mode", "rules", "repo", "holder"} : Kept(w, s, [s EXCEPT !.item = x])
         /\ [s EXCEPT !.item = x].item = x
         /\ Shape([s EXCEPT !.old = x]) /\ [s EXCEPT !.old = x].left = s.left
         /\ \A w \in {"fetch", "old"} : Kept(w, s, [s EXCEPT !.old = x])
         /\ [s EXCEPT !.old = x].old = x /\ [s EXCEPT !.old = x].item = s.item
         /\ Shape([s EXCEPT !.base = x]) /\ [s EXCEPT !.base = x].left = s.left
         /\ \A w \in {"cards", "world"} : Kept(w, s, [s EXCEPT !.base = x])
         /\ [s EXCEPT !.base = x].base = x
         /\ Shape([s EXCEPT !.past = x]) /\ [s EXCEPT !.past = x].left = s.left
         /\ \A w : Kept(w, s, [s EXCEPT !.past = x]) /\ [s EXCEPT !.past = x].item = s.item
         /\ Shape([s EXCEPT !.made = x]) /\ [s EXCEPT !.made = x].left = s.left
         /\ \A w : Kept(w, s, [s EXCEPT !.made = x])
         /\ \A w : Kept(w, s, s)
         /\ x \in BOOLEAN => /\ Shape([s EXCEPT !.flawed = x]) /\ [s EXCEPT !.flawed = x].left = s.left
                             /\ \A w : Kept(w, s, [s EXCEPT !.flawed = x])
BY DEF Shape, Kept

LEMMA GoesForm ==
  ASSUME NEW p \in Proc, NEW what, Shape(cmd[p]), NEW s, Shape(s), s.left = cmd[p].left, Kept(what, cmd[p], s), Goes(p, s)
  PROVE  Stopped(p) \/ Passed(p, what)
<1>1. CASE Tail(s.left) = <<>> BY <1>1 DEF Goes, Stopped
<1>2. CASE Tail(s.left) # <<>>
  <2> DEFINE x == Tail(s.left)
             t == [s EXCEPT !.left = x]
  <2>1. cmd' = [cmd EXCEPT ![p] = t] BY <1>2 DEF Goes
  <2> HIDE DEF x
  <2>2. Shape(t) /\ t.left = x /\ Kept(what, s, t) BY WithField
  <2> HIDE DEF t
  <2>3. Kept(what, cmd[p], t) BY <2>2 DEF Kept
  <2> QED BY <1>2, <2>1, <2>2, <2>3 DEF Passed, x
<1> QED BY <1>1, <1>2

LEMMA ReadsForm ==
  ASSUME NEW p \in Proc, NEW what, At(p, what), Shape(cmd[p]), what \notin LongWords \cup {"open"}, plan' = plan, from' = from,
         NEW s, Shape(s), s.left = cmd[p].left, Kept(what, cmd[p], s), Reads(p, s)
  PROVE  StepForm(p, what)
<1>1. Short BY DEF Reads, Short
<1>2. Stopped(p) \/ Passed(p, what) BY GoesForm DEF Reads
<1> QED BY <1>1, <1>2 DEF StepForm

LEMMA CommitsForm ==
  ASSUME NEW p \in Proc, NEW what, At(p, what), Shape(cmd[p]), what \notin LongWords \cup {"open"}, plan' = plan, from' = from,
         NEW s, Shape(s), s.left = cmd[p].left, Kept(what, cmd[p], s),
         NEW d, WellFormed(d), Grows(db, d), Commits(p, d, s)
  PROVE  StepForm(p, what)
<1>1. Short BY DEF Commits, Short
<1>2. Stopped(p) \/ Passed(p, what) BY GoesForm DEF Commits
<1> QED BY <1>1, <1>2 DEF StepForm

LEMMA RefusedForm ==
  ASSUME NEW p \in Proc, NEW what, At(p, what), what \notin LongWords, plan' = plan, from' = from, Refused(p)
  PROVE  StepForm(p, what)
<1>1. Short /\ Stopped(p) BY DEF Refused, Stops, Short, Stopped
<1> QED BY <1>1 DEF StepForm

LEMMA OkForm ==
  ASSUME NEW p \in Proc, NEW what, At(p, what), what \notin LongWords, plan' = plan, from' = from, Stops(p, "ok"),
         UNCHANGED <<db, writer, work>>
  PROVE  StepForm(p, what)
<1>1. Short /\ Stopped(p) BY DEF Stops, Short, Stopped
<1> QED BY <1>1 DEF StepForm

LEMMA TurnsForm ==
  ASSUME NEW p \in Proc, NEW what, At(p, what), what \notin LongWords, plan' = plan, from' = from,
         UNCHANGED <<db, writer, work>>,
         NEW s, Shape(s), NEW steps, Turns(p, s, steps),
         \/ what = "plan" /\ s.item = cmd[p].item /\ Of({"gmove", "gnote"}, plan[p], steps)
         \/ what = "scan" /\ plan[p].dry /\ steps = <<Do("journal")>>
         \/ /\ what = "scan" /\ ~plan[p].dry /\ s.base = cmd[p].base
            /\ \E S : /\ steps \in Seq(S)
                      /\ \A x \in S : /\ x.do \in {"free", "fnote"}
                                      /\ \E pair \in s.old : pair[1] = x.arg /\ Dead(p, pair)
            /\ \A n \in 1..Len(steps) : steps[n].do = "free" => n + 1 \in 1..Len(steps)
         \/ what = "free" /\ s.old = cmd[p].old /\ s.base = cmd[p].base /\ Tail(cmd[p].left) # <<>> /\ steps = Tail(Tail(cmd[p].left))
         \/ /\ what \in SetupWords
            /\ \E more : Of(MildWords, plan[p], more) /\ steps \in {more, more \o Tail(cmd[p].left)}
  PROVE  StepForm(p, what)
<1>1. Short BY DEF Short
<1>2. CASE steps = <<>>
  <2>1. Stopped(p) BY <1>2 DEF Turns, Stopped
  <2> QED BY <1>1, <2>1 DEF StepForm
<1>3. CASE steps # <<>>
  <2> DEFINE t == [s EXCEPT !.left = steps]
  <2>1. cmd' = [cmd EXCEPT ![p] = t] BY <1>3 DEF Turns
  <2>2. Shape(t) /\ t.left = steps /\ t.item = s.item /\ t.old = s.old /\ t.base = s.base BY DEF Shape
  <2> HIDE DEF t
  <2>3. Turned(p, what) BY <1>3, <2>1, <2>2 DEF Turned
  <2> QED BY <1>1, <2>3 DEF StepForm
<1> QED BY <1>2, <1>3

-----------------------------------------------------------------------------
(* The phases of module Desk                                               *)

LEMMA Here ==
  ASSUME ScreenInv, NEW p \in Proc, NEW what, At(p, what)
  PROVE  /\ Meant(plan[p]) /\ Shape(cmd[p]) /\ InLine(plan[p], cmd[p].left)
         /\ cmd[p].left # <<>> /\ Head(cmd[p].left).do = what /\ what \in AllWords /\ Sound(plan[p], Head(cmd[p].left))
         /\ what \in {"row", "commit"} <=> writer = p
         /\ what # "open" => Someone(plan[p]) \/ plan[p].op = "reap"
         /\ what = "write" => Someone(plan[p])
         /\ WellFormed(db) /\ plan[p].by \in STRING \cup {Unset} /\ FromOK
         /\ {plan[p].title, plan[p].desc, plan[p].due, plan[p].block} \subseteq Said
<1>1. ProcOK(p) /\ WellFormed(db) /\ FromOK BY DEF ScreenInv, FileOK
<1>2. cmd[p].left # <<>> /\ Head(cmd[p].left).do = what BY DEF At
<1>3. what \in AllWords /\ Sound(plan[p], Head(cmd[p].left)) BY <1>1, <1>2, InLineTail DEF ProcOK
<1>4. what = "write" => Someone(plan[p]) BY <1>1, <1>2, <1>3 DEF ProcOK, Sound
<1> QED BY <1>1, <1>2, <1>3, <1>4 DEF ProcOK, Holds, Meant

LEMMA OpenForm == ASSUME ScreenInv, NEW p \in Proc, Open(p) PROVE StepForm(p, "open")
<1>1. At(p, "open") /\ plan' = plan /\ from' = from BY DEF Open, Still
<1>2. Shape(cmd[p]) BY <1>1, Here
<1>3. CASE Refused(p) BY <1>1, <1>3, RefusedForm DEF LongWords
<1>4. CASE Admitted(db, C(p)) /\ Reads(p, cmd[p])
  <2>1. Short BY <1>4 DEF Reads, Short
  <2>2. Stopped(p) \/ Passed(p, "open") BY <1>2, <1>4, GoesForm, WithField DEF Reads
  <2>3. Someone(plan[p]) BY <1>4 DEF Admitted, MayMake, C
  <2> QED BY <1>1, <2>1, <2>2, <2>3 DEF StepForm, LongWords
<1> QED BY <1>3, <1>4 DEF Open

LEMMA HoldForm == ASSUME ScreenInv, NEW p \in Proc, Hold(p) PROVE StepForm(p, "hold")
<1>1. At(p, "hold") /\ plan' = plan /\ from' = from BY DEF Hold, Still
<1>2. Shape(cmd[p]) BY <1>1, Here
<1>3. CASE Refused(p) BY <1>1, <1>3, RefusedForm DEF LongWords
<1> DEFINE x == Past(db.card[C(p).card], C(p).by)
           s == [cmd[p] EXCEPT !.past = x]
<1>4. CASE Reads(p, s)
  <2> HIDE DEF x
  <2>1. Shape(s) /\ s.left = cmd[p].left /\ Kept("hold", cmd[p], s) BY <1>2, WithField
  <2> HIDE DEF s
  <2> QED BY <1>1, <1>2, <1>4, <2>1, ReadsForm DEF LongWords
<1> QED BY <1>3, <1>4 DEF Hold

LEMMA ItemForm == ASSUME ScreenInv, NEW p \in Proc, Item(p) PROVE StepForm(p, "item")
<1>1. At(p, "item") /\ plan' = plan /\ from' = from BY DEF Item, Still
<1>2. Shape(cmd[p]) BY <1>1, Here
<1>3. CASE Refused(p) BY <1>1, <1>3, RefusedForm DEF LongWords
<1>4. ASSUME NEW x, Reads(p, [cmd[p] EXCEPT !.item = x]) PROVE StepForm(p, "item")
  <2> DEFINE s == [cmd[p] EXCEPT !.item = x]
  <2>1. Shape(s) /\ s.left = cmd[p].left /\ Kept("item", cmd[p], s) BY <1>2, WithField
  <2>2. Reads(p, s) BY <1>4
  <2> HIDE DEF s
  <2> QED BY <1>1, <1>2, <2>1, <2>2, ReadsForm DEF LongWords
<1> QED BY <1>3, <1>4 DEF Item

LEMMA IssueForm == ASSUME ScreenInv, NEW p \in Proc, Issue(p) PROVE StepForm(p, "issue")
<1>1. At(p, "issue") /\ plan' = plan /\ from' = from BY DEF Issue, Still
<1>2. Shape(cmd[p]) /\ Kept("issue", cmd[p], cmd[p]) BY <1>1, Here, WithField
<1>3. CASE Refused(p) BY <1>1, <1>3, RefusedForm DEF LongWords
<1>4. CASE Reads(p, cmd[p]) BY <1>1, <1>2, <1>4, ReadsForm DEF LongWords
<1> QED BY <1>3, <1>4 DEF Issue

LEMMA AskForm == ASSUME ScreenInv, NEW p \in Proc, Ask(p) PROVE StepForm(p, "ask")
<1>1. At(p, "ask") /\ plan' = plan /\ from' = from BY DEF Ask, Still
<1>2. Shape(cmd[p]) /\ Kept("ask", cmd[p], cmd[p]) BY <1>1, Here, WithField
<1>3. CASE Refused(p) BY <1>1, <1>3, RefusedForm DEF LongWords
<1>4. CASE Reads(p, cmd[p]) BY <1>1, <1>2, <1>4, ReadsForm DEF LongWords
<1> QED BY <1>3, <1>4 DEF Ask

LEMMA OldForm == ASSUME ScreenInv, NEW p \in Proc, Old(p) PROVE StepForm(p, "old")
<1>1. At(p, "old") /\ plan' = plan /\ from' = from BY DEF Old, Still
<1>2. Shape(cmd[p]) BY <1>1, Here
<1>3. CASE Refused(p) BY <1>1, <1>3, RefusedForm DEF LongWords
<1> DEFINE x == Get(db, C(p).key)
           s == [cmd[p] EXCEPT !.old = x]
<1>4. CASE Reads(p, s)
  <2> HIDE DEF x
  <2>1. Shape(s) /\ s.left = cmd[p].left /\ Kept("old", cmd[p], s) BY <1>2, WithField
  <2> HIDE DEF s
  <2> QED BY <1>1, <1>2, <1>4, <2>1, ReadsForm DEF LongWords
<1> QED BY <1>3, <1>4 DEF Old

LEMMA PhaseModeForm == ASSUME ScreenInv, NEW p \in Proc, Mode(p) PROVE StepForm(p, "mode")
<1>1. At(p, "mode") /\ plan' = plan /\ from' = from BY DEF Mode, Still
<1>2. Shape(cmd[p]) BY <1>1, Here
<1>3. PICK x : Reads(p, [cmd[p] EXCEPT !.item = x]) BY DEF Mode
<1> DEFINE s == [cmd[p] EXCEPT !.item = x]
<1>4. Shape(s) /\ s.left = cmd[p].left /\ Kept("mode", cmd[p], s) BY <1>2, WithField
<1>5. Reads(p, s) BY <1>3
<1> HIDE DEF s
<1> QED BY <1>1, <1>2, <1>4, <1>5, ReadsForm DEF LongWords

LEMMA ReadRulesForm == ASSUME ScreenInv, NEW p \in Proc, ReadRules(p) PROVE StepForm(p, "rules")
<1>1. At(p, "rules") /\ plan' = plan /\ from' = from BY DEF ReadRules, Still
<1>2. Shape(cmd[p]) BY <1>1, Here
<1>3. PICK x : Reads(p, [cmd[p] EXCEPT !.item = x]) BY DEF ReadRules
<1> DEFINE s == [cmd[p] EXCEPT !.item = x]
<1>4. Shape(s) /\ s.left = cmd[p].left /\ Kept("rules", cmd[p], s) BY <1>2, WithField
<1>5. Reads(p, s) BY <1>3
<1> HIDE DEF s
<1> QED BY <1>1, <1>2, <1>4, <1>5, ReadsForm DEF LongWords

\* A transaction writes under the name of its command, and makes room for the next number only.
LEMMA LineGrows ==
  ASSUME NEW d, WellFormed(d), NEW i, Exists(d, i), NEW by \in STRING \cup {Unset}, NEW kind \in LineKind \ {"created"}
  PROVE  WellFormed(Logged(d, i, by, kind)) /\ Grows(d, Logged(d, i, by, kind))
<1>1. WellFormed(Logged(d, i, by, kind)) BY LogKept
<1>2. Wrote(d, Logged(d, i, by, kind), i, by) /\ Unmoved(d, Logged(d, i, by, kind)) BY WroteLine
<1> DEFINE e == Logged(d, i, by, kind)
<1> HIDE DEF e
<1>3. WellFormed(e) /\ Wrote(d, e, i, by) /\ Unmoved(d, e) BY <1>1, <1>2 DEF e
<1>4. Grows(d, e) BY <1>3, UnmovedGrows
<1> QED BY <1>3, <1>4 DEF e

LEMMA WriteForm == ASSUME ScreenInv, NEW p \in Proc, Write(p) PROVE StepForm(p, "write")
<1>1. At(p, "write") /\ plan' = plan /\ from' = from BY DEF Write, Still
<1>2. Shape(cmd[p]) /\ Meant(plan[p]) /\ Someone(plan[p]) /\ WellFormed(db) BY <1>1, Here
<1>3. CASE Refused(p) BY <1>1, <1>3, RefusedForm DEF LongWords
<1>4. CASE Takes(db, C(p), cmd[p])
  <2> DEFINE d == Effect(db, C(p), cmd[p])
             x == db.next
             t == [cmd[p] EXCEPT !.made = x]
             s == IF C(p).op = "add" THEN t ELSE cmd[p]
  <2>1. Commits(p, d, s) BY <1>4 DEF Write
  <2>2. WellFormed(d) /\ Grows(db, d) BY <1>2, <1>4, EffectKept DEF C
  <2>3. Shape(t) /\ t.left = cmd[p].left /\ Kept("write", cmd[p], t) /\ Kept("write", cmd[p], cmd[p])
    <3> HIDE DEF x
    <3> QED BY <1>2, WithField
  <2> HIDE DEF t, d
  <2>4. Shape(s) /\ s.left = cmd[p].left /\ Kept("write", cmd[p], s) BY <1>2, <2>3
  <2> HIDE DEF s
  <2> QED BY <1>1, <1>2, <2>1, <2>2, <2>4, CommitsForm DEF LongWords
<1> QED BY <1>3, <1>4 DEF Write

LEMMA LogTickForm == ASSUME ScreenInv, NEW p \in Proc, LogTick(p) PROVE StepForm(p, "log")
<1>1. At(p, "log") /\ plan' = plan /\ from' = from BY DEF LogTick, Still
<1>2. Shape(cmd[p]) /\ plan[p].by \in STRING \cup {Unset} /\ WellFormed(db) BY <1>1, Here
<1>3. CASE Refused(p) BY <1>1, <1>3, RefusedForm DEF LongWords
<1> DEFINE d == Logged(db, C(p).card, C(p).by, "check")
<1>4. CASE Commits(p, d, cmd[p]) /\ Exists(db, C(p).card)
  <2>1. WellFormed(d) /\ Grows(db, d) BY <1>2, <1>4, LineGrows DEF LineKind, C
  <2>2. Kept("log", cmd[p], cmd[p]) BY <1>2, WithField
  <2> HIDE DEF d
  <2> QED BY <1>1, <1>2, <1>4, <2>1, <2>2, CommitsForm DEF LongWords
<1> QED BY <1>3, <1>4 DEF LogTick

LEMMA DueForm == ASSUME ScreenInv, NEW p \in Proc, Due(p) PROVE StepForm(p, "due")
<1>1. At(p, "due") /\ plan' = plan /\ from' = from BY DEF Due, Still
<1>2. Shape(cmd[p]) /\ plan[p].by \in STRING \cup {Unset} /\ WellFormed(db) /\ plan[p].due \in Said BY <1>1, Here
<1>3. CASE Refused(p) BY <1>1, <1>3, RefusedForm DEF LongWords
<1> DEFINE d == SetDue(db, About(p), C(p).by, C(p).due)
<1>4. CASE Commits(p, d, cmd[p]) /\ Exists(db, About(p))
  <2>1. WellFormed(d) /\ Wrote(db, d, About(p), C(p).by) /\ Unmoved(db, d) BY <1>2, <1>4, SetDueKept DEF C
  <2>2. Kept("due", cmd[p], cmd[p]) BY <1>2, WithField
  <2> HIDE DEF d
  <2>3. Grows(db, d) BY <1>2, <2>1, UnmovedGrows
  <2> QED BY <1>1, <1>2, <1>4, <2>1, <2>2, <2>3, CommitsForm DEF LongWords
<1> QED BY <1>3, <1>4 DEF Due

LEMMA LogPastForm == ASSUME ScreenInv, NEW p \in Proc, LogPast(p) PROVE StepForm(p, "force")
<1>1. At(p, "force") /\ plan' = plan /\ from' = from BY DEF LogPast, Still
<1>2. Shape(cmd[p]) /\ plan[p].by \in STRING \cup {Unset} /\ WellFormed(db) BY <1>1, Here
<1>3. CASE Refused(p) BY <1>1, <1>3, RefusedForm DEF LongWords
<1>4. Kept("force", cmd[p], cmd[p]) BY <1>2, WithField
<1> DEFINE d == LogForced(db, C(p).card, C(p).by)
<1>5. CASE Commits(p, d, cmd[p]) /\ Exists(db, C(p).card)
  <2>1. WellFormed(d) /\ Grows(db, d) BY <1>2, <1>5, LineGrows DEF LineKind, C, LogForced
  <2> HIDE DEF d
  <2> QED BY <1>1, <1>2, <1>4, <1>5, <2>1, CommitsForm DEF LongWords
<1>6. CASE Reads(p, cmd[p]) BY <1>1, <1>2, <1>4, <1>6, ReadsForm DEF LongWords
<1> QED BY <1>3, <1>5, <1>6 DEF LogPast

\* What neither moves a card nor touches one.
LEMMA RestGrows ==
  ASSUME NEW d, NEW e, WellFormed(d), Only({"blog", "conf", "snap"}, d, e), WellFormed(e)
  PROVE  Grows(d, e)
<1>1. /\ e.card = d.card /\ e.shelf = d.shelf /\ Lines(e) = Lines(d) /\ e.next = d.next /\ e.eid = d.eid
  BY DEF Only, Lines
<1>2. d.next \in Nat /\ d.eid \in Nat BY DEF WellFormed, Placed, Lined
<1> QED BY <1>1, <1>2 DEF Grows, Has, Exists

LEMMA PutRowForm == ASSUME ScreenInv, NEW p \in Proc, PutRow(p) PROVE StepForm(p, "put")
<1>1. At(p, "put") /\ plan' = plan /\ from' = from BY DEF PutRow, Still
<1>2. Shape(cmd[p]) /\ WellFormed(db) /\ Kept("put", cmd[p], cmd[p]) BY <1>1, Here, WithField
<1> DEFINE key == Arg(p)[1]   v == Arg(p)[2]
           d == SetConfig(db, key, v)
<1>3. key \in Key \cup {SetupDone} BY <1>1, Here DEF Sound, Arg
<1>4. Commits(p, d, cmd[p]) BY DEF PutRow
<1> HIDE DEF key, v
<1>5. WellFormed(d) BY <1>2, <1>3, SetConfigKept
<1>6. Only({"conf"}, db, d) BY <1>2, Put_conf, WellFormedTables DEF SetConfig
<1> HIDE DEF d
<1>7. Only({"blog", "conf", "snap"}, db, d) BY <1>6 DEF Only
<1>8. Grows(db, d) BY <1>2, <1>5, <1>7, RestGrows
<1> QED BY <1>1, <1>2, <1>4, <1>5, <1>8, CommitsForm DEF LongWords

LEMMA ForgetSnapForm == ASSUME ScreenInv, NEW p \in Proc, ForgetSnap(p) PROVE StepForm(p, "forget")
<1>1. At(p, "forget") /\ plan' = plan /\ from' = from BY DEF ForgetSnap, Still
<1>2. Shape(cmd[p]) /\ WellFormed(db) /\ Kept("forget", cmd[p], cmd[p]) BY <1>1, Here, WithField
<1> DEFINE repo == Arg(p)
           e == [db EXCEPT !.snap = None]
           d == Forget(db, repo)
<1>4. Commits(p, d, cmd[p]) BY DEF ForgetSnap
<1> HIDE DEF repo
<1>5. WellFormed(d) BY <1>2, ForgetKept
<1>6. Only({"snap"}, db, e) /\ Only({"snap"}, db, db) BY <1>2, Put_snap, WellFormedTables DEF Only
<1>7. d \in {db, e} BY DEF Forget
<1> HIDE DEF d, e
<1>8. Only({"blog", "conf", "snap"}, db, d) BY <1>6, <1>7 DEF Only
<1>9. Grows(db, d) BY <1>2, <1>5, <1>8, RestGrows
<1> QED BY <1>1, <1>2, <1>4, <1>5, <1>9, CommitsForm DEF LongWords

LEMMA BoardLogGrows ==
  ASSUME NEW d, WellFormed(d), NEW by, NEW kind, NEW text
  PROVE  LET e == BoardLogged(d, by, kind, text) IN WellFormed(e) /\ Grows(d, e)
<1> DEFINE e == BoardLogged(d, by, kind, text)
<1>1. WellFormed(e) BY BoardLogKept
<1>2. Only({"blog"}, d, e) BY BoardLoggedIs, WellFormedTables
<1> HIDE DEF e
<1>3. Only({"blog", "conf", "snap"}, d, e) BY <1>2 DEF Only
<1>4. Grows(d, e) BY <1>1, <1>3, RestGrows
<1> QED BY <1>1, <1>4 DEF e

LEMMA NoteForm == ASSUME ScreenInv, NEW p \in Proc, Note(p) PROVE StepForm(p, "note")
<1>1. At(p, "note") /\ plan' = plan /\ from' = from BY DEF Note, Still
<1>2. Shape(cmd[p]) /\ WellFormed(db) /\ Kept("note", cmd[p], cmd[p]) BY <1>1, Here, WithField
<1> DEFINE e == BoardLogged(db, C(p).by, C(p).key, Unset)
           d == IF IsNews(C(p), cmd[p].old) THEN e ELSE db
<1>3. Commits(p, d, cmd[p]) BY DEF Note
<1>4. WellFormed(e) /\ Grows(db, e) /\ Grows(db, db) BY <1>2, BoardLogGrows, Unwritten
<1> HIDE DEF e
<1>5. WellFormed(d) /\ Grows(db, d) BY <1>2, <1>4
<1> HIDE DEF d
<1> QED BY <1>1, <1>2, <1>3, <1>5, CommitsForm DEF LongWords

LEMMA MarkSeenForm == ASSUME ScreenInv, NEW p \in Proc, MarkSeen(p) PROVE StepForm(p, "seen")
<1>1. At(p, "seen") /\ plan' = plan /\ from' = from BY DEF MarkSeen, Still
<1>2. Shape(cmd[p]) /\ WellFormed(db) /\ Kept("seen", cmd[p], cmd[p]) BY <1>1, Here, WithField
<1> DEFINE e == BoardLogged(db, C(p).by, "rules-seen", cmd[p].item)
           d == IF cmd[p].item = None THEN db ELSE e
<1>3. Commits(p, d, cmd[p]) BY DEF MarkSeen
<1>4. WellFormed(e) /\ Grows(db, e) /\ Grows(db, db) BY <1>2, BoardLogGrows, Unwritten
<1> HIDE DEF e
<1>5. WellFormed(d) /\ Grows(db, d) BY <1>2, <1>4
<1> HIDE DEF d
<1> QED BY <1>1, <1>2, <1>3, <1>5, CommitsForm DEF LongWords

LEMMA BeginForm == ASSUME ScreenInv, NEW p \in Proc, Begin(p) PROVE StepForm(p, "begin")
<1>1. At(p, "begin") /\ plan' = plan /\ from' = from BY DEF Begin, Still
<1>2. Shape(cmd[p]) /\ Kept("begin", cmd[p], cmd[p]) BY <1>1, Here, WithField
<1>3. Tail(cmd[p].left) # <<>> BY <1>1, Here, InLineTail
<1>4. Begins(p) /\ Goes(p, cmd[p]) BY DEF Begin, Begins
<1>5. p # None BY ProcAssumption
<1>6. Stopped(p) \/ Passed(p, "begin") BY <1>2, <1>4, GoesForm
<1> DEFINE x == Tail(cmd[p].left)
           s == [cmd[p] EXCEPT !.left = x]
<1>7. cmd' = [cmd EXCEPT ![p] = s] BY <1>3, <1>4 DEF Goes
<1> HIDE DEF x
<1>8. Shape(s) /\ s.left = x /\ Kept("begin", cmd[p], s) BY <1>2, WithField
<1> HIDE DEF s
<1>9. Passed(p, "begin") BY <1>3, <1>7, <1>8 DEF Passed, x
<1> QED BY <1>1, <1>4, <1>9 DEF StepForm

LEMMA RowForm == ASSUME ScreenInv, NEW p \in Proc, Row(p) PROVE StepForm(p, "row")
<1>1. At(p, "row") /\ plan' = plan /\ from' = from /\ db' = db BY DEF Row, Still
<1>2. /\ Shape(cmd[p]) /\ writer = p /\ PlanMeant(Arg(p)) /\ plan[p].by \in STRING \cup {Unset} /\ WellFormed(db)
      /\ InLine(plan[p], cmd[p].left) /\ cmd[p].left # <<>> /\ Head(cmd[p].left).do = "row"
  BY <1>1, Here DEF Sound, Arg
<1>3. WellFormed(work) /\ Grows(db, work) BY <1>2, ProcAssumption DEF ScreenInv, FileOK
<1> DEFINE row == Arg(p)   c == C(p)
           problem == c.op = "bulkedit" /\ RowProblem(work, c.by, row, c.force)
           fits == c.op = "import" => work.next \in Id
<1>4. CASE Stops(p, "refused") /\ writer' = None /\ work' = None
  <2>1. Stopped(p) /\ Dropped(p) BY <1>1, <1>2, <1>4 DEF Stops, Stopped, Dropped
  <2> QED BY <1>1, <2>1 DEF StepForm
<1>5. CASE Knows(work, c.by) /\ fits /\ UNCHANGED writer
  <2> DEFINE y == cmd[p].flawed \/ problem
             z == [cmd[p] EXCEPT !.flawed = y]
             x == Tail(cmd[p].left)
             s == [z EXCEPT !.left = x]
             w == IF problem THEN work
                  ELSE IF c.op = "import" THEN ImportRow(work, c.by, row)
                  ELSE EditRow(work, c.by, row)
  <2>1. work' = w /\ Goes(p, z) BY <1>5 DEF Row
  <2>2. x # <<>> BY <1>2, InLineTail
  <2>3. y \in BOOLEAN BY <1>2 DEF Shape
  <2>4. z.left = cmd[p].left /\ Shape(z) /\ Kept("row", cmd[p], z)
    <3> HIDE DEF y
    <3> QED BY <1>2, <2>3, WithField
  <2>5. cmd' = [cmd EXCEPT ![p] = s] BY <2>1, <2>2, <2>4 DEF Goes
  <2> HIDE DEF x, z
  <2>6. Shape(s) /\ s.left = x /\ Kept("row", z, s) BY <2>4, WithField
  <2>7. Kept("row", cmd[p], s) BY <2>4, <2>6 DEF Kept
  <2> HIDE DEF s
  <2>8. Passed(p, "row") BY <2>2, <2>5, <2>6, <2>7 DEF Passed, x
  <2>9. c.op \in Bulk
    <3>1. c.op \notin Bulk => Of(AllWords \ LongWords, plan[p], cmd[p].left) BY <1>2 DEF InLine, C
    <3>2. c.op \notin Bulk => "row" \in AllWords \ LongWords BY <1>2, <3>1, OfTail
    <3> QED BY <3>2 DEF LongWords
  <2>10. WellFormed(w) /\ Grows(db, w)
    <3>1. CASE problem BY <1>3, <3>1
    <3>2. CASE ~problem /\ c.op = "import"
      <4> DEFINE e == ImportRow(work, c.by, row)
      <4>1. WellFormed(e) /\ Grows(work, e) BY <1>2, <1>3, <1>5, <3>2, ImportRowKept DEF C
      <4> HIDE DEF e
      <4>2. Grows(db, e) BY <1>2, <1>3, <4>1, GrowsAgain
      <4>3. w = e BY <3>2 DEF e
      <4> QED BY <4>1, <4>2, <4>3
    <3>3. CASE ~problem /\ c.op # "import"
      <4> DEFINE e == EditRow(work, c.by, row)
      <4>1. c.op = "bulkedit" BY <2>9, <3>3 DEF Bulk
      <4>2. Exists(work, row.card) BY <3>3, <4>1 DEF RowProblem
      <4>3. WellFormed(e) /\ Wrote(work, e, row.card, c.by) /\ Unmoved(work, e) BY <1>2, <1>3, <4>2, EditRowKept DEF C
      <4> HIDE DEF e
      <4>4. Grows(work, e) BY <1>3, <4>3, UnmovedGrows
      <4>5. Grows(db, e) BY <1>2, <1>3, <4>3, <4>4, GrowsAgain
      <4>6. w = e BY <3>3 DEF e
      <4> QED BY <4>3, <4>5, <4>6
    <3> QED BY <3>1, <3>2, <3>3
  <2> HIDE DEF w
  <2>11. Fills BY <1>1, <1>5, <2>1, <2>10 DEF Fills
  <2> QED BY <1>1, <2>8, <2>11 DEF StepForm
<1> QED BY <1>4, <1>5 DEF Row

LEMMA CommitForm == ASSUME ScreenInv, NEW p \in Proc, Commit(p) PROVE StepForm(p, "commit")
<1>1. At(p, "commit") /\ plan' = plan /\ from' = from BY DEF Commit, Still
<1>2. Shape(cmd[p]) /\ writer = p /\ Kept("commit", cmd[p], cmd[p]) BY <1>1, Here, WithField
<1>3. WellFormed(work) /\ Grows(db, work) BY <1>2, ProcAssumption DEF ScreenInv, FileOK
<1>4. Closes BY <1>3 DEF Commit, Closes
<1>5. CASE Stops(p, "refused") BY <1>1, <1>4, <1>5 DEF StepForm, Stops, Stopped
<1>6. CASE Goes(p, cmd[p])
  <2>1. Stopped(p) \/ Passed(p, "commit") BY <1>2, <1>6, GoesForm
  <2> QED BY <1>1, <1>4, <2>1 DEF StepForm
<1> QED BY <1>5, <1>6 DEF Commit

LEMMA BusyForm == ASSUME ScreenInv, NEW p \in Proc, Busy(p) PROVE \E what : StepForm(p, what)
<1>1. PICK what : At(p, what) BY DEF Busy
<1>2. plan' = plan /\ from' = from BY DEF Busy, Still
<1>3. Stopped(p) /\ Dropped(p) BY DEF Busy, Refused, Stops, Stopped, Dropped
<1> QED BY <1>1, <1>2, <1>3 DEF StepForm

LEMMA DieForm == ASSUME ScreenInv, NEW p \in Proc, Die(p) PROVE \E what : StepForm(p, what)
<1>1. At(p, Head(cmd[p].left).do) BY DEF Die, At
<1>2. plan' = plan /\ from' = from BY DEF Die, Still
<1>3. Stopped(p) /\ Dropped(p) BY DEF Die, Stops, Stopped, Dropped
<1> QED BY <1>1, <1>2, <1>3 DEF StepForm

LEMMA DeskForm == ASSUME ScreenInv, NEW p \in Proc, DeskStep(p) PROVE \E what : StepForm(p, what)
BY OpenForm, HoldForm, ItemForm, PhaseModeForm, IssueForm, WriteForm, LogTickForm, DueForm, LogPastForm, BeginForm, RowForm,
   CommitForm, AskForm, OldForm, PutRowForm, ForgetSnapForm, NoteForm, ReadRulesForm, MarkSeenForm, BusyForm, DieForm
   DEF DeskStep

-----------------------------------------------------------------------------
(* The phases of module Chores                                             *)

LEMMA RepoForm == ASSUME ScreenInv, NEW p \in Proc, Repo(p) PROVE StepForm(p, "repo")
<1>1. At(p, "repo") /\ plan' = plan /\ from' = from BY DEF Repo, Still
<1>2. Shape(cmd[p]) BY <1>1, Here
<1>3. CASE Refused(p) BY <1>1, <1>3, RefusedForm DEF LongWords
<1> DEFINE x == Get(db, "github")   y == Shown(db)
           t == [cmd[p] EXCEPT !.item = x]
           s == [t EXCEPT !.past = y]
<1>4. CASE Reads(p, [cmd[p] EXCEPT !.item = Get(db, "github"), !.past = Shown(db)])
  <2>1. Reads(p, s) BY <1>4
  <2> HIDE DEF x, y
  <2>2. Shape(t) /\ t.left = cmd[p].left /\ Kept("repo", cmd[p], t) BY <1>2, WithField
  <2> HIDE DEF t
  <2>3. Shape(s) /\ s.left = t.left /\ Kept("repo", t, s) BY <2>2, WithField
  <2>4. Kept("repo", cmd[p], s) BY <2>2, <2>3 DEF Kept
  <2> HIDE DEF s
  <2> QED BY <1>1, <1>2, <2>1, <2>2, <2>3, <2>4, ReadsForm DEF LongWords
<1> QED BY <1>3, <1>4 DEF Repo

LEMMA AgedForm == ASSUME ScreenInv, NEW p \in Proc, Aged(p) PROVE StepForm(p, "aged")
<1>1. At(p, "aged") /\ plan' = plan /\ from' = from BY DEF Aged, Still
<1>2. Shape(cmd[p]) /\ Kept("aged", cmd[p], cmd[p]) BY <1>1, Here, WithField
<1>3. CASE Reads(p, cmd[p]) BY <1>1, <1>2, <1>3, ReadsForm DEF LongWords
<1>4. CASE Stops(p, "ok") /\ UNCHANGED <<db, writer, work>> BY <1>1, <1>4, OkForm DEF LongWords
<1> QED BY <1>3, <1>4 DEF Aged

LEMMA FetchForm == ASSUME ScreenInv, NEW p \in Proc, Fetch(p) PROVE StepForm(p, "fetch")
<1>1. At(p, "fetch") /\ plan' = plan /\ from' = from BY DEF Fetch, Still
<1>2. Shape(cmd[p]) BY <1>1, Here
<1>3. PICK r : Reads(p, [cmd[p] EXCEPT !.old = r]) BY DEF Fetch
<1> DEFINE s == [cmd[p] EXCEPT !.old = r]
<1>4. Shape(s) /\ s.left = cmd[p].left /\ Kept("fetch", cmd[p], s) BY <1>2, WithField
<1>5. Reads(p, s) BY <1>3
<1> HIDE DEF s
<1> QED BY <1>1, <1>2, <1>4, <1>5, ReadsForm DEF LongWords

LEMMA SaveGithubIs == ASSUME NEW d, Tables(d), NEW r PROVE Only({"snap"}, d, SaveGithub(d, r))
BY DEF SaveGithub, Only, Tables

LEMMA SaveForm2 == ASSUME ScreenInv, NEW p \in Proc, Save(p) PROVE StepForm(p, "save")
<1>1. At(p, "save") /\ plan' = plan /\ from' = from /\ writer = None /\ UNCHANGED <<writer, work>> BY DEF Save, Still
<1>2. Shape(cmd[p]) /\ WellFormed(db) /\ Kept("save", cmd[p], cmd[p]) BY <1>1, Here, WithField
<1> DEFINE d == SaveGithub(db, cmd[p].old)
<1>3. db' = d BY DEF Save
<1>4. Only({"snap"}, db, d) BY <1>2, SaveGithubIs, WellFormedTables
<1> HIDE DEF d
<1>5. Only({"blog", "conf", "snap"}, db, d) /\ d.conf = db.conf BY <1>4 DEF Only
<1>6. WellFormed(d) BY <1>2, <1>5, RestKept DEF WellFormed
<1>7. Grows(db, d) BY <1>2, <1>5, <1>6, RestGrows
<1>8. Short BY <1>1, <1>3, <1>6, <1>7 DEF Short
<1>9. Stopped(p) \/ Passed(p, "save")
  <2>1. CASE Goes(p, cmd[p]) BY <1>2, <2>1, GoesForm
  <2>2. CASE Stops(p, "refused") BY <2>2 DEF Stops, Stopped
  <2> QED BY <2>1, <2>2 DEF Save
<1> QED BY <1>1, <1>8, <1>9 DEF StepForm, LongWords

LEMMA CardsForm == ASSUME ScreenInv, NEW p \in Proc, Cards(p) PROVE StepForm(p, "cards")
<1>1. At(p, "cards") /\ plan' = plan /\ from' = from BY DEF Cards, Still
<1>2. Shape(cmd[p]) BY <1>1, Here
<1> DEFINE x == db.card
           s == [cmd[p] EXCEPT !.base = x]
<1>3. Reads(p, s) BY DEF Cards
<1> HIDE DEF x
<1>4. Shape(s) /\ s.left = cmd[p].left /\ Kept("cards", cmd[p], s) BY <1>2, WithField
<1> HIDE DEF s
<1> QED BY <1>1, <1>2, <1>3, <1>4, ReadsForm DEF LongWords

LEMMA LookupForm == ASSUME ScreenInv, NEW p \in Proc, Lookup(p) PROVE StepForm(p, "lookup")
<1>1. At(p, "lookup") /\ plan' = plan /\ from' = from BY DEF Lookup, Still
<1>2. Shape(cmd[p]) BY <1>1, Here
<1>3. PICK x : Reads(p, [cmd[p] EXCEPT !.past = x]) BY DEF Lookup
<1> DEFINE s == [cmd[p] EXCEPT !.past = x]
<1>4. Shape(s) /\ s.left = cmd[p].left /\ Kept("lookup", cmd[p], s) BY <1>2, WithField
<1>5. Reads(p, s) BY <1>3
<1> HIDE DEF s
<1> QED BY <1>1, <1>2, <1>4, <1>5, ReadsForm DEF LongWords

LEMMA LinkedForm == ASSUME ScreenInv, NEW p \in Proc, Linked(p) PROVE StepForm(p, "linked")
<1>1. At(p, "linked") /\ plan' = plan /\ from' = from BY DEF Linked, Still
<1>2. Shape(cmd[p]) BY <1>1, Here
<1>3. PICK x : Reads(p, [cmd[p] EXCEPT !.made = x]) BY DEF Linked
<1> DEFINE s == [cmd[p] EXCEPT !.made = x]
<1>4. Shape(s) /\ s.left = cmd[p].left /\ Kept("linked", cmd[p], s) BY <1>2, WithField
<1>5. Reads(p, s) BY <1>3
<1> HIDE DEF s
<1> QED BY <1>1, <1>2, <1>4, <1>5, ReadsForm DEF LongWords

\* Two phases for each of some cards, in their order.
Each(first, second, S) == {[do |-> w, arg |-> i] : w \in {first, second}, i \in S}

LEMMA TwoEachIs ==
  ASSUME NEW first, NEW second, NEW N \in Nat, NEW S, NEW cards \in [1..N -> S]
  PROVE  /\ TwoEach(first, second, cards) \in Seq(Each(first, second, S))
         /\ first # second =>
              \A n \in 1..Len(TwoEach(first, second, cards)) :
                TwoEach(first, second, cards)[n].do = first => n + 1 \in 1..Len(TwoEach(first, second, cards))
<1> DEFINE T == Each(first, second, S)
           M == 2 * N
           x(n) == [do |-> IF n % 2 = 1 THEN first ELSE second, arg |-> cards[(n + 1) \div 2]]
           s == [n \in 1..M |-> x(n)]
<1>1. Len(cards) = N OBVIOUS
<1>2. TwoEach(first, second, cards) = s BY <1>1 DEF TwoEach
<1>3. M \in Nat OBVIOUS
<1>4. \A n \in 1..M : (n + 1) \div 2 \in 1..N OBVIOUS
<1>5. \A n \in 1..M : x(n) \in T BY <1>4 DEF Each
<1>6. \A n \in 1..M : n % 2 = 1 => n + 1 \in 1..M OBVIOUS
<1>7. first # second => \A n \in 1..M : x(n).do = first => n % 2 = 1 OBVIOUS
<1> HIDE DEF T, x, M
<1>8. s \in [1..M -> T] /\ \A n \in 1..M : s[n] = x(n) BY <1>5
<1> HIDE DEF s
<1>9. s \in Seq(T) /\ Len(s) = M BY <1>3, <1>8
<1> QED BY <1>2, <1>6, <1>7, <1>8, <1>9 DEF T

LEMMA PlanForm == ASSUME ScreenInv, NEW p \in Proc, Plan(p) PROVE StepForm(p, "plan")
<1>1. At(p, "plan") /\ plan' = plan /\ from' = from /\ UNCHANGED <<db, writer, work>> BY DEF Plan, Still
<1>2. Shape(cmd[p]) BY <1>1, Here
<1> DEFINE cards == PlanMoves(cmd[p].old, cmd[p].base, cmd[p].past, cmd[p].made, Returned)
           steps == MovesOf(cards)
<1>3. Turns(p, cmd[p], steps) BY DEF Plan
<1>4. PICK S \in SUBSET Id : cards = InOrder(S) BY DEF PlanMoves
<1> HIDE DEF cards
<1> DEFINE N == Cardinality(S)
           T == Each("gmove", "gnote", S)
<1>5. cards \in [1..N -> S] BY <1>4, InOrderIs, RowsAssumption DEF Id
<1>6. N \in Nat
  <2>1. IsFiniteSet(Id) BY FS_Interval, RowsAssumption DEF Id
  <2> QED BY <2>1, FS_Subset, FS_CardinalityType
<1> HIDE DEF N
<1>7. TwoEach("gmove", "gnote", cards) \in Seq(T) BY <1>5, <1>6, TwoEachIs
<1>10. steps \in Seq(T) BY <1>7 DEF MovesOf
<1>8. \A x \in T : x.do \in {"gmove", "gnote"} /\ Sound(plan[p], x) BY DEF Sound, SetupWords, Each
<1> HIDE DEF steps, T
<1>9. Of({"gmove", "gnote"}, plan[p], steps) BY <1>8, <1>10 DEF Of
<1> QED BY <1>1, <1>2, <1>3, <1>9, TurnsForm DEF LongWords

LEMMA GMoveForm == ASSUME ScreenInv, NEW p \in Proc, GMove(p) PROVE StepForm(p, "gmove")
<1>1. At(p, "gmove") /\ plan' = plan /\ from' = from BY DEF GMove, Still
<1>2. Shape(cmd[p]) /\ WellFormed(db) /\ Kept("gmove", cmd[p], cmd[p]) BY <1>1, Here, WithField
<1>3. CASE Refused(p) BY <1>1, <1>3, RefusedForm DEF LongWords
<1> DEFINE i == Arg(p)   o == db.card[i].owner
           d == MoveTo(db, i, Github, "review", o)
<1>4. CASE Exists(db, i) /\ Commits(p, d, cmd[p])
  <2>1. db.card[i] \in CardRow BY <1>2, <1>4, InItsColumn
  <2>2. o \in STRING \cup {None} BY <2>1 DEF CardRow
  <2>3. Github \in STRING \cup {Unset} /\ "review" \in Column BY ChoresAssumption DEF Column
  <2> HIDE DEF i, o
  <2>4. WellFormed(d) /\ Grows(db, d) BY <1>2, <1>4, <2>2, <2>3, MoveToKept
  <2> HIDE DEF d
  <2> QED BY <1>1, <1>2, <1>4, <2>4, CommitsForm DEF LongWords
<1> QED BY <1>3, <1>4 DEF GMove

LEMMA GNoteForm == ASSUME ScreenInv, NEW p \in Proc, GNote(p) PROVE StepForm(p, "gnote")
<1>1. At(p, "gnote") /\ plan' = plan /\ from' = from BY DEF GNote, Still
<1>2. Shape(cmd[p]) /\ WellFormed(db) /\ Kept("gnote", cmd[p], cmd[p]) BY <1>1, Here, WithField
<1>3. CASE Refused(p) BY <1>1, <1>3, RefusedForm DEF LongWords
<1> DEFINE d == Logged(db, Arg(p), Github, "github")
<1>4. CASE Exists(db, Arg(p)) /\ Commits(p, d, cmd[p])
  <2>1. Github \in STRING \cup {Unset} BY ChoresAssumption
  <2>2. WellFormed(d) /\ Grows(db, d) BY <1>2, <1>4, <2>1, LineGrows DEF LineKind
  <2> HIDE DEF d
  <2> QED BY <1>1, <1>2, <1>4, <2>2, CommitsForm DEF LongWords
<1> QED BY <1>3, <1>4 DEF GNote

LEMMA SyncForm == ASSUME ScreenInv, NEW p \in Proc, SyncStep(p) PROVE \E what : StepForm(p, what)
BY RepoForm, AgedForm, FetchForm, SaveForm2, CardsForm, LookupForm, LinkedForm, PlanForm, GMoveForm, GNoteForm DEF SyncStep

LEMMA KilledForm == ASSUME ScreenInv, NEW p \in Proc, Killed(p) PROVE StepForm(p, "kill")
<1>1. At(p, "kill") /\ plan' = plan /\ from' = from BY DEF Killed, Still
<1>2. Shape(cmd[p]) /\ Kept("kill", cmd[p], cmd[p]) BY <1>1, Here, WithField
<1>3. CASE Reads(p, cmd[p]) BY <1>1, <1>2, <1>3, ReadsForm DEF LongWords
<1>4. CASE Stops(p, "ok") /\ UNCHANGED <<db, writer, work>> BY <1>1, <1>4, OkForm DEF LongWords
<1> QED BY <1>3, <1>4 DEF Killed

LEMMA PermitForm == ASSUME ScreenInv, NEW p \in Proc, Permit(p) PROVE StepForm(p, "permit")
<1>1. At(p, "permit") /\ plan' = plan /\ from' = from BY DEF Permit, Still
<1>2. Shape(cmd[p]) /\ Kept("permit", cmd[p], cmd[p]) BY <1>1, Here, WithField
<1>3. CASE Reads(p, cmd[p]) BY <1>1, <1>2, <1>3, ReadsForm DEF LongWords
<1>4. CASE Refused(p) BY <1>1, <1>4, RefusedForm DEF LongWords
<1> QED BY <1>3, <1>4 DEF Permit

LEMMA WorldForm == ASSUME ScreenInv, NEW p \in Proc, World(p) PROVE StepForm(p, "world")
<1>1. At(p, "world") /\ plan' = plan /\ from' = from BY DEF World, Still
<1>2. Shape(cmd[p]) BY <1>1, Here
<1>3. PICK x : Reads(p, [cmd[p] EXCEPT !.base = x]) BY DEF World
<1> DEFINE s == [cmd[p] EXCEPT !.base = x]
<1>4. Shape(s) /\ s.left = cmd[p].left /\ Kept("world", cmd[p], s) BY <1>2, WithField
<1>5. Reads(p, s) BY <1>3
<1> HIDE DEF s
<1> QED BY <1>1, <1>2, <1>4, <1>5, ReadsForm DEF LongWords

\* Whoever the reaper calls dead is not one of those it must never call so.
LEMMA ScanForm == ASSUME ScreenInv, NEW p \in Proc, Scan(p) PROVE StepForm(p, "scan")
<1>1. At(p, "scan") /\ plan' = plan /\ from' = from /\ UNCHANGED <<db, writer, work>> BY DEF Scan, Still
<1>2. Shape(cmd[p]) BY <1>1, Here
<1> DEFINE dead == DeadCards(C(p), cmd[p].base)
           x == {<<i, db.card[i].owner>> : i \in dead}
           s == [cmd[p] EXCEPT !.old = x]
           frees == FreeSteps(InOrder(dead))
           steps == IF C(p).dry THEN <<Do("journal")>> ELSE frees
<1>3. Turns(p, s, steps) BY DEF Scan
<1>4. dead \subseteq Id BY DEF DeadCards
<1>5. ASSUME NEW i \in dead PROVE \E pair \in x : pair[1] = i /\ Dead(p, pair)
  <2> DEFINE o == db.card[i].owner
  <2>1. ~AliveImpl(db, i, cmd[p].base, plan[p].text, TRUE) BY DEF DeadCards, C
  <2>2. \/ o = None
        \/ /\ o \notin Protected /\ o # plan[p].text
           /\ o \in Worker => cmd[p].base[o] \cap {"agent", "tmux", "process"} = {}
    BY <2>1 DEF AliveImpl
  <2>3. <<i, o>> \in x OBVIOUS
  <2> HIDE DEF o, x, dead
  <2>4. Dead(p, <<i, o>>) BY <2>2 DEF Dead, Vouched
  <2> QED BY <2>3, <2>4
<1> HIDE DEF dead
<1> DEFINE N == Cardinality(dead)
           T == Each("free", "fnote", dead)
<1>6. InOrder(dead) \in [1..N -> dead] BY <1>4, InOrderIs, RowsAssumption DEF Id
<1>7. N \in Nat
  <2>1. IsFiniteSet(Id) BY FS_Interval, RowsAssumption DEF Id
  <2> QED BY <1>4, <2>1, FS_Subset, FS_CardinalityType
<1> HIDE DEF N
<1>8. frees \in Seq(T) /\ \A n \in 1..Len(frees) : frees[n].do = "free" => n + 1 \in 1..Len(frees)
  BY <1>6, <1>7, TwoEachIs DEF FreeSteps
<1> HIDE DEF frees, x
<1>9. Shape(s) /\ s.old = x /\ s.base = cmd[p].base BY <1>2 DEF Shape
<1> HIDE DEF s
<1>10. \A y \in T : y.do \in {"free", "fnote"} /\ \E pair \in s.old : pair[1] = y.arg /\ Dead(p, pair)
  BY <1>5, <1>9 DEF Each
<1> HIDE DEF T
<1>11. CASE plan[p].dry
  <2>1. steps = <<Do("journal")>> BY <1>11 DEF C
  <2> HIDE DEF steps
  <2> QED BY <1>1, <1>2, <1>3, <1>9, <1>11, <2>1, TurnsForm DEF LongWords
<1>12. CASE ~plan[p].dry
  <2>1. steps = frees BY <1>12 DEF C
  <2> HIDE DEF steps
  <2> QED BY <1>1, <1>2, <1>3, <1>8, <1>9, <1>10, <1>12, <2>1, TurnsForm DEF LongWords
<1> QED BY <1>11, <1>12

LEMMA FreeForm == ASSUME ScreenInv, NEW p \in Proc, Free(p) PROVE StepForm(p, "free")
<1>1. At(p, "free") /\ plan' = plan /\ from' = from BY DEF Free, Still
<1>2. Shape(cmd[p]) /\ WellFormed(db) /\ Kept("free", cmd[p], cmd[p]) BY <1>1, Here, WithField
<1> DEFINE i == Arg(p)
           d == MoveTo(db, i, Reaper, "todo", None)
<1>3. CASE Exists(db, i) /\ Commits(p, d, cmd[p])
  <2>1. Reaper \in STRING \cup {Unset} /\ "todo" \in Column /\ None \in STRING \cup {None}
    BY ChoresAssumption DEF Column
  <2> HIDE DEF i
  <2>2. WellFormed(d) /\ Grows(db, d) BY <1>2, <1>3, <2>1, MoveToKept
  <2> HIDE DEF d
  <2> QED BY <1>1, <1>2, <1>3, <2>2, CommitsForm DEF LongWords
<1> DEFINE rest == Tail(Tail(cmd[p].left))
<1>4. CASE Turns(p, cmd[p], rest) /\ UNCHANGED <<db, writer, work>>
  <2>1. Tail(cmd[p].left) # <<>> BY <1>1, Here, InLineTail
  <2> QED BY <1>1, <1>2, <1>4, <2>1, TurnsForm DEF LongWords
<1> QED BY <1>3, <1>4 DEF Free

LEMMA FreeNoteForm == ASSUME ScreenInv, NEW p \in Proc, FreeNote(p) PROVE StepForm(p, "fnote")
<1>1. At(p, "fnote") /\ plan' = plan /\ from' = from BY DEF FreeNote, Still
<1>2. Shape(cmd[p]) /\ WellFormed(db) /\ Kept("fnote", cmd[p], cmd[p]) BY <1>1, Here, WithField
<1> DEFINE there == Exists(db, Arg(p)) /\ Knows(db, Reaper)
           e == Logged(db, Arg(p), Reaper, "note")
           d == IF there THEN e ELSE db
<1>3. Commits(p, d, cmd[p]) BY DEF FreeNote
<1>4. WellFormed(d) /\ Grows(db, d)
  <2>1. CASE there
    <3>1. Reaper \in STRING \cup {Unset} BY ChoresAssumption
    <3>2. WellFormed(e) /\ Grows(db, e) BY <1>2, <2>1, <3>1, LineGrows DEF LineKind
    <3> QED BY <2>1, <3>2
  <2>2. CASE ~there BY <1>2, <2>2, Unwritten
  <2> QED BY <2>1, <2>2
<1> HIDE DEF d
<1> QED BY <1>1, <1>2, <1>3, <1>4, CommitsForm DEF LongWords

LEMMA JournalForm == ASSUME ScreenInv, NEW p \in Proc, Journal(p) PROVE StepForm(p, "journal")
<1>1. At(p, "journal") /\ plan' = plan /\ from' = from BY DEF Journal, Still
<1>2. Shape(cmd[p]) /\ Kept("journal", cmd[p], cmd[p]) BY <1>1, Here, WithField
<1>3. Reads(p, cmd[p]) BY DEF Journal
<1> QED BY <1>1, <1>2, <1>3, ReadsForm DEF LongWords

LEMMA HolderForm == ASSUME ScreenInv, NEW p \in Proc, Holder(p) PROVE StepForm(p, "holder")
<1>1. At(p, "holder") /\ plan' = plan /\ from' = from BY DEF Holder, Still
<1>2. Shape(cmd[p]) BY <1>1, Here
<1>3. CASE Refused(p) BY <1>1, <1>3, RefusedForm DEF LongWords
<1> DEFINE x == db.card[C(p).card].owner
           s == [cmd[p] EXCEPT !.item = x]
<1>4. CASE Reads(p, s)
  <2> HIDE DEF x
  <2>1. Shape(s) /\ s.left = cmd[p].left /\ Kept("holder", cmd[p], s) BY <1>2, WithField
  <2> HIDE DEF s
  <2> QED BY <1>1, <1>2, <1>4, <2>1, ReadsForm DEF LongWords
<1> QED BY <1>3, <1>4 DEF Holder

LEMMA AskAliveForm == ASSUME ScreenInv, NEW p \in Proc, AskAlive(p) PROVE StepForm(p, "alive")
<1>1. At(p, "alive") /\ plan' = plan /\ from' = from BY DEF AskAlive, Still
<1>2. Shape(cmd[p]) /\ Kept("alive", cmd[p], cmd[p]) BY <1>1, Here, WithField
<1>3. CASE Refused(p) BY <1>1, <1>3, RefusedForm DEF LongWords
<1>4. CASE Reads(p, cmd[p]) BY <1>1, <1>2, <1>4, ReadsForm DEF LongWords
<1> QED BY <1>3, <1>4 DEF AskAlive

LEMMA ReleaseForm == ASSUME ScreenInv, NEW p \in Proc, Release(p) PROVE StepForm(p, "release")
<1>1. At(p, "release") /\ plan' = plan /\ from' = from BY DEF Release, Still
<1>2. /\ Shape(cmd[p]) /\ WellFormed(db) /\ Kept("release", cmd[p], cmd[p])
      /\ plan[p].by \in STRING \cup {Unset}
  BY <1>1, Here, WithField
<1>3. CASE Refused(p) BY <1>1, <1>3, RefusedForm DEF LongWords
<1> DEFINE i == C(p).card
           by == C(p).by
           d == MoveTo(db, i, by, "todo", None)
<1>4. CASE Exists(db, i) /\ Commits(p, d, cmd[p])
  <2>1. by \in STRING \cup {Unset} /\ "todo" \in Column /\ None \in STRING \cup {None} BY <1>2 DEF Column, C
  <2> HIDE DEF i, by
  <2>2. WellFormed(d) /\ Grows(db, d) BY <1>2, <1>4, <2>1, MoveToKept
  <2> HIDE DEF d
  <2> QED BY <1>1, <1>2, <1>4, <2>2, CommitsForm DEF LongWords
<1> QED BY <1>3, <1>4 DEF Release, StillHeld

LEMMA ReapForm == ASSUME ScreenInv, NEW p \in Proc, ReapStep(p) PROVE \E what : StepForm(p, what)
BY KilledForm, PermitForm, WorldForm, ScanForm, FreeForm, FreeNoteForm, JournalForm, HolderForm, AskAliveForm, ReleaseForm
   DEF ReapStep

-----------------------------------------------------------------------------
(* The phases of modules Wizard and Screen                                 *)

LEMMA OfThree ==
  ASSUME NEW W, NEW c, NEW x, NEW y, NEW z, x.do \in W, Sound(c, x), y.do \in W, Sound(c, y), z.do \in W, Sound(c, z)
  PROVE  Of(W, c, <<x, y, z>>) /\ Of(W, c, <<x, y>>)
<1> DEFINE s == <<x, y, z>>
           t == <<x, y>>
           S == {x, y, z}
<1>1. s \in Seq(S) /\ t \in Seq(S) /\ \A a \in S : a.do \in W /\ Sound(c, a) OBVIOUS
<1> HIDE DEF s, t, S
<1>2. Of(W, c, s) /\ Of(W, c, t) BY <1>1, OfList
<1> QED BY <1>2 DEF s, t

LEMMA SetGithubMild == ASSUME NEW c, NEW repo PROVE Of(MildWords, c, SetGithub(repo))
<1> DEFINE x == Put("github", None)
           y == [do |-> "forget", arg |-> repo]
           z == Put("github", repo)
           w == Put("github-panel", "shown")
<1>1. {"github", "github-panel"} \subseteq Key \cup {SetupDone} BY DEF Key, Named, Panels
<1>2. {"put", "forget"} \subseteq MildWords
  BY DEF MildWords, AllWords, LongWords, DeskWords, SyncWords, ReapWords, SetupWords, CardWords
<1>3. Sound(c, x) /\ Sound(c, z) /\ Sound(c, w) /\ x.do = "put" /\ z.do = "put" /\ w.do = "put"
  BY <1>1, <1>2, PutSound
<1>4. Sound(c, y) /\ y.do = "forget" BY DEF Sound, SetupWords
<1>5. SetGithub(repo) = IF repo = None THEN <<x, y>> ELSE <<y, z, w>> BY DEF SetGithub
<1> HIDE DEF x, y, z, w
<1> QED BY <1>2, <1>3, <1>4, <1>5, OfThree

LEMMA ThenForm ==
  ASSUME ScreenInv, NEW p \in Proc, NEW what \in SetupWords, At(p, what), plan' = plan, from' = from,
         NEW s, Shape(s), s.left = cmd[p].left, NEW steps, Of(MildWords, plan[p], steps), Then(p, s, steps)
  PROVE  StepForm(p, what)
<1> DEFINE more == IF C(p).dry THEN <<>> ELSE steps
           all == more \o Tail(cmd[p].left)
<1>1. Turns(p, s, all) /\ UNCHANGED <<db, writer, work>> BY DEF Then
<1>2. Of(MildWords, plan[p], more) BY OfNone
<1>3. what \notin LongWords BY DEF LongWords, SetupWords
<1> HIDE DEF more
<1> QED BY <1>1, <1>2, <1>3, TurnsForm

LEMMA WelcomeForm == ASSUME ScreenInv, NEW p \in Proc, Welcome(p) PROVE StepForm(p, "welcome")
<1>1. At(p, "welcome") /\ plan' = plan /\ from' = from BY DEF Welcome, OnlyAsks, Still
<1>2. Shape(cmd[p]) /\ "welcome" \in SetupWords BY <1>1, Here DEF SetupWords
<1> DEFINE x == Put(SetupDone, "1")
           steps == <<x>>
<1>3. CASE Turns(p, cmd[p], steps) /\ UNCHANGED <<db, writer, work>>
  <2>1. "put" \in MildWords
    BY DEF MildWords, AllWords, LongWords, DeskWords, SyncWords, ReapWords, SetupWords, CardWords
  <2>2. Of(MildWords, plan[p], steps) BY <2>1, PutSound
  <2> HIDE DEF steps
  <2> QED BY <1>1, <1>2, <1>3, <2>2, TurnsForm DEF LongWords
<1> DEFINE none == <<>>
<1>4. CASE Then(p, cmd[p], none)
  <2>1. Of(MildWords, plan[p], none) BY OfNone
  <2> HIDE DEF none
  <2> QED BY <1>1, <1>2, <1>4, <2>1, ThenForm
<1> QED BY <1>3, <1>4 DEF Welcome

LEMMA DisconnectMild == ASSUME NEW c PROVE Of(MildWords, c, Disconnect)
<1> DEFINE a == SetGithub(None)
           b == <<Put("github-panel", "hidden")>>
<1>1. "github-panel" \in Key \cup {SetupDone} BY DEF Key, Panels
<1>2. "put" \in MildWords
  BY DEF MildWords, AllWords, LongWords, DeskWords, SyncWords, ReapWords, SetupWords, CardWords
<1>3. Of(MildWords, c, b) BY <1>1, <1>2, PutSound
<1>4. Of(MildWords, c, a) BY SetGithubMild
<1> HIDE DEF a, b
<1>5. Of(MildWords, c, a \o b) BY <1>3, <1>4, OfAnd
<1> QED BY <1>5 DEF Disconnect, a, b

LEMMA ConnectedMild == ASSUME NEW c, NEW repo PROVE Of(MildWords, c, Connected(repo))
<1> DEFINE a == SetGithub(repo)
           x == Put("github-panel", "shown")
           y == Do("fetch")
           z == Do("save")
           b == <<x, y, z>>
<1>1. "github-panel" \in Key \cup {SetupDone} BY DEF Key, Panels
<1>2. {"put", "fetch", "save"} \subseteq MildWords
  BY DEF MildWords, AllWords, LongWords, DeskWords, SyncWords, ReapWords, SetupWords, CardWords
<1>3. Sound(c, x) /\ x.do \in MildWords BY <1>1, <1>2, PutSound
<1>4. Sound(c, y) /\ y.do \in MildWords /\ Sound(c, z) /\ z.do \in MildWords BY <1>2 DEF Sound, Do, SetupWords
<1> HIDE DEF x, y, z
<1>5. Of(MildWords, c, b) BY <1>3, <1>4, OfThree
<1>6. Of(MildWords, c, a) BY SetGithubMild
<1> HIDE DEF a, b
<1>7. Of(MildWords, c, a \o b) BY <1>5, <1>6, OfAnd
<1> QED BY <1>7 DEF Connected, a, b, x, y, z

LEMMA ConnectForm == ASSUME ScreenInv, NEW p \in Proc, ConnectStep(p) PROVE StepForm(p, "connect")
<1>1. At(p, "connect") /\ plan' = plan /\ from' = from BY DEF ConnectStep, OnlyAsks, Still
<1>2. Shape(cmd[p]) /\ "connect" \in SetupWords /\ Sound(plan[p], Head(cmd[p].left)) /\ Head(cmd[p].left).do = "connect"
  BY <1>1, Here DEF SetupWords
<1> DEFINE current == Get(db, "github")
           seen == [cmd[p] EXCEPT !.base = current]
           ask == <<Do("choose")>>
           none == <<>>
<1>3. Then(p, seen, ask) \/ Then(p, seen, Disconnect) \/ Then(p, seen, none) BY DEF ConnectStep
<1> HIDE DEF current
<1>4. Shape(seen) /\ seen.left = cmd[p].left BY <1>2, WithField
<1>5. Of(MildWords, plan[p], ask)
  <2>1. plan[p].op = "setup" BY <1>2 DEF Sound
  <2>2. "choose" \in MildWords /\ "choose" \in SetupWords
    BY DEF MildWords, AllWords, LongWords, DeskWords, SyncWords, ReapWords, SetupWords, CardWords
  <2> QED BY <2>1, <2>2, WordSound
<1>6. Of(MildWords, plan[p], none) BY OfNone
<1>7. Of(MildWords, plan[p], Disconnect) BY DisconnectMild
<1> HIDE DEF seen, ask, none
<1> QED BY <1>1, <1>2, <1>3, <1>4, <1>5, <1>6, <1>7, ThenForm

LEMMA ChooseForm == ASSUME ScreenInv, NEW p \in Proc, Choose(p) PROVE StepForm(p, "choose")
<1>1. At(p, "choose") /\ plan' = plan /\ from' = from BY DEF Choose, OnlyAsks, Still
<1>2. Shape(cmd[p]) /\ "choose" \in SetupWords BY <1>1, Here DEF SetupWords
<1>3. CASE Refused(p) BY <1>1, <1>3, RefusedForm DEF LongWords
<1>4. ASSUME NEW repo, Then(p, [cmd[p] EXCEPT !.item = repo], IF repo = None THEN Disconnect ELSE Connected(repo))
      PROVE  StepForm(p, "choose")
  <2> DEFINE s == [cmd[p] EXCEPT !.item = repo]
             steps == IF repo = None THEN Disconnect ELSE Connected(repo)
  <2>1. Shape(s) /\ s.left = cmd[p].left BY <1>2, WithField
  <2>2. Of(MildWords, plan[p], steps) BY DisconnectMild, ConnectedMild
  <2>3. Then(p, s, steps) BY <1>4
  <2> HIDE DEF s, steps
  <2> QED BY <1>1, <1>2, <2>1, <2>2, <2>3, ThenForm
<1> QED BY <1>3, <1>4 DEF Choose

LEMMA PanelForm == ASSUME ScreenInv, NEW p \in Proc, PanelStep(p) PROVE StepForm(p, "panel")
<1>1. At(p, "panel") /\ plan' = plan /\ from' = from BY DEF PanelStep, OnlyAsks, Still
<1>2. Shape(cmd[p]) /\ "panel" \in SetupWords BY <1>1, Here DEF SetupWords
<1> DEFINE chosen == Get(db, "agents-panel")
           s == [cmd[p] EXCEPT !.made = chosen]
<1>3. PICK v : Then(p, s, <<Put("agents-panel", v)>>) BY DEF PanelStep
<1> HIDE DEF chosen
<1>4. Shape(s) /\ s.left = cmd[p].left BY <1>2, WithField
<1> DEFINE steps == <<Put("agents-panel", v)>>
<1>5. Of(MildWords, plan[p], steps)
  <2>1. "agents-panel" \in Key \cup {SetupDone} BY DEF Key, Panels
  <2>2. "put" \in MildWords
    BY DEF MildWords, AllWords, LongWords, DeskWords, SyncWords, ReapWords, SetupWords, CardWords
  <2> QED BY <2>1, <2>2, PutSound
<1>6. Then(p, s, steps) BY <1>3
<1> HIDE DEF s, steps
<1> QED BY <1>1, <1>2, <1>4, <1>5, <1>6, ThenForm

LEMMA SkillForm == ASSUME ScreenInv, NEW p \in Proc, SkillStep(p) PROVE StepForm(p, "skill")
<1>1. At(p, "skill") /\ plan' = plan /\ from' = from BY DEF SkillStep, Still
<1>2. Shape(cmd[p]) /\ Kept("skill", cmd[p], cmd[p]) BY <1>1, Here, WithField
<1>3. CASE Refused(p) BY <1>1, <1>3, RefusedForm DEF LongWords
<1>4. CASE Reads(p, cmd[p]) BY <1>1, <1>2, <1>4, ReadsForm DEF LongWords
<1> QED BY <1>3, <1>4 DEF SkillStep

LEMMA SnippetForm == ASSUME ScreenInv, NEW p \in Proc, SnippetStep(p) PROVE StepForm(p, "snippet")
<1>1. At(p, "snippet") /\ plan' = plan /\ from' = from BY DEF SnippetStep, OnlyAsks, Still
<1>2. Shape(cmd[p]) /\ "snippet" \in SetupWords /\ Sound(plan[p], Head(cmd[p].left)) /\ Head(cmd[p].left).do = "snippet"
  BY <1>1, Here DEF SetupWords
<1> DEFINE x == home.lines
           s == [cmd[p] EXCEPT !.old = x]
           a == Do("block")
           b == Do("remember")
           two == <<a, b>>
           none == <<>>
<1>3. Then(p, s, two) \/ Then(p, s, none) BY DEF SnippetStep
<1> HIDE DEF x
<1>4. Shape(s) /\ s.left = cmd[p].left BY <1>2, WithField
<1>5. Of(MildWords, plan[p], two)
  <2>1. plan[p].op = "setup" BY <1>2 DEF Sound
  <2>2. {"block", "remember"} \subseteq MildWords \cap SetupWords
    BY DEF MildWords, AllWords, LongWords, DeskWords, SyncWords, ReapWords, SetupWords, CardWords
  <2>3. Sound(plan[p], a) /\ a.do \in MildWords /\ Sound(plan[p], b) /\ b.do \in MildWords BY <2>1, <2>2, WordSound
  <2> HIDE DEF a, b
  <2> QED BY <2>3, OfThree
<1>6. Of(MildWords, plan[p], none) BY OfNone
<1> HIDE DEF s, two, none
<1> QED BY <1>1, <1>2, <1>3, <1>4, <1>5, <1>6, ThenForm

LEMMA BlockForm == ASSUME ScreenInv, NEW p \in Proc, WriteBlock(p) PROVE StepForm(p, "block")
<1>1. At(p, "block") /\ plan' = plan /\ from' = from BY DEF WriteBlock, Still
<1>2. Shape(cmd[p]) /\ Kept("block", cmd[p], cmd[p]) BY <1>1, Here, WithField
<1>3. CASE Refused(p) BY <1>1, <1>3, RefusedForm DEF LongWords
<1>4. CASE Reads(p, cmd[p]) BY <1>1, <1>2, <1>4, ReadsForm DEF LongWords
<1> QED BY <1>3, <1>4 DEF WriteBlock

LEMMA RememberForm == ASSUME ScreenInv, NEW p \in Proc, Remember(p) PROVE StepForm(p, "remember")
<1>1. At(p, "remember") /\ plan' = plan /\ from' = from BY DEF Remember, Still
<1>2. Shape(cmd[p]) /\ Kept("remember", cmd[p], cmd[p]) BY <1>1, Here, WithField
<1>3. Reads(p, cmd[p]) BY DEF Remember
<1> QED BY <1>1, <1>2, <1>3, ReadsForm DEF LongWords

LEMMA SetupForm == ASSUME ScreenInv, NEW p \in Proc, SetupStep(p) PROVE \E what : StepForm(p, what)
BY WelcomeForm, ConnectForm, ChooseForm, PanelForm, SkillForm, SnippetForm, BlockForm, RememberForm DEF SetupStep

LEMMA PastForm == ASSUME ScreenInv, NEW p \in Proc, PastHolder(p), from' = from PROVE StepForm(p, "past")
<1>1. At(p, "past") /\ plan' = plan BY DEF PastHolder
<1>2. Shape(cmd[p]) /\ Kept("past", cmd[p], cmd[p]) BY <1>1, Here, WithField
<1>3. Reads(p, cmd[p]) BY DEF PastHolder, Reads
<1> QED BY <1>1, <1>2, <1>3, ReadsForm DEF LongWords

LEMMA SameForm ==
  ASSUME ScreenInv, NEW p \in Proc, SameDate(p), from' = from
  PROVE  StepForm(p, "same")
<1>1. At(p, "same") /\ plan' = plan BY DEF SameDate
<1>2. Shape(cmd[p]) /\ Kept("same", cmd[p], cmd[p]) BY <1>1, Here, WithField
<1>3. CASE Refused(p) BY <1>1, <1>3, RefusedForm DEF LongWords
<1>4. CASE Reads(p, cmd[p]) BY <1>1, <1>2, <1>4, ReadsForm DEF LongWords
<1> QED BY <1>3, <1>4 DEF SameDate

-----------------------------------------------------------------------------
(* One step keeps what holds                                               *)

LEMMA NoneLong ==
  ASSUME NEW c, NEW s, InLine(c, s), c.op \notin Bulk, s # <<>>
  PROVE  Head(s).do \notin LongWords
<1> DEFINE W == AllWords \ LongWords
<1>1. Of(W, c, s) BY DEF InLine
<1> HIDE DEF W
<1>2. Head(s).do \in W BY <1>1, OfTail
<1> QED BY <1>2 DEF W

\* Where a step leaves a process that goes on with what it found to do.
LEMMA TurnedLine ==
  ASSUME ScreenInv, NEW p \in Proc, NEW what, At(p, what), NEW s, s.left # <<>>,
         \/ what = "plan" /\ s.item = cmd[p].item /\ Of({"gmove", "gnote"}, plan[p], s.left)
         \/ what = "scan" /\ plan[p].dry /\ s.left = <<Do("journal")>>
         \/ /\ what = "scan" /\ ~plan[p].dry /\ s.base = cmd[p].base
            /\ \E S : /\ s.left \in Seq(S)
                      /\ \A x \in S : /\ x.do \in {"free", "fnote"}
                                      /\ \E pair \in s.old : pair[1] = x.arg /\ Dead(p, pair)
            /\ \A n \in 1..Len(s.left) : s.left[n].do = "free" => n + 1 \in 1..Len(s.left)
         \/ /\ what = "free" /\ s.old = cmd[p].old /\ s.base = cmd[p].base /\ Tail(cmd[p].left) # <<>>
            /\ s.left = Tail(Tail(cmd[p].left))
         \/ /\ what \in SetupWords
            /\ \E steps : Of(MildWords, plan[p], steps) /\ s.left \in {steps, steps \o Tail(cmd[p].left)}
  PROVE  InLine(plan[p], s.left) /\ plan[p].op \notin Bulk /\ what # "open"
<1> DEFINE c == plan[p]
           t == s.left
<1>1. InLine(c, cmd[p].left) /\ cmd[p].left # <<>> /\ Head(cmd[p].left).do = what /\ Sound(c, Head(cmd[p].left))
  BY Here
<1>2. CASE what = "plan" /\ Of({"gmove", "gnote"}, c, t)
  <2>1. c.op \in {"sync", "fetched"} BY <1>1, <1>2 DEF Sound
  <2>2. {"gmove", "gnote"} \subseteq AllWords \ LongWords BY DEF AllWords, LongWords, SyncWords
  <2>3. Of(AllWords \ LongWords, c, t) BY <1>2, <2>2, OfMore
  <2> HIDE DEF c, t
  <2>4. InLine(c, t) BY <2>1, <2>3, LooseInLine
  <2> QED BY <1>2, <2>1, <2>4 DEF Bulk, c, t
<1>3. CASE what = "scan"
  <2>1. c.op = "reap" BY <1>1, <1>3 DEF Sound
  <2>2. CASE t = <<Do("journal")>>
    <3>1. "journal" \in MildWords /\ "journal" \notin SetupWords
      BY DEF MildWords, AllWords, LongWords, ReapWords, SetupWords
    <3>2. Of(MildWords, c, t) BY <2>2, <3>1, WordSound
    <3> HIDE DEF c, t
    <3>3. InLine(c, t) BY <3>2, MildInLine
    <3> QED BY <1>3, <2>1, <3>3 DEF Bulk, c, t
  <2>3. CASE /\ \E S : t \in Seq(S) /\ \A x \in S : x.do \in {"free", "fnote"}
             /\ \A n \in 1..Len(t) : t[n].do = "free" => n + 1 \in 1..Len(t)
    <3>1. PICK S : t \in Seq(S) /\ \A x \in S : x.do \in {"free", "fnote"} BY <2>3
    <3>2. \A x \in S : x.do \in AllWords \ LongWords /\ Sound(c, x)
      BY <2>1, <3>1 DEF Sound, AllWords, LongWords, ReapWords, SetupWords
    <3>3. Of(AllWords \ LongWords, c, t) BY <3>1, <3>2 DEF Of
    <3>4. Of(AllWords, c, t) BY <3>3, OfMore
    <3>5. \A n \in 1..Len(t) : t[n].do \notin LongWords
      <4>1. \A x \in S : x.do \notin LongWords BY <3>2
      <4> HIDE DEF t
      <4> QED BY <3>1, <4>1, ElementOfSeq
    <3>6. InLine(c, t) BY <2>3, <3>3, <3>4, <3>5 DEF InLine, LongWords
    <3> QED BY <1>3, <2>1, <3>6 DEF Bulk
  <2>4. what \notin SetupWords /\ what # "plan" /\ what # "free" BY <1>3 DEF SetupWords
  <2> QED BY <2>2, <2>3, <2>4
<1>4. CASE what = "free" /\ Tail(cmd[p].left) # <<>> /\ t = Tail(Tail(cmd[p].left))
  <2>1. c.op = "reap" BY <1>1, <1>4 DEF Sound
  <2> DEFINE u == Tail(cmd[p].left)
  <2>2. InLine(c, u) BY <1>1, InLineTail
  <2>3. u # <<>> /\ t = Tail(u) BY <1>4
  <2> HIDE DEF c, t, u
  <2>4. InLine(c, t) BY <2>2, <2>3, InLineTail
  <2> QED BY <1>4, <2>1, <2>4 DEF Bulk, c, t
<1>5. CASE what \in SetupWords /\ \E steps : Of(MildWords, c, steps) /\ t \in {steps, steps \o Tail(cmd[p].left)}
  <2>1. c.op = "setup" BY <1>1, <1>5 DEF Sound
  <2>2. c.op \notin Bulk BY <2>1 DEF Bulk
  <2>3. Of(AllWords \ LongWords, c, Tail(cmd[p].left))
    <3>1. Of(AllWords \ LongWords, c, cmd[p].left) BY <1>1, <2>2 DEF InLine
    <3> QED BY <1>1, <3>1, OfTail
  <2>4. PICK steps : Of(MildWords, c, steps) /\ t \in {steps, steps \o Tail(cmd[p].left)} BY <1>5
  <2>5. Of(AllWords \ LongWords, c, steps) BY <2>4, OfMore, MildAre
  <2>6. Of(AllWords \ LongWords, c, steps \o Tail(cmd[p].left)) BY <2>3, <2>5, OfAnd
  <2>7. Of(AllWords \ LongWords, c, t) BY <2>4, <2>5, <2>6
  <2>8. what # "open" BY <1>5 DEF SetupWords
  <2> HIDE DEF c, t
  <2>9. InLine(c, t) BY <2>1, <2>7, LooseInLine
  <2> QED BY <2>2, <2>8, <2>9 DEF c, t
<1> QED BY <1>2, <1>3, <1>4, <1>5

LEMMA StoppedIs ==
  ASSUME ScreenInv, NEW p \in Proc, Stopped(p)
  PROVE  /\ Shape(cmd'[p]) /\ cmd'[p].left = <<>> /\ cmd'[p].end \in {"ok", "refused", "killed"}
         /\ cmd' = [q \in Proc |-> cmd'[q]] /\ \A q \in Proc \ {p} : cmd'[q] = cmd[q]
         /\ cmd'[p].base = None
<1>1. PICK how \in {"ok", "refused", "killed"} : cmd' = [cmd EXCEPT ![p] = Ended(how)] BY DEF Stopped
<1>2. cmd = [q \in Proc |-> cmd[q]] BY DEF ScreenInv
<1>3. Shape(Ended(how)) /\ Ended(how).left = <<>> /\ Ended(how).end = how BY EndedIs
<1>4. Ended(how).base = None BY DEF Ended, Fresh
<1> QED BY <1>1, <1>2, <1>3, <1>4

LEMMA PutIs ==
  ASSUME ScreenInv, NEW p \in Proc, NEW s, cmd' = [cmd EXCEPT ![p] = s]
  PROVE  cmd'[p] = s /\ cmd' = [q \in Proc |-> cmd'[q]] /\ \A q \in Proc \ {p} : cmd'[q] = cmd[q]
BY DEF ScreenInv

\* What a step of p leaves of the transaction that is open.
LEMMA WriterAfter ==
  ASSUME ScreenInv, NEW p \in Proc, NEW what, StepForm(p, what)
  PROVE  /\ FileOK' /\ \A q \in Proc \ {p} : writer' = q <=> writer = q
         /\ writer' = p => what \in {"begin", "row"} /\ Passed(p, what)
         /\ what \in {"begin", "row"} => Stopped(p) \/ writer' = p
<1>1. At(p, what) /\ p # None /\ None \notin Proc BY ProcAssumption DEF StepForm
<1>2. what \in {"row", "commit"} <=> writer = p BY <1>1, Here
<1>3. WellFormed(db) /\ IF writer = None THEN work = None ELSE writer \in Proc /\ WellFormed(work) /\ Grows(db, work)
  BY DEF ScreenInv, FileOK
<1>4. CASE what \notin LongWords /\ Short
  <2>1. writer' = writer /\ work' = work /\ writer # p BY <1>2, <1>4 DEF Short, LongWords
  <2>2. WellFormed(db') /\ (db' = db \/ writer = None) BY <1>3, <1>4 DEF Short
  <2> QED BY <1>3, <1>4, <2>1, <2>2 DEF FileOK, LongWords
<1>5. CASE Stopped(p) /\ Dropped(p)
  <2>1. writer' # p BY <1>1, <1>5 DEF Dropped
  <2>2. db' = db /\ ((writer' = None /\ work' = None /\ writer = p) \/ (writer' = writer /\ work' = work))
    <3>1. CASE writer = p BY <1>5, <3>1 DEF Dropped
    <3>2. CASE writer # p BY <1>5, <3>2 DEF Dropped
    <3> QED BY <3>1, <3>2
  <2>3. FileOK' BY <1>3, <2>2 DEF FileOK
  <2> QED BY <1>1, <1>5, <2>1, <2>2, <2>3
<1>6. CASE what = "begin" /\ Begins(p) /\ Passed(p, what)
  <2>1. Grows(db, db) BY <1>3, Unwritten
  <2>2. writer' = p /\ work' = db /\ db' = db /\ writer = None BY <1>6 DEF Begins
  <2>3. FileOK' BY <1>1, <1>3, <2>1, <2>2 DEF FileOK
  <2> QED BY <1>1, <1>6, <2>2, <2>3
<1>7. CASE what = "row" /\ Fills /\ Passed(p, what)
  <2>1. writer = p /\ writer' = p /\ db' = db /\ WellFormed(work') /\ Grows(db, work') BY <1>2, <1>7 DEF Fills
  <2>2. FileOK' BY <1>1, <1>3, <2>1 DEF FileOK
  <2> QED BY <1>7, <2>1, <2>2
<1>8. CASE what = "commit" /\ Closes
  <2>1. writer = p /\ writer' = None /\ work' = None /\ WellFormed(db') BY <1>2, <1>3, <1>8 DEF Closes
  <2>2. FileOK' BY <2>1 DEF FileOK
  <2> QED BY <1>1, <1>8, <2>1, <2>2
<1> QED BY <1>4, <1>5, <1>6, <1>7, <1>8 DEF StepForm

LEMMA StepProc ==
  ASSUME ScreenInv, NEW p \in Proc, NEW what, StepForm(p, what)
  PROVE  /\ cmd' = [q \in Proc |-> cmd'[q]] /\ \A q \in Proc \ {p} : cmd'[q] = cmd[q]
         /\ Shape(cmd'[p]) /\ InLine(plan[p], cmd'[p].left)
         /\ cmd'[p].left # <<>> /\ Head(cmd'[p].left).do \in {"row", "commit"} <=> writer' = p
         /\ cmd'[p].left # <<>> => Head(cmd'[p].left).do = "open" \/ Someone(plan[p]) \/ plan[p].op = "reap"
<1>1. At(p, what) BY DEF StepForm
<1>2. /\ InLine(plan[p], cmd[p].left) /\ cmd[p].left # <<>> /\ Head(cmd[p].left).do = what
      /\ what # "open" => Someone(plan[p]) \/ plan[p].op = "reap"
      /\ what \in {"row", "commit"} <=> writer = p
  BY <1>1, Here
<1>3. /\ writer' = p => what \in {"begin", "row"} /\ Passed(p, what)
      /\ what \in {"begin", "row"} => Stopped(p) \/ writer' = p
  BY WriterAfter
<1>4. CASE Stopped(p)
  <2>1. /\ Shape(cmd'[p]) /\ cmd'[p].left = <<>>
        /\ cmd' = [q \in Proc |-> cmd'[q]] /\ \A q \in Proc \ {p} : cmd'[q] = cmd[q]
    BY <1>4, StoppedIs
  <2> DEFINE none == <<>>
  <2>2. Of(MildWords, plan[p], none) BY OfNone
  <2> HIDE DEF none
  <2>3. InLine(plan[p], none) BY <2>2, MildInLine
  <2>4. writer' # p
    <3> SUFFICES ASSUME writer' = p PROVE FALSE OBVIOUS
    <3>1. PICK s : cmd' = [cmd EXCEPT ![p] = s] /\ s.left # <<>> BY <1>3 DEF Passed
    <3>2. cmd'[p] = s BY <3>1, PutIs
    <3> QED BY <2>1, <3>1, <3>2
  <2> QED BY <2>1, <2>3, <2>4 DEF none
<1>5. CASE Passed(p, what)
  <2>1. PICK s : cmd' = [cmd EXCEPT ![p] = s] /\ Shape(s) /\ s.left = Tail(cmd[p].left) /\ s.left # <<>>
    BY <1>5 DEF Passed
  <2>2. cmd'[p] = s /\ cmd' = [q \in Proc |-> cmd'[q]] /\ \A q \in Proc \ {p} : cmd'[q] = cmd[q] BY <2>1, PutIs
  <2>3. /\ InLine(plan[p], s.left)
        /\ what \in {"begin", "row"} => Head(s.left).do \in {"row", "commit"}
        /\ Head(s.left).do \in {"row", "commit"} => what \in {"begin", "row"}
    BY <1>2, <2>1, InLineTail
  <2>4. ~Stopped(p)
    <3> SUFFICES ASSUME Stopped(p) PROVE FALSE OBVIOUS
    <3>1. cmd'[p].left = <<>> BY StoppedIs
    <3> QED BY <2>1, <2>2, <3>1
  <2>5. what = "open" => Someone(plan[p]) BY <1>5, <2>4 DEF StepForm, Turned, SetupWords
  <2> QED BY <1>2, <1>3, <2>1, <2>2, <2>3, <2>4, <2>5
<1>6. CASE Turned(p, what)
  <2>1. PICK s : /\ cmd' = [cmd EXCEPT ![p] = s] /\ Shape(s) /\ s.left # <<>>
                 /\ InLine(plan[p], s.left) /\ plan[p].op \notin Bulk /\ what # "open"
    BY <1>1, <1>6, TurnedLine DEF Turned
  <2>2. cmd'[p] = s /\ cmd' = [q \in Proc |-> cmd'[q]] /\ \A q \in Proc \ {p} : cmd'[q] = cmd[q] BY <2>1, PutIs
  <2>3. Head(s.left).do \notin {"row", "commit"} BY <2>1, NoneLong DEF LongWords
  <2>4. writer' # p
    <3>1. what \notin {"begin", "row"} BY <1>6 DEF Turned, SetupWords
    <3> QED BY <1>3, <3>1
  <2> QED BY <1>2, <2>1, <2>2, <2>3, <2>4
<1> QED BY <1>4, <1>5, <1>6 DEF StepForm

LEMMA StepKeeps ==
  ASSUME ScreenInv, NEW p \in Proc, NEW what, StepForm(p, what), app' = app \/ \E x : app' = [app EXCEPT !.past = x]
  PROVE  ScreenInv'
<1>1. plan' = plan /\ from' = from BY DEF StepForm
<1>2. FileOK' /\ \A q \in Proc \ {p} : writer' = q <=> writer = q BY WriterAfter
<1>3. /\ cmd' = [q \in Proc |-> cmd'[q]] /\ \A q \in Proc \ {p} : cmd'[q] = cmd[q]
      /\ Shape(cmd'[p]) /\ InLine(plan[p], cmd'[p].left)
      /\ cmd'[p].left # <<>> /\ Head(cmd'[p].left).do \in {"row", "commit"} <=> writer' = p
      /\ cmd'[p].left # <<>> => Head(cmd'[p].left).do = "open" \/ Someone(plan[p]) \/ plan[p].op = "reap"
  BY StepProc
<1>4. FromOK' BY <1>1 DEF ScreenInv, FromOK
<1>5. ProcOK(p)' BY <1>1, <1>3 DEF ScreenInv, ProcOK, Holds
<1>6. ASSUME NEW q \in Proc \ {p} PROVE ProcOK(q)'
  <2>1. ProcOK(q) BY DEF ScreenInv
  <2>2. cmd'[q] = cmd[q] /\ plan'[q] = plan[q] /\ (writer' = q <=> writer = q) BY <1>1, <1>2, <1>3
  <2> QED BY <2>1, <2>2 DEF ProcOK, Holds
<1>7. AppOK'
  <2>1. CASE app' = app BY <1>1, <2>1 DEF ScreenInv, AppOK
  <2>2. CASE \E x : app' = [app EXCEPT !.past = x]
    <3>1. PICK x : app' = [app EXCEPT !.past = x] BY <2>2
    <3>2. DOMAIN app' = DOMAIN app /\ app'.keys = app.keys /\ app'.mode = app.mode /\ app'.typed = app.typed
          /\ app'.busy = app.busy
      BY <3>1 DEF ScreenInv, AppOK, AppFields
    <3> QED BY <1>1, <3>2 DEF ScreenInv, AppOK
  <2> QED BY <2>1, <2>2
<1>8. plan' = [q \in Proc |-> plan'[q]] BY <1>1 DEF ScreenInv
<1> QED BY <1>2, <1>3, <1>4, <1>5, <1>6, <1>7, <1>8 DEF ScreenInv

-----------------------------------------------------------------------------
(* What a key does                                                         *)

\* The screen b is a but for the fields F, of those that matter here.
But(F, a, b) ==
  /\ DOMAIN b = AppFields /\ b.keys = a.keys
  /\ "on" \notin F => b.on = a.on
  /\ "mode" \notin F => b.mode = a.mode
  /\ "typed" \notin F => b.typed = a.typed
  /\ "base" \notin F => b.base = a.base
  /\ "repo" \notin F => b.repo = a.repo
  /\ "busy" \notin F => b.busy = a.busy
  /\ "target" \notin F => b.target = a.target
  /\ "slot" \notin F => b.slot = a.slot

\* The repository on the screen is the board's own, or what it was.
RepoFrom(a, b) == (b.on = a.on /\ b.repo = a.repo) \/ (b.on = "here" => b.repo = Get(db, "github"))
BaseFrom(a, b) == b.mode = "form" => b.base # None \/ (a.mode = "form" /\ b.base = a.base)

\* A key changes what the screen waits for, or begins a command that was typed.
Waited ==
  /\ plan' = plan /\ cmd' = cmd /\ AppOK' /\ But({"on", "mode", "typed", "base", "repo"}, app, app')
  /\ RepoFrom(app, app') /\ BaseFrom(app, app')
Ran ==
  \E c, steps, then :
    /\ Typed(c) /\ Of(MildWords, c, steps) /\ Runs(c, steps, then)
    /\ then = "form" => app.mode = "form" /\ c.op = "edit" /\ Of({"same", "write", "due"}, c, steps)

LEMMA WaitedForm ==
  ASSUME ScreenInv, NEW a, Waits(a), But({"on", "mode", "typed", "base", "repo"}, app, a),
         a.mode \in {"confirm", "typing"} => Typed(a.typed) /\ a.typed.op \in CardOps,
         RepoFrom(app, a), BaseFrom(app, a)
  PROVE  Waited
<1>1. plan' = plan /\ cmd' = cmd /\ app' = [a EXCEPT !.left = @ - 1] BY DEF Waits
<1>2. But({}, a, app') BY <1>1 DEF But, AppFields
<1>3. But({"on", "mode", "typed", "base", "repo"}, app, app') /\ RepoFrom(app, app') /\ BaseFrom(app, app')
  BY <1>2 DEF But, RepoFrom, BaseFrom
<1>4. AppOK
  BY DEF ScreenInv
<1>5. app'.keys = app.keys /\ app'.busy = app.busy /\ app'.mode = a.mode /\ app'.typed = a.typed /\ DOMAIN app' = AppFields
  BY <1>2 DEF But
<1>6. AppOK' BY <1>1, <1>4, <1>5 DEF AppOK
<1> QED BY <1>1, <1>3, <1>6 DEF Waited

LEMMA ModeForm ==
  ASSUME ScreenInv, NEW m, m \notin {"confirm", "typing", "form"}, Waits([app EXCEPT !.mode = m])
  PROVE  Waited
<1> DEFINE a == [app EXCEPT !.mode = m]
<1>1. DOMAIN app = AppFields BY DEF ScreenInv, AppOK
<1>2. But({"mode"}, app, a) /\ a.mode = m BY <1>1 DEF But, AppFields
<1>3. Waits(a) OBVIOUS
<1> HIDE DEF a
<1>4. But({"on", "mode", "typed", "base", "repo"}, app, a) /\ RepoFrom(app, a) /\ BaseFrom(app, a)
  BY <1>2 DEF But, RepoFrom, BaseFrom
<1> QED BY <1>2, <1>3, <1>4, WaitedForm

LEMMA PromptForm ==
  ASSUME ScreenInv, NEW c, Typed(c), c.op \in CardOps, NEW why, Prompt(c, why)
  PROVE  Waited
<1> DEFINE a == [app EXCEPT !.mode = "confirm", !.typed = c, !.why = why, !.card = c.card]
<1>1. DOMAIN app = AppFields BY DEF ScreenInv, AppOK
<1>2. But({"mode", "typed"}, app, a) /\ a.mode = "confirm" /\ a.typed = c BY <1>1 DEF But, AppFields
<1>3. Waits(a) BY DEF Prompt
<1> HIDE DEF a
<1>4. But({"on", "mode", "typed", "base", "repo"}, app, a) /\ RepoFrom(app, a) /\ BaseFrom(app, a)
  BY <1>2 DEF But, RepoFrom, BaseFrom
<1> QED BY <1>2, <1>3, <1>4, WaitedForm

LEMMA TypingForm ==
  ASSUME ScreenInv, NEW c, Typed(c), c.op \in CardOps,
         Waits([app EXCEPT !.mode = "typing", !.typed = c, !.card = c.card])
  PROVE  Waited
<1> DEFINE a == [app EXCEPT !.mode = "typing", !.typed = c, !.card = c.card]
<1>1. DOMAIN app = AppFields BY DEF ScreenInv, AppOK
<1>2. But({"mode", "typed"}, app, a) /\ a.mode = "typing" /\ a.typed = c BY <1>1 DEF But, AppFields
<1>3. Waits(a) OBVIOUS
<1> HIDE DEF a
<1>4. But({"on", "mode", "typed", "base", "repo"}, app, a) /\ RepoFrom(app, a) /\ BaseFrom(app, a)
  BY <1>2 DEF But, RepoFrom, BaseFrom
<1> QED BY <1>2, <1>3, <1>4, WaitedForm

LEMMA RanForm ==
  ASSUME NEW c, NEW steps, NEW then, Typed(c), Of(MildWords, c, steps), Runs(c, steps, then), then # "form"
  PROVE  Ran
BY DEF Ran

LEMMA MildWord ==
  ASSUME NEW c, NEW w \in MildWords \ (SetupWords \cup {"put"}), w = "write" => c.op # "reap"
  PROVE  Of(MildWords, c, <<Do(w)>>)
<1>1. w \notin {"row", "put", "plan", "scan", "free"} BY DEF MildWords, LongWords
<1> QED BY <1>1, WordSound

LEMMA KeyWords ==
  {"item", "mode", "write", "log", "past", "same", "due", "ask", "force", "save"} \subseteq MildWords \ (SetupWords \cup {"put"})
BY DEF MildWords, AllWords, LongWords, DeskWords, SyncWords, ReapWords, SetupWords, CardWords

LEMMA HeldMild == ASSUME NEW c, c.op # "reap" PROVE Of(MildWords, c, HeldWrite(c))
<1> DEFINE x == Do("item")   y == Do("write")   z == Do("log")
<1>1. \A w \in {"item", "write", "log"} : Do(w).do = w /\ Sound(c, Do(w)) /\ w \in MildWords
  BY KeyWords DEF Do, Sound, SetupWords
<1>2. /\ Sound(c, x) /\ x.do \in MildWords /\ Sound(c, y) /\ y.do \in MildWords
      /\ Sound(c, z) /\ z.do \in MildWords
  BY <1>1
<1>3. HeldWrite(c) \in {<<x, y, z>>, <<x, y>>, <<y>>} BY DEF HeldWrite
<1> HIDE DEF x, y, z
<1> QED BY <1>2, <1>3, OfThree, OfOne

LEMMA GuardForm ==
  ASSUME ScreenInv, NEW c, Typed(c), c.op \in CardOps, GuardWrite(c)
  PROVE  Waited \/ Ran
<1>1. CASE Prompt(c, "write") BY <1>1, PromptForm
<1>2. CASE Runs(c, HeldWrite(c), IF c.op = "check" THEN "always" ELSE "ok")
  <2> DEFINE steps == HeldWrite(c)
             then == IF c.op = "check" THEN "always" ELSE "ok"
  <2>1. Of(MildWords, c, steps) BY HeldMild DEF CardOps
  <2>2. then # "form" /\ Runs(c, steps, then) BY <1>2
  <2> HIDE DEF steps, then
  <2>3. Ran BY <2>1, <2>2, RanForm
  <2> QED BY <2>3
<1> QED BY <1>1, <1>2 DEF GuardWrite

LEMMA WriteRuns ==
  ASSUME NEW c, Typed(c), c.op # "reap", NEW then, then # "form", Runs(c, <<Do("write")>>, then)
  PROVE  Ran
<1> DEFINE steps == <<Do("write")>>
<1>1. Of(MildWords, c, steps) BY KeyWords, MildWord
<1>2. Runs(c, steps, then) OBVIOUS
<1> HIDE DEF steps
<1> QED BY <1>1, <1>2, RanForm

LEMMA ForceTyped ==
  ASSUME NEW c, Typed(c), NEW v PROVE Typed([c EXCEPT !.force = v]) /\ [c EXCEPT !.force = v].op = c.op
<1> DEFINE e == [c EXCEPT !.force = v]
<1>1. DOMAIN c = {"op", "by", "agent", "force", "dry", "bad", "card", "n", "ref", "title", "desc", "due", "block",
                  "text", "checks", "how", "col", "doc", "key", "value", "off", "env"}
  BY DEF Typed, Blank
<1>2. /\ DOMAIN e = DOMAIN c /\ e.op = c.op /\ e.by = c.by /\ e.env = c.env /\ e.title = c.title /\ e.desc = c.desc
      /\ e.due = c.due /\ e.block = c.block /\ e.ref = c.ref /\ e.col = c.col /\ e.key = c.key /\ e.doc = c.doc
  BY <1>1
<1> HIDE DEF e
<1>3. Meant(c) => Meant(e) BY <1>2 DEF Meant
<1>4. Typed(e) /\ e.op = c.op BY <1>2, <1>3 DEF Typed
<1> QED BY <1>4 DEF e

LEMMA OwnCloseForm ==
  ASSUME ScreenInv, NEW c, Typed(c), c.op \in CardOps, AskOwnClose(c)
  PROVE  Waited
<1>1. CASE Waits([app EXCEPT !.mode = "normal"]) BY <1>1, ModeForm
<1>2. CASE Prompt([c EXCEPT !.force = TRUE], "own")
  <2> DEFINE e == [c EXCEPT !.force = TRUE]
  <2>1. Typed(e) /\ e.op \in CardOps BY ForceTyped
  <2>2. Prompt(e, "own") BY <1>2
  <2> HIDE DEF e
  <2> QED BY <2>1, <2>2, PromptForm
<1> QED BY <1>1, <1>2 DEF AskOwnClose

LEMMA MoveForm ==
  ASSUME ScreenInv, NEW c, Typed(c), MoveSelected(c)
  PROVE  Waited \/ Ran
<1>1. c.op = "move" /\ c.op \in CardOps /\ c.op # "reap" BY DEF MoveSelected, CardOps
<1>2. CASE Prompt([c EXCEPT !.force = TRUE], "holder")
  <2> DEFINE e == [c EXCEPT !.force = TRUE]
  <2>1. Typed(e) /\ e.op \in CardOps BY <1>1, ForceTyped
  <2>2. Prompt(e, "holder") BY <1>2
  <2> HIDE DEF e
  <2> QED BY <2>1, <2>2, PromptForm
<1>3. CASE Prompt(c, "open") BY <1>1, <1>3, PromptForm
<1>4. CASE AskOwnClose(c) BY <1>1, <1>4, OwnCloseForm
<1>5. CASE Waits([app EXCEPT !.mode = "typing", !.typed = c, !.card = c.card]) BY <1>1, <1>5, TypingForm
<1>6. CASE Runs(c, <<Do("write")>>, "ok") BY <1>1, <1>6, WriteRuns
<1> QED BY <1>2, <1>3, <1>4, <1>5, <1>6 DEF MoveSelected

LEMMA RemoveForm ==
  ASSUME ScreenInv, NEW c, Typed(c), AskRemove(c)
  PROVE  Waited
<1> DEFINE v == HeldByOther(app.cards[c.card], Me)
           e == [c EXCEPT !.force = v]
<1>1. Prompt(e, "remove") /\ c.op = "rm" BY DEF AskRemove
<1> HIDE DEF v
<1>2. Typed(e) /\ e.op \in CardOps BY <1>1, ForceTyped DEF CardOps
<1> HIDE DEF e
<1> QED BY <1>1, <1>2, PromptForm

LEMMA ConfirmForm == ASSUME ScreenInv, Confirm PROVE Waited \/ Ran
<1> DEFINE c == app.typed
<1>1. app.mode = "confirm" /\ Typed(c) /\ c.op \in CardOps BY DEF Confirm, In, ScreenInv, AppOK
<1>2. c.op # "reap" BY <1>1 DEF CardOps
<1>3. CASE CommitForcedWrite(c)
  <2> DEFINE a == <<Do("past")>>
             b == HeldWrite(c)
             then == IF c.op = "check" THEN "always" ELSE "ok"
  <2>1. Of(MildWords, c, a) BY KeyWords, MildWord
  <2>2. Of(MildWords, c, b) BY <1>2, HeldMild
  <2>3. then # "form" /\ Runs(c, a \o b, then) BY <1>3 DEF CommitForcedWrite
  <2> HIDE DEF a, b, then, c
  <2>4. Of(MildWords, c, a \o b) BY <2>1, <2>2, OfAnd
  <2> DEFINE s == a \o b
  <2> HIDE DEF s
  <2>5. Of(MildWords, c, s) /\ Runs(c, s, then) BY <2>3, <2>4 DEF s
  <2>6. Ran BY <1>1, <2>3, <2>5, RanForm
  <2> QED BY <2>6
<1>4. CASE AskOwnClose(c) BY <1>1, <1>4, OwnCloseForm
<1>5. CASE Waits([app EXCEPT !.mode = "normal"]) BY <1>5, ModeForm
<1>6. CASE Runs(c, <<Do("write")>>, "ok") BY <1>1, <1>2, <1>6, WriteRuns
<1>7. CASE Runs(c, RmSteps, "ok")
  <2> DEFINE x == Do("mode")   y == Do("write")   steps == <<x, y>>
  <2>1. Sound(c, x) /\ x.do \in MildWords /\ Sound(c, y) /\ y.do \in MildWords BY <1>2, KeyWords DEF Do, Sound, SetupWords
  <2>2. Runs(c, steps, "ok") BY <1>7 DEF RmSteps
  <2> HIDE DEF x, y, c
  <2>3. Of(MildWords, c, steps) BY <2>1, OfThree
  <2> HIDE DEF steps
  <2> QED BY <1>1, <2>2, <2>3, RanForm
<1> QED BY <1>3, <1>4, <1>5, <1>6, <1>7 DEF Confirm

LEMMA EnterForm == ASSUME ScreenInv, Enter PROVE Waited \/ Ran
<1> DEFINE c == app.typed
<1>1. Typed(c) /\ c.op \in CardOps BY DEF Enter, In, ScreenInv, AppOK
<1>2. c.op # "reap" BY <1>1 DEF CardOps
<1>3. CASE EnterAdd(c)
  <2> DEFINE a == <<Do("write")>>
             b == DueStep(c)
             d == <<Do("due")>>
             none == <<>>
  <2>1. Of(MildWords, c, a) /\ Of(MildWords, c, d) BY <1>2, KeyWords, MildWord
  <2>2. Of(MildWords, c, none) BY OfNone
  <2>3. b \in {none, d} BY DEF DueStep
  <2>4. Runs(c, a \o b, "ok") BY <1>3 DEF EnterAdd, AddSteps
  <2> HIDE DEF a, b, d, none, c
  <2> DEFINE s == a \o b
  <2>5. Of(MildWords, c, b) BY <2>1, <2>2, <2>3
  <2>6. Of(MildWords, c, s) BY <2>1, <2>5, OfAnd
  <2>7. Runs(c, s, "ok") BY <2>4
  <2> HIDE DEF s
  <2> QED BY <1>1, <2>6, <2>7, RanForm
<1>4. CASE EnterNote(c)
  <2>1. Runs(c, <<Do("write")>>, "always") BY <1>4 DEF EnterNote
  <2> QED BY <1>1, <1>2, <2>1, WriteRuns
<1>5. CASE EnterSendBack(c)
  <2>1. Runs(c, <<Do("write")>>, "ok") BY <1>5 DEF EnterSendBack
  <2> QED BY <1>1, <1>2, <2>1, WriteRuns
<1>6. CASE EnterAddCheck(c) BY <1>1, <1>6, GuardForm DEF EnterAddCheck
<1> QED BY <1>3, <1>4, <1>5, <1>6 DEF Enter

LEMMA OpensForm == ASSUME ScreenInv, NEW c, Typed(c), Opens(c) PROVE Waited
<1>1. c.op \in CardOps BY DEF Opens, CardOps
<1>2. Waits([app EXCEPT !.mode = "typing", !.typed = c, !.card = c.card]) BY DEF Opens
<1> QED BY <1>1, <1>2, TypingForm, Zenon

LEMMA PopupForm == ASSUME ScreenInv, NEW c, OpenPopup(c) PROVE Waited
<1> DEFINE a == [app EXCEPT !.mode = "popup", !.card = c.card, !.items = db.items[c.card]]
<1>1. DOMAIN app = AppFields BY DEF ScreenInv, AppOK
<1>2. But({"mode"}, app, a) /\ a.mode = "popup" BY <1>1 DEF But, AppFields
<1>3. Waits(a) BY DEF OpenPopup
<1> HIDE DEF a
<1>4. But({"on", "mode", "typed", "base", "repo"}, app, a) /\ RepoFrom(app, a) /\ BaseFrom(app, a)
  BY <1>2 DEF But, RepoFrom, BaseFrom
<1> QED BY <1>2, <1>3, <1>4, WaitedForm

\* A form is opened over a card that is shown.
LEMMA EditForm == ASSUME ScreenInv, NEW c \in Asked, OpenEdit(c) PROVE Waited
<1> DEFINE r == app.cards[c.card]
           a == [app EXCEPT !.mode = "form", !.card = c.card, !.base = r]
<1>1. DOMAIN app = AppFields BY DEF ScreenInv, AppOK
<1>2. Waits(a) /\ r # None BY DEF OpenEdit, Asked
<1> HIDE DEF r
<1>3. But({"mode", "base"}, app, a) /\ a.mode = "form" /\ a.base = r BY <1>1 DEF But, AppFields
<1> HIDE DEF a
<1>4. But({"on", "mode", "typed", "base", "repo"}, app, a) /\ RepoFrom(app, a) /\ BaseFrom(app, a)
  BY <1>2, <1>3 DEF But, RepoFrom, BaseFrom
<1> QED BY <1>2, <1>3, <1>4, WaitedForm

\* The date is compared, the text is written, then the date.
LEMMA SaveFormRuns == ASSUME ScreenInv, NEW c, Typed(c), SaveForm(c) PROVE Ran
<1> DEFINE W == {"same", "write", "due"}
           none == <<>>
           x == IF Redated(c) THEN <<Do("same")>> ELSE <<>>
           y == IF Writes(app.base, "title", c.title) \/ Writes(app.base, "desc", c.desc) \/ ~Redated(c)
                THEN <<Do("write")>> ELSE <<>>
           z == IF Redated(c) THEN <<Do("due")>> ELSE <<>>
           V == MildWords \cap W
<1>1. c.op = "edit" /\ app.mode = "form" /\ Runs(c, SaveSteps(c), "form") BY DEF SaveForm, In
<1>2. \A w \in W : w \in V /\ w \notin {"row", "put", "plan", "scan", "free"} \cup SetupWords
  BY KeyWords DEF SetupWords
<1>3. \A w \in W : Of(V, c, <<Do(w)>>) BY <1>1, <1>2, WordSound
<1>4. Of(V, c, none) BY OfNone
<1>5. x \in {<<Do("same")>>, none} /\ y \in {<<Do("write")>>, none} /\ z \in {<<Do("due")>>, none} OBVIOUS
<1>6. Of(V, c, x) /\ Of(V, c, y) /\ Of(V, c, z)
  <2> HIDE DEF x, y, z, V, none
  <2> QED BY <1>3, <1>4, <1>5
<1>7. SaveSteps(c) = (x \o y) \o z
  BY DEF SaveSteps
<1>8. V \subseteq MildWords /\ V \subseteq W OBVIOUS
<1> HIDE DEF x, y, z, V, W, none
<1>9. Of(V, c, x \o y) BY <1>6, OfAnd
<1>10. Of(V, c, (x \o y) \o z) BY <1>6, <1>9, OfAnd
<1> DEFINE s == SaveSteps(c)
<1>11. Of(V, c, s) /\ Runs(c, s, "form") BY <1>1, <1>7, <1>10
<1> HIDE DEF s
<1>12. Of(MildWords, c, s) /\ Of(W, c, s) BY <1>8, <1>11, OfMore
<1> QED BY <1>1, <1>11, <1>12 DEF Ran, W

LEMMA SettingForm == ASSUME ScreenInv, NEW c, Typed(c), SettingKey(c) PROVE Ran
<1> DEFINE s == ConfigSteps(c)
<1>1. c.op = "config" /\ c.key \in Key /\ Runs(c, s, "ok") BY DEF SettingKey, Typed, Meant
<1>2. Of(MildWords, c, s) BY <1>1, ConfigSimple, SimpleMild
<1> HIDE DEF s
<1> QED BY <1>1, <1>2, RanForm

LEMMA PickForm == ASSUME ScreenInv, NEW c, Typed(c), PickRepo(c) PROVE Ran
<1> DEFINE a == IF c.bad /\ Wanted(c) # None THEN <<Do("ask")>> ELSE <<>>
           b == SetGithub(Wanted(c))
           ask == <<Do("ask")>>
           none == <<>>
<1>1. Runs(c, a \o b, "ok") BY DEF PickRepo
<1>2. Of(MildWords, c, b) BY SetGithubMild
<1>3. Of(MildWords, c, ask) /\ Of(MildWords, c, none) BY KeyWords, MildWord, OfNone
<1>4. a \in {ask, none} OBVIOUS
<1> HIDE DEF a, b, ask, none
<1> DEFINE s == a \o b
<1>5. Of(MildWords, c, a) BY <1>3, <1>4
<1>6. Of(MildWords, c, s) /\ Runs(c, s, "ok") BY <1>1, <1>2, <1>5, OfAnd
<1> HIDE DEF s
<1> QED BY <1>6, RanForm

LEMMA ReloadedIs ==
  ASSUME NEW a, DOMAIN a = AppFields
  PROVE  /\ But({"mode", "repo"}, a, Reloaded(a)) /\ Reloaded(a).mode \in {a.mode, "normal"}
         /\ Reloaded(a).on = "here" => Reloaded(a).repo = Get(db, "github") \/ a.on = "away"
         /\ a.on = "away" => Reloaded(a).repo = AwayRepo
<1>1. CASE a.on = "away"
  <2> DEFINE b == [a EXCEPT !.cards = NoCards, !.items = <<>>, !.repo = AwayRepo, !.page = None, !.panel = TRUE]
  <2>1. But({"repo"}, a, b) /\ b.repo = AwayRepo BY DEF But, AppFields
  <2>2. Reloaded(a) = b BY <1>1 DEF Reloaded
  <2> HIDE DEF b
  <2> QED BY <1>1, <2>1, <2>2 DEF But
<1>2. CASE a.on # "away"
  <2> DEFINE cs == db.card   repo == Get(db, "github")   page == Shown(db)   panel == PanelShown(db)
             mode == IF a.mode = "panel" /\ ~PanelShown(db) THEN "normal" ELSE a.mode
             items == IF a.mode = "popup" THEN db.items[a.card] ELSE <<>>
             b == [a EXCEPT !.cards = cs, !.repo = repo, !.page = page, !.panel = panel, !.mode = mode, !.items = items]
  <2>1. Reloaded(a) = b BY <1>2 DEF Reloaded
  <2>2. mode \in {a.mode, "normal"} OBVIOUS
  <2> HIDE DEF cs, repo, page, panel, mode, items
  <2>3. But({"mode", "repo"}, a, b) /\ b.repo = repo /\ b.mode = mode BY DEF But, AppFields
  <2> HIDE DEF b
  <2> QED BY <1>2, <2>1, <2>2, <2>3 DEF repo
<1> QED BY <1>1, <1>2

LEMMA SwitchForm == ASSUME ScreenInv, SwitchBoard PROVE Waited
<1> DEFINE on == IF app.on = "here" THEN "away" ELSE "here"
           b == [app EXCEPT !.mode = "normal", !.on = on]
           a == Reloaded(b)
<1>1. DOMAIN app = AppFields BY DEF ScreenInv, AppOK
<1>2. on \in {"here", "away"} OBVIOUS
<1>3. Waits(a) BY DEF SwitchBoard
<1> HIDE DEF on
<1>4. But({"mode", "on"}, app, b) /\ b.mode = "normal" /\ b.on = on BY <1>1 DEF But, AppFields
<1> HIDE DEF b
<1>5. /\ But({"mode", "repo"}, b, a) /\ a.mode \in {b.mode, "normal"}
      /\ a.on = "here" => a.repo = Get(db, "github") \/ b.on = "away"
  BY <1>4, ReloadedIs DEF But
<1> HIDE DEF a
<1>6. a.on = b.on /\ a.mode = "normal" BY <1>4, <1>5 DEF But
<1>7. But({"on", "mode", "typed", "base", "repo"}, app, a) /\ RepoFrom(app, a) /\ BaseFrom(app, a)
  BY <1>4, <1>5, <1>6 DEF But, RepoFrom, BaseFrom
<1> QED BY <1>3, <1>6, <1>7, WaitedForm

LEMMA QuitForm == ASSUME ScreenInv, Quit PROVE Waited
<1> DEFINE a == [app EXCEPT !.open = FALSE]
<1>1. AppOK BY DEF ScreenInv
<1>2. But({}, app, a) BY <1>1 DEF But, AppFields, AppOK
<1>3. Waits(a) BY DEF Quit
<1> HIDE DEF a
<1>4. But({"on", "mode", "typed", "base", "repo"}, app, a) /\ RepoFrom(app, a) /\ BaseFrom(app, a)
  BY <1>2 DEF But, RepoFrom, BaseFrom
<1>5. a.mode = app.mode /\ a.typed = app.typed BY <1>2 DEF But
<1> QED BY <1>1, <1>3, <1>4, <1>5, WaitedForm DEF AppOK

LEMMA ItemKey == ASSUME ScreenInv, OpenItem PROVE Waited
<1>1. PICK n \in app.page.open : Waits([app EXCEPT !.mode = "item", !.why = n]) BY Zenon DEF OpenItem
<1> DEFINE a == [app EXCEPT !.mode = "item", !.why = n]
<1>2. DOMAIN app = AppFields BY DEF ScreenInv, AppOK
<1>3. But({"mode"}, app, a) /\ a.mode = "item" BY <1>2 DEF But, AppFields
<1>4. Waits(a) BY <1>1
<1> HIDE DEF a
<1>5. But({"on", "mode", "typed", "base", "repo"}, app, a) /\ RepoFrom(app, a) /\ BaseFrom(app, a)
  BY <1>3 DEF But, RepoFrom, BaseFrom
<1> QED BY <1>3, <1>4, <1>5, WaitedForm

LEMMA CardKeyForm == ASSUME ScreenInv, NEW c \in Asked, CardKey(c) PROVE Waited \/ Ran
<1>1. Typed(c) BY DEF Asked, ScreenInv, AppOK
<1>2. CASE MoveSelected(c) BY <1>1, <1>2, MoveForm
<1>3. CASE ReorderSelected(c) BY <1>1, <1>3, GuardForm DEF ReorderSelected, CardOps
<1>4. CASE AskRemove(c) BY <1>1, <1>4, RemoveForm
<1>5. CASE Opens(c) BY <1>1, <1>5, OpensForm
<1>6. CASE OpenPopup(c) BY <1>6, PopupForm
<1>7. CASE PopupKey(c) BY <1>1, <1>7, GuardForm DEF PopupKey, CardOps
<1>8. CASE FocusKey(c) BY <1>1, <1>8, GuardForm DEF FocusKey, CardOps
<1>9. CASE OpenEdit(c) BY <1>9, EditForm
<1>10. CASE SaveForm(c) BY <1>1, <1>10, SaveFormRuns
<1>11. CASE SettingKey(c) BY <1>1, <1>11, SettingForm
<1>12. CASE PickRepo(c) BY <1>1, <1>12, PickForm
<1>13. CASE AddGhCard(c) BY <1>1, <1>13, WriteRuns DEF AddGhCard
<1> QED BY <1>2, <1>3, <1>4, <1>5, <1>6, <1>7, <1>8, <1>9, <1>10, <1>11, <1>12, <1>13 DEF CardKey

LEMMA KeyForm == ASSUME ScreenInv, HandleKey PROVE Waited \/ Ran
<1>1. CASE Cancel BY <1>1, ModeForm DEF Cancel
<1>2. CASE Escape BY <1>2, ModeForm DEF Escape
<1>3. CASE FocusPanel BY <1>3, ModeForm DEF FocusPanel
<1> QED BY <1>1, <1>2, <1>3, CardKeyForm, ConfirmForm, EnterForm, ItemKey, SwitchForm, QuitForm DEF HandleKey

-----------------------------------------------------------------------------
(* The loop keeps what holds                                               *)

LEMMA WaitKeeps ==
  ASSUME ScreenInv, UNCHANGED <<db, writer, work, from>>, plan' = plan, cmd' = cmd, AppOK'
  PROVE  ScreenInv'
BY DEF ScreenInv, FileOK, FromOK, ProcOK, Holds

LEMMA TakesUp ==
  ASSUME ScreenInv, UNCHANGED <<db, writer, work, from>>, cmd[Tui].left = <<>>,
         NEW c, plan' = [plan EXCEPT ![Tui] = c], Meant(c), Someone(c),
         NEW s, cmd' = [cmd EXCEPT ![Tui] = s], Shape(s), InLine(c, s.left),
         s.left # <<>> => Head(s.left).do \notin {"row", "commit"}, AppOK'
  PROVE  /\ ScreenInv' /\ cmd'[Tui] = s /\ plan'[Tui] = c
         /\ \A p \in Proc \ {Tui} : cmd'[p] = cmd[p] /\ plan'[p] = plan[p]
<1>1. /\ cmd'[Tui] = s /\ cmd' = [q \in Proc |-> cmd'[q]]
      /\ plan'[Tui] = c /\ plan' = [q \in Proc |-> plan'[q]]
      /\ \A q \in Proc \ {Tui} : cmd'[q] = cmd[q] /\ plan'[q] = plan[q]
  BY ScreenAssumption DEF ScreenInv
<1>2. FileOK' /\ FromOK' BY DEF ScreenInv, FileOK, FromOK
<1>3. writer # Tui /\ writer' = writer BY ScreenAssumption DEF ScreenInv, ProcOK, Holds
<1>4. ProcOK(Tui)' BY <1>1, <1>3 DEF ProcOK, Holds
<1>5. ASSUME NEW q \in Proc \ {Tui} PROVE ProcOK(q)'
  <2>1. ProcOK(q) BY DEF ScreenInv
  <2>2. cmd'[q] = cmd[q] /\ plan'[q] = plan[q] /\ writer' = writer BY <1>1, <1>3
  <2> QED BY <2>1, <2>2 DEF ProcOK, Holds
<1> QED BY <1>1, <1>2, <1>4, <1>5 DEF ScreenInv

LEMMA FreshIs ==
  ASSUME NEW x
  PROVE  /\ Shape(Fresh(x)) /\ Fresh(x).left = x /\ Fresh(x).item = None /\ Fresh(x).old = None
         /\ Fresh(x).base = None /\ Fresh(x).end = None
BY DEF Shape, Fresh

LEMMA MildHead ==
  ASSUME NEW c, NEW s, Of(MildWords, c, s)
  PROVE  InLine(c, s) /\ (s # <<>> => Head(s).do \in MildWords /\ Head(s).do \notin {"row", "commit"})
<1>1. InLine(c, s) BY MildInLine
<1>2. s # <<>> => Head(s).do \in MildWords BY OfTail
<1> QED BY <1>1, <1>2 DEF MildWords, LongWords

\* A key that runs something.
LEMMA RunsKeep ==
  ASSUME ScreenInv, UNCHANGED <<db, writer, work, from>>, cmd[Tui].left = <<>>,
         NEW c, NEW steps, NEW then, Typed(c), Of(MildWords, c, steps), Runs(c, steps, then)
  PROVE  /\ ScreenInv' /\ plan'[Tui] = c /\ cmd'[Tui].left = steps /\ cmd'[Tui].base = app.base
         /\ cmd'[Tui].end = None
         /\ \A p \in Proc \ {Tui} : cmd'[p] = cmd[p] /\ plan'[p] = plan[p]
         /\ But({"mode", "busy"}, app, app') /\ app'.busy = then /\ app'.mode \in {app.mode, "normal"}
<1> DEFINE f == Fresh(steps)
           base == app.base
           s == [f EXCEPT !.base = base]
           a == [app EXCEPT !.busy = then, !.left = @ - 1, !.mode = IF @ \in {"popup", "form", "panel", "item"} THEN @ ELSE "normal"]
<1>1. plan' = [plan EXCEPT ![Tui] = c] /\ cmd' = [cmd EXCEPT ![Tui] = s] BY DEF Runs
<1>2. app' = a BY Zenon DEF Runs
<1>4. DOMAIN app = AppFields /\ AppOK BY DEF ScreenInv, AppOK
<1>3. a.mode \in {app.mode, "normal"} /\ a.mode \notin {"confirm", "typing"} BY <1>4 DEF AppFields
<1>5. But({"mode", "busy"}, app, a) /\ a.busy = then BY <1>4 DEF But, AppFields
<1> HIDE DEF a, base
<1>6. Shape(f) /\ f.left = steps /\ f.end = None BY FreshIs
<1> HIDE DEF f
<1>7. Shape(s) /\ s.left = steps /\ s.base = base /\ s.end = None BY <1>6 DEF Shape
<1> HIDE DEF s
<1>9. Meant(c) /\ Someone(c) BY ScreenAssumption DEF Typed, Someone
<1>10. InLine(c, s.left) /\ (s.left # <<>> => Head(s.left).do \notin {"row", "commit"}) BY <1>7, MildHead
<1>11. plan'[Tui] = c BY <1>1, ScreenAssumption DEF ScreenInv
<1>12. AppOK' BY <1>2, <1>3, <1>4, <1>5, <1>9, <1>11 DEF AppOK, But
<1>13. /\ ScreenInv' /\ cmd'[Tui] = s /\ \A p \in Proc \ {Tui} : cmd'[p] = cmd[p] /\ plan'[p] = plan[p]
  BY <1>1, <1>7, <1>9, <1>10, <1>12, TakesUp
<1> QED BY <1>2, <1>3, <1>5, <1>7, <1>11, <1>13 DEF base

LEMMA KeyKeeps ==
  ASSUME ScreenInv, UNCHANGED <<db, writer, work, from>>, HandleKey
  PROVE  ScreenInv'
<1>1. cmd[Tui].left = <<>> BY DEF HandleKey, Press, Idle
<1>2. CASE Waited BY <1>2, WaitKeeps DEF Waited
<1>3. CASE Ran
  <2>1. PICK c, steps, then : Typed(c) /\ Of(MildWords, c, steps) /\ Runs(c, steps, then) BY <1>3 DEF Ran
  <2> QED BY <1>1, <2>1, RunsKeep
<1> QED BY <1>2, <1>3, KeyForm

\* What the screen is like once a key's command has ended.
LEMMA SettleForm ==
  ASSUME ScreenInv, Settle
  PROVE  /\ plan' = plan /\ cmd[Tui].left = <<>> /\ app.busy # None
         /\ But({"mode", "repo", "busy"}, app, app') /\ app'.mode \in {app.mode, "normal"} /\ RepoFrom(app, app')
         /\ \/ app'.busy = None /\ cmd' = cmd
            \/ app'.busy = "never" /\ cmd' = [cmd EXCEPT ![Tui] = [Fresh(<<Do("force")>>) EXCEPT !.past = app.past]]
<1> DEFINE ok == cmd[Tui].end = "ok"
           m == [app EXCEPT !.mode = "normal"]
           closed == IF app.busy = "form" /\ ok THEN m ELSE app
           r == Reloaded(closed)
           now == IF app.busy = "always" \/ (ok /\ app.busy # "never") THEN r ELSE closed
           a == [now EXCEPT !.busy = None]
           b == [now EXCEPT !.busy = "never", !.past = None]
<1>1. plan' = plan /\ cmd[Tui].left = <<>> /\ app.busy # None BY DEF Settle
<1>2. \/ app' = a /\ cmd' = cmd
      \/ app' = b /\ cmd' = [cmd EXCEPT ![Tui] = [Fresh(<<Do("force")>>) EXCEPT !.past = app.past]]
  BY DEF Settle
<1>3. DOMAIN app = AppFields BY DEF ScreenInv, AppOK
<1>4. But({"mode"}, app, m) /\ m.mode = "normal" /\ But({}, app, app) BY <1>3 DEF But, AppFields
<1> HIDE DEF m
<1>5. But({"mode"}, app, closed) /\ closed.mode \in {app.mode, "normal"} BY <1>4 DEF But
<1> HIDE DEF closed
<1>6. /\ But({"mode", "repo"}, closed, r) /\ r.mode \in {closed.mode, "normal"}
      /\ r.on = "here" => r.repo = Get(db, "github") \/ closed.on = "away"
  BY <1>5, ReloadedIs DEF But
<1> HIDE DEF r
<1>7. But({"mode", "repo"}, app, now) /\ now.mode \in {app.mode, "normal"} /\ RepoFrom(app, now)
  BY <1>5, <1>6 DEF But, RepoFrom
<1> HIDE DEF now
<1>8. /\ But({"busy"}, now, a) /\ a.busy = None /\ But({"busy"}, now, b) /\ b.busy = "never"
  BY <1>7 DEF But, AppFields
<1> HIDE DEF a, b
<1>9. CASE app' = a /\ cmd' = cmd BY <1>1, <1>7, <1>8, <1>9 DEF But, RepoFrom
<1>10. CASE app' = b /\ cmd' = [cmd EXCEPT ![Tui] = [Fresh(<<Do("force")>>) EXCEPT !.past = app.past]]
  BY <1>1, <1>7, <1>8, <1>10 DEF But, RepoFrom
<1> QED BY <1>2, <1>9, <1>10

\* The line about the holder who was gone past.
LEMMA ForcePhase ==
  LET s == [Fresh(<<Do("force")>>) EXCEPT !.past = app.past]
  IN Shape(s) /\ s.base = None /\ s.left # <<>> /\ \A c : Of(MildWords, c, s.left)
<1> DEFINE x == app.past
           one == <<Do("force")>>
           f == Fresh(one)
           s == [f EXCEPT !.past = x]
<1>1. \A c : Of(MildWords, c, one) BY KeyWords, MildWord
<1>2. one # <<>> OBVIOUS
<1> HIDE DEF one, x
<1>3. Shape(f) /\ f.left = one /\ f.base = None BY FreshIs
<1> HIDE DEF f
<1>4. Shape(s) /\ s.left = one BY <1>3, WithField
<1>5. s.base = None BY <1>3 DEF Shape
<1> HIDE DEF s
<1>6. Shape(s) /\ s.base = None /\ s.left # <<>> /\ \A c : Of(MildWords, c, s.left) BY <1>1, <1>2, <1>4, <1>5
<1> QED BY <1>6 DEF s, f, one, x

LEMMA SettleKeeps ==
  ASSUME ScreenInv, UNCHANGED <<db, writer, work, from>>, Settle
  PROVE  ScreenInv'
<1>1. /\ plan' = plan /\ cmd[Tui].left = <<>> /\ app.busy # None
      /\ But({"mode", "repo", "busy"}, app, app') /\ app'.mode \in {app.mode, "normal"}
  BY SettleForm
<1>2. AppOK /\ Someone(plan[Tui]) /\ Meant(plan[Tui]) BY <1>1, ScreenAssumption DEF ScreenInv, AppOK, ProcOK
<1>3. AppOK' BY <1>1, <1>2 DEF AppOK, But
<1>4. CASE cmd' = cmd BY <1>1, <1>3, <1>4, WaitKeeps
<1> DEFINE s == [Fresh(<<Do("force")>>) EXCEPT !.past = app.past]
<1>5. CASE cmd' = [cmd EXCEPT ![Tui] = s]
  <2> DEFINE c == plan[Tui]
  <2>1. plan' = [plan EXCEPT ![Tui] = c] BY <1>1 DEF ScreenInv
  <2>2. Shape(s) /\ Of(MildWords, c, s.left) BY ForcePhase
  <2>3. cmd' = [cmd EXCEPT ![Tui] = s] BY <1>5
  <2>4. Meant(c) /\ Someone(c) BY <1>2
  <2> HIDE DEF s, c
  <2>5. InLine(c, s.left) /\ (s.left # <<>> => Head(s.left).do \notin {"row", "commit"}) BY <2>2, MildHead
  <2> QED BY <1>1, <1>3, <2>1, <2>2, <2>3, <2>4, <2>5, TakesUp
<1> QED BY <1>4, <1>5, SettleForm

LEMMA RefreshForm ==
  ASSUME ScreenInv, Refresh
  PROVE  /\ plan' = plan /\ cmd' = cmd /\ But({"mode", "repo"}, app, app') /\ app'.mode \in {app.mode, "normal"}
         /\ RepoFrom(app, app') /\ AppOK'
<1>1. AppOK /\ DOMAIN app = AppFields BY DEF ScreenInv, AppOK
<1>2. plan' = plan /\ cmd' = cmd /\ app' = Reloaded(app) BY DEF Refresh
<1>3. /\ But({"mode", "repo"}, app, app') /\ app'.mode \in {app.mode, "normal"}
      /\ app'.on = "here" => app'.repo = Get(db, "github") \/ app.on = "away"
  BY <1>1, <1>2, ReloadedIs
<1> QED BY <1>1, <1>2, <1>3 DEF But, RepoFrom, AppOK

LEMMA ThreadForm ==
  ASSUME ScreenInv, ThreadStarts \/ ThreadFetches
  PROVE  /\ plan' = plan /\ cmd' = cmd /\ But({"target", "slot"}, app, app') /\ AppOK'
         /\ \/ app.busy = None /\ app.repo # None /\ app'.slot = app.slot
               /\ app'.target = [repo |-> app.repo, on |-> app.on]
            \/ \E r, seen : app.target # None /\ app'.target = None
                            /\ app'.slot = [repo |-> app.target.repo, result |-> r, seen |-> seen]
<1>1. AppOK /\ DOMAIN app = AppFields BY DEF ScreenInv, AppOK
<1>2. CASE ThreadStarts
  <2> DEFINE x == [repo |-> app.repo, on |-> app.on]
             a == [app EXCEPT !.target = x, !.fetches = @ - 1]
  <2>1. plan' = plan /\ cmd' = cmd /\ app' = a /\ app.busy = None /\ app.repo # None BY <1>2 DEF ThreadStarts, Idle
  <2> HIDE DEF x
  <2>2. But({"target"}, app, a) /\ a.target = x /\ a.slot = app.slot BY <1>1 DEF But, AppFields
  <2>4. a.typed = app.typed /\ a.keys = app.keys BY <1>1 DEF AppFields
  <2> HIDE DEF a
  <2>3. But({"target", "slot"}, app, app') /\ app'.slot = app.slot /\ app'.target = x BY <2>1, <2>2 DEF But
  <2>5. AppOK' BY <1>1, <2>1, <2>2, <2>4 DEF But, AppOK
  <2> QED BY <2>1, <2>3, <2>5 DEF x
<1>3. CASE ThreadFetches
  <2>1. PICK r, seen : /\ app.target # None /\ plan' = plan /\ cmd' = cmd
                       /\ app' = [app EXCEPT !.target = None,
                                             !.slot = [repo |-> app.target.repo, result |-> r, seen |-> seen]]
    BY <1>3, Zenon DEF ThreadFetches
  <2> DEFINE x == [repo |-> app.target.repo, result |-> r, seen |-> seen]
             a == [app EXCEPT !.target = None, !.slot = x]
  <2>2. app' = a BY <2>1
  <2> HIDE DEF x
  <2>3. But({"target", "slot"}, app, a) /\ a.target = None /\ a.slot = x BY <1>1 DEF But, AppFields
  <2>4. a.typed = app.typed /\ a.keys = app.keys BY <1>1 DEF AppFields
  <2> HIDE DEF a
  <2>5. But({"target", "slot"}, app, app') /\ app'.slot = x /\ app'.target = None BY <2>2, <2>3
  <2>6. AppOK' BY <1>1, <2>1, <2>2, <2>3, <2>4 DEF But, AppOK
  <2> QED BY <2>1, <2>5, <2>6 DEF x
<1> QED BY <1>2, <1>3

\* What was fetched is taken: it is saved and the cards are planned, or it is dropped.
Taken == [Blank EXCEPT !.op = "fetched", !.by = Github]
TakenSteps == <<Do("save"), Do("cards"), Do("plan")>>

LEMMA TakenMeant == Meant(Taken) /\ Someone(Taken) /\ Taken.op = "fetched"
<1>1. /\ Taken.op = "fetched" /\ Taken.by = Github /\ Taken.env = Plain /\ Taken.title = Unset /\ Taken.desc = Unset
      /\ Taken.due = Unset /\ Taken.block = Unset /\ Taken.ref = None /\ Taken.col = "todo" /\ Taken.key = "wip"
  BY DEF Taken, Blank
<1>2. Plain.bound # Unset BY RowsAssumption DEF Plain
<1>3. Unset \in Said /\ "wip" \in Key /\ "todo" \in Column BY DEF Said, Key, Named, Column
<1> QED BY <1>1, <1>2, <1>3, ChoresAssumption DEF Meant, Someone

LEMMA TakenLine ==
  /\ InLine(Taken, TakenSteps) /\ TakenSteps # <<>> /\ Head(TakenSteps) = Do("save")
  /\ Head(TakenSteps).do \notin {"row", "commit"} /\ TakenSteps = <<Do("save"), Do("cards"), Do("plan")>>
<1> DEFINE x == Do("save")
           y == Do("cards")
           z == Do("plan")
           W == AllWords \ LongWords
<1>1. x.do = "save" /\ y.do = "cards" /\ z.do = "plan" BY DEF Do
<1>2. {"save", "cards", "plan"} \subseteq W BY DEF AllWords, LongWords, SyncWords
<1>3. Sound(Taken, x) /\ Sound(Taken, y) /\ Sound(Taken, z) BY <1>1, TakenMeant DEF Sound, SetupWords
<1> HIDE DEF x, y, z, W
<1>4. Of(W, Taken, <<x, y, z>>) BY <1>1, <1>2, <1>3, OfThree
<1>5. Taken.op # "reap" BY TakenMeant
<1>6. Of(W, Taken, TakenSteps) BY <1>4 DEF TakenSteps, x, y, z
<1>7. InLine(Taken, TakenSteps) BY <1>5, <1>6, LooseInLine DEF W
<1>8. TakenSteps = <<x, y, z>> BY DEF TakenSteps, x, y, z
<1>9. TakenSteps # <<>> /\ Head(TakenSteps) = x BY <1>8
<1> QED BY <1>1, <1>7, <1>9 DEF x, TakenSteps

LEMMA TakenSync == Of(SyncWords, Taken, TakenSteps)
<1> DEFINE x == Do("save")
           y == Do("cards")
           z == Do("plan")
<1>1. x.do = "save" /\ y.do = "cards" /\ z.do = "plan" BY DEF Do
<1>2. {"save", "cards", "plan"} \subseteq SyncWords BY DEF SyncWords
<1>3. Sound(Taken, x) /\ Sound(Taken, y) /\ Sound(Taken, z) BY <1>1, TakenMeant DEF Sound, SetupWords
<1> HIDE DEF x, y, z
<1>4. Of(SyncWords, Taken, <<x, y, z>>) BY <1>1, <1>2, <1>3, OfThree
<1> QED BY <1>4 DEF TakenSteps, x, y, z

LEMMA TakesForm ==
  ASSUME ScreenInv, TakeFetched
  PROVE  /\ cmd[Tui].left = <<>> /\ app.slot # None
         /\ \/ plan' = plan /\ cmd' = cmd /\ But({"slot"}, app, app') /\ app'.slot = None /\ AppOK'
            \/ /\ app.slot.repo = app.repo /\ app.on = "here" /\ But({"slot", "busy"}, app, app') /\ app'.busy = "always"
               /\ app'.slot = None /\ app'.mode = app.mode /\ app'.typed = app.typed
               /\ plan' = [plan EXCEPT ![Tui] = Taken]
               /\ \E s : /\ cmd' = [cmd EXCEPT ![Tui] = s] /\ Shape(s) /\ s.left = TakenSteps /\ s.item = app.slot.repo
                         /\ s.base = None /\ s.end = None
<1>1. AppOK /\ DOMAIN app = AppFields BY DEF ScreenInv, AppOK
<1>2. cmd[Tui].left = <<>> /\ app.slot # None BY DEF TakeFetched, Idle
<1> DEFINE a == [app EXCEPT !.slot = None]
           b == [app EXCEPT !.slot = None, !.busy = "always"]
           f == Fresh(TakenSteps)
           x == app.slot.repo
           y == app.slot.result
           z == app.slot.seen
           s == [f EXCEPT !.item = x, !.old = y, !.past = z, !.made = {}]
<1>3. \/ app' = a /\ plan' = plan /\ cmd' = cmd
      \/ /\ app.slot.repo = app.repo /\ app.on = "here" /\ app' = b /\ plan' = [plan EXCEPT ![Tui] = Taken]
         /\ cmd' = [cmd EXCEPT ![Tui] = s]
  BY DEF TakeFetched, WantedNow, Taken, TakenSteps
<1>4. But({"slot"}, app, a) /\ a.slot = None /\ a.mode = app.mode /\ a.typed = app.typed BY <1>1 DEF But, AppFields
<1>5. /\ But({"slot", "busy"}, app, b) /\ b.slot = None /\ b.mode = app.mode /\ b.typed = app.typed /\ b.busy = "always"
  BY <1>1 DEF But, AppFields
<1>6. Shape(f) /\ f.left = TakenSteps /\ f.base = None /\ f.end = None BY FreshIs
<1> HIDE DEF a, b, f, x, y, z
<1>7. Shape(s) /\ s.left = TakenSteps /\ s.item = x /\ s.base = None /\ s.end = None
  <2> DEFINE s1 == [f EXCEPT !.item = x]
             s2 == [s1 EXCEPT !.old = y]
             s3 == [s2 EXCEPT !.past = z]
             s4 == [s3 EXCEPT !.made = {}]
  <2>1. s = s4 OBVIOUS
  <2>2. Shape(s1) /\ s1.left = TakenSteps /\ s1.item = x /\ s1.base = None /\ s1.end = None BY <1>6 DEF Shape
  <2> HIDE DEF s1
  <2>3. Shape(s2) /\ s2.left = TakenSteps /\ s2.item = x /\ s2.base = None /\ s2.end = None BY <2>2 DEF Shape
  <2> HIDE DEF s2
  <2>4. Shape(s3) /\ s3.left = TakenSteps /\ s3.item = x /\ s3.base = None /\ s3.end = None BY <2>3 DEF Shape
  <2> HIDE DEF s3
  <2>5. Shape(s4) /\ s4.left = TakenSteps /\ s4.item = x /\ s4.base = None /\ s4.end = None BY <2>4 DEF Shape
  <2> QED BY <2>1, <2>5
<1> HIDE DEF s
<1>8. CASE app' = a /\ plan' = plan /\ cmd' = cmd
  <2>1. AppOK' BY <1>1, <1>4, <1>8 DEF AppOK, But
  <2> QED BY <1>2, <1>4, <1>8, <2>1
<1>9. CASE /\ app.slot.repo = app.repo /\ app.on = "here" /\ app' = b /\ plan' = [plan EXCEPT ![Tui] = Taken]
           /\ cmd' = [cmd EXCEPT ![Tui] = s]
  BY <1>2, <1>5, <1>7, <1>9 DEF x
<1> QED BY <1>3, <1>8, <1>9

LEMMA TakesKeep ==
  ASSUME ScreenInv, UNCHANGED <<db, writer, work, from>>, TakeFetched
  PROVE  ScreenInv'
<1>1. CASE plan' = plan /\ cmd' = cmd /\ AppOK' BY <1>1, WaitKeeps
<1>2. CASE /\ But({"slot", "busy"}, app, app') /\ app'.mode = app.mode /\ app'.typed = app.typed
           /\ plan' = [plan EXCEPT ![Tui] = Taken]
           /\ \E s : cmd' = [cmd EXCEPT ![Tui] = s] /\ Shape(s) /\ s.left = TakenSteps
  <2>1. PICK s : cmd' = [cmd EXCEPT ![Tui] = s] /\ Shape(s) /\ s.left = TakenSteps BY <1>2
  <2>2. plan'[Tui] = Taken BY <1>2, ScreenAssumption DEF ScreenInv
  <2>3. AppOK' BY <1>2, <2>2, TakenMeant DEF ScreenInv, AppOK, But
  <2>4. cmd[Tui].left = <<>> BY TakesForm
  <2> DEFINE c == Taken
  <2>5. Meant(c) /\ Someone(c) /\ InLine(c, s.left) /\ Head(s.left).do \notin {"row", "commit"}
    BY <2>1, TakenMeant, TakenLine
  <2>6. plan' = [plan EXCEPT ![Tui] = c] BY <1>2
  <2> HIDE DEF c
  <2> QED BY <2>1, <2>3, <2>4, <2>5, <2>6, TakesUp
<1> QED BY <1>1, <1>2, TakesForm

LEMMA LoopKeeps ==
  ASSUME ScreenInv, UNCHANGED <<db, writer, work, from>>, Loop
  PROVE  ScreenInv'
<1>1. CASE Refresh BY <1>1, RefreshForm, WaitKeeps
<1>2. CASE ThreadStarts \/ ThreadFetches BY <1>2, ThreadForm, WaitKeeps
<1> QED BY <1>1, <1>2, KeyKeeps, SettleKeeps, TakesKeep DEF Loop

-----------------------------------------------------------------------------
(* Any step, and the first state                                           *)

\* A step is one phase of one process, the loop's own, or nobody's.
NotesPast == app' = app \/ \E x : app' = [app EXCEPT !.past = x]
NobodySteps == UNCHANGED <<db, writer, work, plan, cmd, from, app>>

\* Process p does one of its phases, or is killed.
Acts(p) ==
  \/ DeskStep(p) \/ SyncStep(p) \/ ReapStep(p) \/ SetupStep(p)
  \/ p = Tui /\ from' = from /\ (PastHolder(p) \/ SameDate(p))

LEMMA ActsForm == ASSUME ScreenInv, NEW p \in Proc, Acts(p) PROVE \E what : StepForm(p, what)
BY DeskForm, SyncForm, ReapForm, SetupForm, PastForm, SameForm DEF Acts

LEMMA SyncAlone == ASSUME NEW p, SyncStep(p) PROVE Alone
BY DEF SyncStep, Repo, Aged, Fetch, Save, Cards, Lookup, Linked, Plan, GMove, GNote

LEMMA ReapAlone == ASSUME NEW p, ReapStep(p) PROVE Alone \/ Journal(p)
BY DEF ReapStep, Killed, Permit, World, Scan, Free, FreeNote, Holder, AskAlive, Release

LEMMA SetupAlone == ASSUME NEW p, SetupStep(p) PROVE Alone
BY DEF SetupStep, Welcome, ConnectStep, Choose, PanelStep, SkillStep, SnippetStep, WriteBlock, Remember, OnlyAsks

LEMMA WizardWho ==
  ASSUME WizardStep
  PROVE  \/ \E p \in Proc : Acts(p) /\ (journal' = journal \/ Journal(p))
         \/ UNCHANGED <<db, writer, work, plan, cmd, from, journal>>
<1>1. CASE Watch /\ Alone
  <2>1. UNCHANGED <<db, writer, work, plan, cmd, from>> BY <1>1, Zenon DEF Watch, Poll, PrintLine
  <2> QED BY <1>1, <2>1 DEF Alone
<1>2. CASE Outside \/ Edits
  <2>1. UNCHANGED deskVars /\ UNCHANGED journal
    BY <1>2, Zenon DEF Outside, Edits, Tick, Second, Disable, WriteLedger, Ends, Comes, News, Around
  <2>2. UNCHANGED <<db, writer, work, plan, cmd, from>> BY <2>1 DEF deskVars
  <2> QED BY <2>1, <2>2
<1>3. ASSUME NEW p \in Proc, DeskStep(p), Alone PROVE Acts(p) /\ journal' = journal BY <1>3 DEF Acts, Alone
<1>4. ASSUME NEW p \in Proc, SyncStep(p) PROVE Acts(p) /\ journal' = journal BY <1>4, SyncAlone DEF Acts, Alone
<1>5. ASSUME NEW p \in Proc, ReapStep(p) PROVE Acts(p) /\ (journal' = journal \/ Journal(p))
  BY <1>5, ReapAlone DEF Acts, Alone
<1>6. ASSUME NEW p \in Proc, SetupStep(p) PROVE Acts(p) /\ journal' = journal BY <1>6, SetupAlone DEF Acts, Alone
<1> QED BY <1>1, <1>2, <1>3, <1>4, <1>5, <1>6 DEF WizardStep, ChoresStep, DeskNext

LEMMA NextWho ==
  ASSUME ScreenInv, ScreenNext
  PROVE  \/ \E p \in Proc : Acts(p) /\ NotesPast /\ (journal' = journal \/ Journal(p))
         \/ Loop /\ UNCHANGED <<db, writer, work, from, journal>>
         \/ NobodySteps /\ journal' = journal
<1>1. CASE WizardStep /\ UNCHANGED app BY <1>1, WizardWho DEF NotesPast, NobodySteps
<1>2. CASE (PastHolder(Tui) \/ SameDate(Tui)) /\ from' = from /\ journal' = journal
  <2>1. Acts(Tui) BY <1>2 DEF Acts
  <2>2. NotesPast BY <1>2 DEF PastHolder, SameDate, NotesPast
  <2> QED BY <1>2, <2>1, <2>2, ScreenAssumption
<1> QED BY <1>1, <1>2 DEF ScreenNext

LEMMA NobodyKeeps == ASSUME ScreenInv, NobodySteps PROVE ScreenInv'
<1>1. AppOK' BY DEF ScreenInv, AppOK, NobodySteps
<1> QED BY <1>1, WaitKeeps DEF NobodySteps

LEMMA ScreenKept == ScreenInv /\ [ScreenNext]_screenVars => ScreenInv'
<1> SUFFICES ASSUME ScreenInv, [ScreenNext]_screenVars PROVE ScreenInv' OBVIOUS
<1>1. CASE ScreenNext
  <2>1. ASSUME NEW p \in Proc, Acts(p), NotesPast PROVE ScreenInv' BY <2>1, ActsForm, StepKeeps DEF NotesPast
  <2> QED BY <1>1, <2>1, NextWho, LoopKeeps, NobodyKeeps
<1>2. CASE UNCHANGED screenVars BY <1>2, NobodyKeeps DEF screenVars, deskVars, NobodySteps
<1> QED BY <1>1, <1>2

\* The phases of Ws, none of which is told anything.
Dos(Ws) == {Do(w) : w \in Ws}

LEMMA DosOf ==
  ASSUME NEW c, NEW W, NEW Ws, Ws \subseteq W,
         \A w \in Ws : /\ w \notin {"row", "put"} /\ (w \in SetupWords => c.op = "setup")
                       /\ (w = "plan" => c.op \in {"sync", "fetched"}) /\ (w \in {"scan", "free"} => c.op = "reap")
                       /\ (w = "write" => c.op # "reap"),
         NEW s \in Seq(Dos(Ws))
  PROVE  Of(W, c, s)
<1>1. ASSUME NEW x \in Dos(Ws) PROVE x.do \in W /\ Sound(c, x)
  <2>1. PICK w \in Ws : x = Do(w) BY DEF Dos
  <2> QED BY <2>1, WordSound
<1> DEFINE S == Dos(Ws)
<1>2. s \in Seq(S) /\ \A x \in S : x.do \in W /\ Sound(c, x) BY <1>1
<1> HIDE DEF S
<1> QED BY <1>2, OfList

\* Whatever moves no card on GitHub's evidence.
CalmWords == AllWords \ {"plan", "gmove"}

LEMMA SyncLine ==
  ASSUME NEW c, c.op = "sync"
  PROVE  InLine(c, SyncSteps) /\ SyncSteps # <<>> /\ Head(SyncSteps) = Do("open")
<1> DEFINE Ws == {"open", "repo", "fetch", "save", "cards", "lookup", "linked", "plan"}
           s == SyncSteps
           W == AllWords \ LongWords
<1>1. Ws \subseteq W BY DEF AllWords, LongWords, SyncWords, DeskWords, CardWords
<1>2. \A w \in Ws : w \notin {"row", "put", "scan", "free", "write"} /\ w \notin SetupWords BY DEF SetupWords
<1>3. \A w \in Ws : Do(w) \in Dos(Ws) BY DEF Dos
<1> DEFINE D == Dos(Ws)
<1>4. /\ Do("open") \in D /\ Do("repo") \in D /\ Do("fetch") \in D /\ Do("save") \in D
      /\ Do("cards") \in D /\ Do("lookup") \in D /\ Do("linked") \in D /\ Do("plan") \in D
  BY <1>3
<1> HIDE DEF D
<1>5. s \in Seq(D) /\ s # <<>> /\ Head(s) = Do("open") BY <1>4 DEF SyncSteps
<1> HIDE DEF Ws, s, W
<1>6. Of(W, c, s) BY <1>1, <1>2, <1>5, DosOf DEF D
<1>7. InLine(c, s) BY <1>6, LooseInLine DEF W
<1> QED BY <1>5, <1>7 DEF s

LEMMA RefreshLine ==
  ASSUME NEW c, c.op = "refresh"
  PROVE  /\ InLine(c, RefreshSteps) /\ RefreshSteps # <<>> /\ Head(RefreshSteps) = Do("open")
         /\ Of(CalmWords, c, RefreshSteps)
<1> DEFINE Ws == {"open", "repo", "aged", "fetch", "save"}
           s == RefreshSteps
           W == AllWords \ LongWords
<1>1. Ws \subseteq W /\ Ws \subseteq CalmWords BY DEF CalmWords, AllWords, LongWords, SyncWords, DeskWords, CardWords
<1>2. \A w \in Ws : w \notin {"row", "put", "scan", "free", "write", "plan"} /\ w \notin SetupWords BY DEF SetupWords
<1>3. \A w \in Ws : Do(w) \in Dos(Ws) BY DEF Dos
<1> DEFINE D == Dos(Ws)
<1>4. Do("open") \in D /\ Do("repo") \in D /\ Do("aged") \in D /\ Do("fetch") \in D /\ Do("save") \in D BY <1>3
<1> HIDE DEF D
<1>5. s \in Seq(D) /\ s # <<>> /\ Head(s) = Do("open") BY <1>4 DEF RefreshSteps
<1> HIDE DEF Ws, s, W
<1>6. Of(W, c, s) /\ Of(CalmWords, c, s) BY <1>1, <1>2, <1>5, DosOf DEF D
<1>7. InLine(c, s) BY <1>6, LooseInLine DEF W
<1> QED BY <1>5, <1>6, <1>7 DEF s

LEMMA ReleaseLine ==
  ASSUME NEW c, c.op = "release"
  PROVE  /\ InLine(c, ReleaseSteps) /\ ReleaseSteps # <<>> /\ Head(ReleaseSteps) = Do("open")
         /\ Of(CalmWords, c, ReleaseSteps)
<1> DEFINE Ws == {"open", "holder", "world", "alive", "release"}
           s == ReleaseSteps
           W == AllWords \ LongWords
<1>1. Ws \subseteq W /\ Ws \subseteq CalmWords BY DEF CalmWords, AllWords, LongWords, ReapWords, DeskWords, CardWords
<1>2. \A w \in Ws : w \notin {"row", "put", "scan", "free", "write", "plan"} /\ w \notin SetupWords BY DEF SetupWords
<1>3. \A w \in Ws : Do(w) \in Dos(Ws) BY DEF Dos
<1> DEFINE D == Dos(Ws)
<1>4. Do("open") \in D /\ Do("holder") \in D /\ Do("world") \in D /\ Do("alive") \in D /\ Do("release") \in D BY <1>3
<1> HIDE DEF D
<1>5. s \in Seq(D) /\ s # <<>> /\ Head(s) = Do("open") BY <1>4 DEF ReleaseSteps
<1> HIDE DEF Ws, s, W
<1>6. Of(W, c, s) /\ Of(CalmWords, c, s) BY <1>1, <1>2, <1>5, DosOf DEF D
<1>7. InLine(c, s) BY <1>6, LooseInLine DEF W
<1> QED BY <1>5, <1>6, <1>7 DEF s

LEMMA Joined ==
  ASSUME NEW a, NEW x, NEW y
  PROVE  <<a>> \o <<x, y>> = <<a, x, y>>
<1> DEFINE S == {a, x, y}
           s == <<a>>
           t == <<x, y>>
           u == <<a, x, y>>
<1>1. s \in Seq(S) /\ Len(s) = 1 /\ s[1] = a /\ t \in Seq(S) /\ Len(t) = 2 /\ t[1] = x /\ t[2] = y OBVIOUS
<1>2. u \in Seq(S) /\ Len(u) = 3 /\ u[1] = a /\ u[2] = x /\ u[3] = y OBVIOUS
<1> HIDE DEF S, s, t, u
<1>3. /\ s \o t \in Seq(S) /\ Len(s \o t) = 3
      /\ \A i \in 1..3 : (s \o t)[i] = IF i <= 1 THEN s[i] ELSE t[i - 1]
  BY <1>1, ConcatProperties
<1>4. (s \o t)[1] = a /\ (s \o t)[2] = x /\ (s \o t)[3] = y BY <1>1, <1>3
<1>5. \A i \in 1..3 : i = 1 \/ i = 2 \/ i = 3 OBVIOUS
<1>6. s \o t = u BY <1>2, <1>3, <1>4, <1>5, SeqEqual
<1> QED BY <1>6 DEF s, t, u

LEMMA JoinedToo ==
  ASSUME NEW a, NEW b, NEW x, NEW y
  PROVE  <<a>> \o <<b>> = <<a, b>> /\ <<a, b>> \o <<x, y>> = <<a, b, x, y>> /\ <<a>> \o <<>> = <<a>>
<1> DEFINE S == {a, b, x, y}
           s == <<a, b>>
           t == <<x, y>>
           u == <<a, b, x, y>>
           s1 == <<a>>
           t1 == <<b>>
<1>1. /\ s \in Seq(S) /\ Len(s) = 2 /\ s[1] = a /\ s[2] = b /\ t \in Seq(S) /\ Len(t) = 2 /\ t[1] = x /\ t[2] = y
      /\ s1 \in Seq(S) /\ Len(s1) = 1 /\ s1[1] = a /\ t1 \in Seq(S) /\ Len(t1) = 1 /\ t1[1] = b
  OBVIOUS
<1>2. u \in Seq(S) /\ Len(u) = 4 /\ u[1] = a /\ u[2] = b /\ u[3] = x /\ u[4] = y OBVIOUS
<1> HIDE DEF S, s, t, u, s1, t1
<1>11. /\ s \o t \in Seq(S) /\ Len(s \o t) = Len(s) + Len(t)
       /\ \A i \in 1..(Len(s) + Len(t)) : (s \o t)[i] = IF i <= Len(s) THEN s[i] ELSE t[i - Len(s)]
  BY <1>1, ConcatProperties
<1>3. /\ s \o t \in Seq(S) /\ Len(s \o t) = 4
      /\ \A i \in 1..4 : (s \o t)[i] = IF i <= 2 THEN s[i] ELSE t[i - 2]
  BY <1>1, <1>11
<1>4. (s \o t)[1] = a /\ (s \o t)[2] = b /\ (s \o t)[3] = x /\ (s \o t)[4] = y BY <1>1, <1>3
<1>5. \A i \in 1..4 : i = 1 \/ i = 2 \/ i = 3 \/ i = 4 OBVIOUS
<1>6. s \o t = u BY <1>2, <1>3, <1>4, <1>5, SeqEqual
<1>12. /\ s1 \o t1 \in Seq(S) /\ Len(s1 \o t1) = Len(s1) + Len(t1)
       /\ \A i \in 1..(Len(s1) + Len(t1)) : (s1 \o t1)[i] = IF i <= Len(s1) THEN s1[i] ELSE t1[i - Len(s1)]
  BY <1>1, ConcatProperties
<1>7. s1 \o t1 \in Seq(S) /\ Len(s1 \o t1) = 2 /\ (s1 \o t1)[1] = a /\ (s1 \o t1)[2] = b
  BY <1>1, <1>12
<1>8. \A i \in 1..2 : i = 1 \/ i = 2 OBVIOUS
<1>9. s1 \o t1 = s BY <1>1, <1>7, <1>8, SeqEqual
<1>10. s1 \o <<>> = s1 BY <1>1, ConcatEmptySeq
<1> QED BY <1>6, <1>9, <1>10 DEF s, t, u, s1, t1

LEMMA ReapList ==
  ASSUME NEW c
  PROVE  ReapSteps(c) = IF c.dry THEN <<Do("kill"), Do("world"), Do("scan")>>
                        ELSE <<Do("kill"), Do("permit"), Do("world"), Do("scan")>>
<1> DEFINE a == Do("kill")
           b == Do("permit")
           x == Do("world")
           y == Do("scan")
<1>1. ReapSteps(c) = <<a>> \o (IF c.dry THEN <<>> ELSE <<b>>) \o <<x, y>> BY DEF ReapSteps
<1> HIDE DEF a, b, x, y
<1>2. ReapSteps(c) = IF c.dry THEN <<a, x, y>> ELSE <<a, b, x, y>>
  <2>1. <<a>> \o <<>> = <<a>> /\ <<a>> \o <<b>> = <<a, b>> BY JoinedToo
  <2>2. <<a>> \o <<x, y>> = <<a, x, y>> BY Joined
  <2>3. <<a, b>> \o <<x, y>> = <<a, b, x, y>> BY JoinedToo
  <2> QED BY <1>1, <2>1, <2>2, <2>3
<1> QED BY <1>2 DEF a, b, x, y

LEMMA ReapLine ==
  ASSUME NEW c, c.op = "reap"
  PROVE  /\ InLine(c, ReapSteps(c)) /\ ReapSteps(c) # <<>> /\ Head(ReapSteps(c)) = Do("kill")
         /\ Of(CalmWords, c, ReapSteps(c))
<1> DEFINE Ws == {"kill", "permit", "world", "scan"}
           s == ReapSteps(c)
           W == AllWords \ LongWords
           V == AllWords \ (LongWords \cup {"free"})
<1>1. Ws \subseteq W /\ Ws \subseteq V /\ Ws \subseteq CalmWords BY DEF CalmWords, AllWords, LongWords, ReapWords, DeskWords, CardWords
<1>2. \A w \in Ws : w \notin {"row", "put", "write", "plan"} /\ w \notin SetupWords BY DEF SetupWords
<1>3. \A w \in Ws : Do(w) \in Dos(Ws) BY DEF Dos
<1> DEFINE D == Dos(Ws)
<1>4. Do("kill") \in D /\ Do("permit") \in D /\ Do("world") \in D /\ Do("scan") \in D BY <1>3
<1> HIDE DEF D
<1> DEFINE t == <<Do("kill"), Do("world"), Do("scan")>>
           u == <<Do("kill"), Do("permit"), Do("world"), Do("scan")>>
<1>8. t \in Seq(D) /\ t # <<>> /\ Head(t) = Do("kill") /\ u \in Seq(D) /\ u # <<>> /\ Head(u) = Do("kill") BY <1>4
<1> HIDE DEF t, u
<1>5. s \in Seq(D) /\ s # <<>> /\ Head(s) = Do("kill") BY <1>8, ReapList DEF t, u
<1> HIDE DEF Ws, s, W, V
<1>6. Of(W, c, s) /\ Of(V, c, s) /\ Of(CalmWords, c, s) BY <1>1, <1>2, <1>5, DosOf DEF D
<1>7. InLine(c, s) BY <1>6, LooseInLine DEF W, V
<1> QED BY <1>5, <1>6, <1>7 DEF s

LEMMA FirstOf ==
  ASSUME NEW W, NEW c, NEW s, NEW t, Of(W, c, s), Of(W, c, t), s # <<>>
  PROVE  s \o t # <<>> /\ Head(s \o t) = Head(s)
<1>1. PICK S : s \in Seq(S) BY DEF Of
<1>2. PICK T : t \in Seq(T) BY DEF Of
<1>3. s \in Seq(S \cup T) /\ t \in Seq(S \cup T) BY <1>1, <1>2, SeqMonotonic
<1> DEFINE R == S \cup T
           u == s \o t
<1>4. /\ u \in Seq(R) /\ Len(u) = Len(s) + Len(t) /\ Len(s) \in Nat /\ Len(t) \in Nat /\ Len(s) # 0
      /\ \A i \in 1..(Len(s) + Len(t)) : u[i] = IF i <= Len(s) THEN s[i] ELSE t[i - Len(s)]
  BY <1>3, ConcatProperties
<1> HIDE DEF R, u
<1>5. 1 \in 1..(Len(s) + Len(t)) /\ 1 <= Len(s) BY <1>4
<1>6. u[1] = s[1] /\ u # <<>> BY <1>4, <1>5
<1>7. Head(u) = u[1] /\ Head(s) = s[1] BY <1>1, <1>4, <1>6, HeadTailProperties
<1> QED BY <1>6, <1>7 DEF u

LEMMA SetupLine ==
  ASSUME NEW c, c.op = "setup"
  PROVE  /\ InLine(c, SetupSteps(c)) /\ SetupSteps(c) # <<>> /\ Head(SetupSteps(c)) = Do("open")
         /\ Of(CalmWords, c, SetupSteps(c))
<1> DEFINE Ws == {"open", "welcome", "connect", "panel", "skill", "snippet"}
           s == <<Do("open"), Do("welcome"), Do("connect"), Do("panel"), Do("skill"), Do("snippet")>>
           last == <<Put(SetupDone, "1")>>
           t == IF c.dry THEN <<>> ELSE last
<1>1. Ws \subseteq MildWords
  BY DEF MildWords, AllWords, LongWords, DeskWords, SyncWords, ReapWords, SetupWords, CardWords
<1>2. \A w \in Ws : w \notin {"row", "put", "scan", "free", "write", "plan"} OBVIOUS
<1>3. \A w \in Ws : Do(w) \in Dos(Ws) BY DEF Dos
<1> DEFINE D == Dos(Ws)
<1>4. /\ Do("open") \in D /\ Do("welcome") \in D /\ Do("connect") \in D /\ Do("panel") \in D
      /\ Do("skill") \in D /\ Do("snippet") \in D
  BY <1>3
<1> HIDE DEF D
<1>5. s \in Seq(D) /\ s # <<>> /\ Head(s) = Do("open") BY <1>4
<1>6. "put" \in MildWords
  BY DEF MildWords, AllWords, LongWords, DeskWords, SyncWords, ReapWords, SetupWords, CardWords
<1>7. Of(MildWords, c, last) BY <1>6, PutSound
<1> HIDE DEF last, s, Ws
<1>8. Of(MildWords, c, t) BY <1>7, OfNone
<1>9. Of(MildWords, c, s) BY <1>1, <1>2, <1>5, DosOf DEF D
<1> HIDE DEF t
<1>10. InLine(c, s \o t) /\ Of(CalmWords, c, s \o t)
  <2>1. Of(MildWords, c, s \o t) BY <1>8, <1>9, OfAnd
  <2>2. MildWords \subseteq CalmWords BY DEF MildWords, CalmWords
  <2> QED BY <2>1, <2>2, MildInLine, OfMore
<1>11. s \o t # <<>> /\ Head(s \o t) = Head(s) BY <1>5, <1>8, <1>9, FirstOf
<1>12. SetupSteps(c) = s \o t BY DEF SetupSteps, s, t, last
<1> QED BY <1>5, <1>10, <1>11, <1>12

LEMMA ScreenProgram ==
  ASSUME NEW c, Meant(c), FromOK
  PROVE  /\ InLine(c, ScreenSteps(c))
         /\ ScreenSteps(c) # <<>> =>
              /\ Head(ScreenSteps(c)).do \in {"open", "kill"}
              /\ Head(ScreenSteps(c)).do = "open" \/ c.op = "reap"
         /\ (ScreenSteps(c) = SyncSteps /\ c.op = "sync") \/ Of(CalmWords, c, ScreenSteps(c))
<1> DEFINE s == ScreenSteps(c)
<1>1. Do("open").do = "open" /\ Do("kill").do = "kill" BY DEF Do
<1>2. CASE c.op = "screen"
  <2>1. s = <<>> BY <1>2 DEF ScreenSteps
  <2>2. Of(MildWords, c, <<>>) /\ Of(CalmWords, c, <<>>) BY OfNone
  <2> QED BY <2>1, <2>2, MildInLine
<1>3. CASE c.op = "setup"
  <2>1. s = SetupSteps(c) BY <1>3 DEF ScreenSteps, WizardSteps
  <2> QED BY <1>1, <1>3, <2>1, SetupLine
<1>4. CASE c.op = "sync"
  <2>1. s = SyncSteps BY <1>4 DEF ScreenSteps, WizardSteps, ChoreSteps
  <2> QED BY <1>1, <1>4, <2>1, SyncLine
<1>5. CASE c.op = "refresh"
  <2>1. s = RefreshSteps BY <1>5 DEF ScreenSteps, WizardSteps, ChoreSteps
  <2> QED BY <1>1, <1>5, <2>1, RefreshLine
<1>6. CASE c.op = "reap"
  <2>1. s = ReapSteps(c) BY <1>6 DEF ScreenSteps, WizardSteps, ChoreSteps
  <2> QED BY <1>1, <1>6, <2>1, ReapLine
<1>7. CASE c.op = "release"
  <2>1. s = ReleaseSteps BY <1>7 DEF ScreenSteps, WizardSteps, ChoreSteps
  <2> QED BY <1>1, <1>7, <2>1, ReleaseLine
<1>8. CASE c.op \notin {"screen", "setup", "sync", "refresh", "reap", "release"}
  <2>1. s = Program(c) BY <1>8 DEF ScreenSteps, WizardSteps, ChoreSteps
  <2>2. Phased(c, s) BY <2>1, ProgramPhased
  <2> HIDE DEF s
  <2>3. InLine(c, s) /\ s # <<>> /\ Head(s).do = "open" BY <1>8, <2>2, PhasedInLine
  <2>4. Of(DeskWords, c, s) BY <1>8, <2>2, PhasedInLine
  <2>5. DeskWords \subseteq CalmWords BY MildAre DEF CalmWords
  <2>6. Of(CalmWords, c, s) BY <2>4, <2>5, OfMore
  <2> QED BY <2>3, <2>6 DEF s
<1> QED BY <1>2, <1>3, <1>4, <1>5, <1>6, <1>7, <1>8

LEMMA ScreenStarts == ScreenInit => ScreenInv
<1> SUFFICES ASSUME ScreenInit PROVE ScreenInv OBVIOUS
<1>1. PICK w \in Worlds :
        /\ db = w.db /\ from = w.from /\ writer = None /\ work = None
        /\ \A p \in Proc : plan[p] \in w.plans[p]
        /\ plan \in [Proc -> UNION {w.plans[p] : p \in Proc}]
        /\ cmd = [p \in Proc |-> Fresh(ScreenSteps(plan[p]))]
        /\ app = Opened(w)
  BY DEF ScreenInit, StartsIn
<1>2. WellFormed(db) /\ FromOK /\ \A p \in Proc : Meant(plan[p]) BY <1>1, WorldsAssumption DEF FromOK
<1>3. cmd = [p \in Proc |-> cmd[p]] BY <1>1
<1>4. plan = [p \in Proc |-> plan[p]] BY <1>1
<1>5. ASSUME NEW p \in Proc PROVE ProcOK(p)
  <2> DEFINE P == ScreenSteps(plan[p])
  <2>1. cmd[p] = Fresh(P) BY <1>1
  <2>2. /\ InLine(plan[p], P)
        /\ P # <<>> => Head(P).do \in {"open", "kill"} /\ (Head(P).do = "open" \/ plan[p].op = "reap")
    BY <1>2, ScreenProgram
  <2> HIDE DEF P
  <2>3. Shape(cmd[p]) /\ cmd[p].left = P BY <2>1, FreshIs
  <2>4. writer # p BY <1>1, ProcAssumption
  <2> QED BY <1>2, <2>2, <2>3, <2>4 DEF ProcOK, Holds
<1>6. AppOK
  <2>1. /\ DOMAIN app = AppFields /\ app.keys = w.keys /\ app.mode = "normal" /\ app.busy = None
    BY <1>1 DEF Opened, AppFields
  <2> QED BY <2>1, ScreenAssumption DEF AppOK, Typed
<1> QED BY <1>1, <1>2, <1>3, <1>4, <1>5, <1>6 DEF ScreenInv, FileOK

\* However the full-screen board, the wizard, tb sync, the reaper, releases and commands run beside
\* each other, and wherever a command is killed: the board file is one (each card once in the order of
\* its column, no line of the log and no checklist without its card), and so is what a long transaction
\* has written, which has an owner who is in its rows; every process goes on with phases its command
\* has, under a name; and a key's command is one that may be typed.
THEOREM ScreenInvariant == ScreenSpec => []ScreenInv
BY ScreenStarts, ScreenKept, PTL DEF ScreenSpec

-----------------------------------------------------------------------------
(* On whose evidence a card moves                                          *)

\* Before a sync has asked which repository the board has, and after.
OnEvidence(p) ==
  \/ Of(CalmWords, plan[p], cmd[p].left)
  \/ plan[p].op = "sync" /\ cmd[p].left \in {SyncSteps, Tail(SyncSteps)}
  \/ Of(SyncWords, plan[p], cmd[p].left) /\ cmd[p].item \in repos
OwnInv ==
  /\ Get(db, "github") \in repos \cup {None}
  /\ app.on = "here" => app.repo \in repos \cup {None}
  /\ app.target # None => app.target.repo # None
  /\ app.slot # None => app.slot.repo # None
  /\ \A p \in Proc : OnEvidence(p)

\* What nothing has happened to, but that the board was set to one repository more.
LEMMA SameEvidence ==
  ASSUME NEW p, OnEvidence(p), cmd'[p] = cmd[p], plan'[p] = plan[p], repos \subseteq repos'
  PROVE  OnEvidence(p)'
BY DEF OnEvidence

LEMMA ReposGrow == ASSUME Records PROVE repos \subseteq repos' /\ Get(db', "github") \in repos' \cup {None}
BY DEF Records

\* How a sync begins.
LEMMA SyncTails ==
  /\ SyncSteps # <<>> /\ Head(SyncSteps).do = "open"
  /\ Tail(SyncSteps) # <<>> /\ Head(Tail(SyncSteps)).do = "repo"
  /\ \A c : c.op = "sync" => Of(SyncWords, c, Tail(Tail(SyncSteps)))
<1> DEFINE D == {Do("fetch"), Do("save"), Do("cards"), Do("lookup"), Do("linked"), Do("plan")}
           o == Do("open")
           r == Do("repo")
           rest == <<Do("fetch"), Do("save"), Do("cards"), Do("lookup"), Do("linked"), Do("plan")>>
<1>1. SyncSteps # <<>> /\ Head(SyncSteps) = o /\ Tail(SyncSteps) # <<>> /\ Head(Tail(SyncSteps)) = r
      /\ Tail(Tail(SyncSteps)) = rest
  BY DEF SyncSteps
<1>2. o.do = "open" /\ r.do = "repo" BY DEF Do
<1>3. ASSUME NEW c, c.op = "sync" PROVE Of(SyncWords, c, rest)
  <2> DEFINE Ws == {"fetch", "save", "cards", "lookup", "linked", "plan"}
             E == Dos(Ws)
  <2>1. \A w \in Ws : Do(w) \in E BY DEF Dos
  <2>2. Do("fetch") \in E /\ Do("save") \in E /\ Do("cards") \in E /\ Do("lookup") \in E /\ Do("linked") \in E /\ Do("plan") \in E
    BY <2>1
  <2>3. \A w \in Ws : w \notin {"row", "put", "scan", "free", "write"} /\ w \notin SetupWords /\ w \in SyncWords
    BY DEF SetupWords, SyncWords
  <2> HIDE DEF E
  <2>4. rest \in Seq(E) BY <2>2
  <2> HIDE DEF rest, Ws
  <2>5. Ws \subseteq SyncWords BY <2>3
  <2> QED BY <1>3, <2>3, <2>4, <2>5, DosOf DEF E
<1> HIDE DEF rest
<1> QED BY <1>1, <1>2, <1>3

LEMMA Once == ASSUME NEW p, NEW v, NEW w, At(p, v), At(p, w) PROVE v = w
BY DEF At

LEMMA DeskAt == ASSUME NEW p, DeskStep(p) PROVE Die(p) \/ \E w \in DeskWords : At(p, w)
<1>1. /\ (Open(p) => At(p, "open")) /\ (Hold(p) => At(p, "hold")) /\ (Item(p) => At(p, "item"))
      /\ (Issue(p) => At(p, "issue")) /\ (Mode(p) => At(p, "mode"))
  BY DEF Open, Hold, Item, Issue, Mode
<1>2. /\ (Write(p) => At(p, "write")) /\ (LogTick(p) => At(p, "log")) /\ (Due(p) => At(p, "due"))
      /\ (LogPast(p) => At(p, "force")) /\ (Begin(p) => At(p, "begin"))
  BY DEF Write, LogTick, Due, LogPast, Begin
<1>3. /\ (Row(p) => At(p, "row")) /\ (Commit(p) => At(p, "commit")) /\ (Ask(p) => At(p, "ask"))
      /\ (Old(p) => At(p, "old")) /\ (PutRow(p) => At(p, "put"))
  BY DEF Row, Commit, Ask, Old, PutRow
<1>4. /\ (ForgetSnap(p) => At(p, "forget")) /\ (Note(p) => At(p, "note")) /\ (ReadRules(p) => At(p, "rules"))
      /\ (MarkSeen(p) => At(p, "seen"))
  BY DEF ForgetSnap, Note, ReadRules, MarkSeen
<1>5. ASSUME Busy(p) PROVE \E w \in DeskWords : At(p, w)
  <2>1. PICK w \in {"write", "log", "due", "begin", "put", "forget", "note", "seen"} : At(p, w) BY <1>5 DEF Busy
  <2>2. w \in DeskWords BY DEF DeskWords, CardWords
  <2> QED BY <2>1, <2>2
<1>6. /\ "open" \in DeskWords /\ "hold" \in DeskWords /\ "item" \in DeskWords /\ "issue" \in DeskWords
      /\ "write" \in DeskWords /\ "log" \in DeskWords /\ "due" \in DeskWords /\ "force" \in DeskWords
      /\ "begin" \in DeskWords /\ "row" \in DeskWords /\ "commit" \in DeskWords /\ "ask" \in DeskWords
      /\ "old" \in DeskWords /\ "put" \in DeskWords /\ "forget" \in DeskWords /\ "note" \in DeskWords
      /\ "rules" \in DeskWords /\ "seen" \in DeskWords /\ "mode" \in DeskWords
  BY DEF DeskWords, CardWords
<1>7. CASE Open(p) \/ Hold(p) \/ Item(p) \/ Issue(p) \/ Mode(p) BY <1>1, <1>6, <1>7
<1>8. CASE Write(p) \/ LogTick(p) \/ Due(p) \/ LogPast(p) \/ Begin(p) BY <1>2, <1>6, <1>8
<1>9. CASE Row(p) \/ Commit(p) \/ Ask(p) \/ Old(p) \/ PutRow(p) BY <1>3, <1>6, <1>9
<1>10. CASE ForgetSnap(p) \/ Note(p) \/ ReadRules(p) \/ MarkSeen(p) BY <1>4, <1>6, <1>10
<1> QED BY <1>5, <1>7, <1>8, <1>9, <1>10 DEF DeskStep

LEMMA SetupAt == ASSUME NEW p, SetupStep(p) PROVE \E w \in SetupWords : At(p, w)
BY DEF SetupStep, Welcome, ConnectStep, Choose, PanelStep, SkillStep, SnippetStep, WriteBlock, Remember, SetupWords

LEMMA SyncAt ==
  ASSUME NEW p, SyncStep(p)
  PROVE  \/ At(p, "repo") /\ Repo(p)
         \/ At(p, "gmove") /\ GMove(p)
         \/ \E w \in {"aged", "fetch", "save", "cards", "lookup", "linked", "plan", "gnote"} : At(p, w)
BY DEF SyncStep, Repo, Aged, Fetch, Save, Cards, Lookup, Linked, Plan, GMove, GNote

LEMMA ReapAt ==
  ASSUME NEW p, ReapStep(p)
  PROVE  \/ At(p, "permit") /\ Permit(p)
         \/ At(p, "scan") /\ Scan(p)
         \/ At(p, "free") /\ Free(p)
         \/ At(p, "journal") /\ Journal(p)
         \/ At(p, "release") /\ Release(p)
         \/ At(p, "fnote") /\ FreeNote(p)
         \/ \E w \in {"kill", "world", "holder", "alive"} : At(p, w)
BY DEF ReapStep, Killed, Permit, World, Scan, Free, FreeNote, Journal, Holder, AskAlive, Release

LEMMA DieStops == ASSUME NEW p, Die(p) PROVE Stopped(p) /\ db' = db /\ plan' = plan
BY DEF Die, Stops, Stopped, Still

\* Which action a phase is.
LEMMA ActsAt ==
  ASSUME NEW p, NEW what, At(p, what), Acts(p), ~Die(p)
  PROVE  /\ what = "repo" => Repo(p)
         /\ what = "gmove" => GMove(p)
         /\ what = "permit" => Permit(p)
         /\ what = "scan" => Scan(p)
         /\ what = "free" => Free(p)
         /\ what = "fnote" => FreeNote(p)
         /\ what = "journal" => Journal(p)
         /\ what = "release" => Release(p)
         /\ what = "past" => PastHolder(p)
         /\ what = "same" => SameDate(p)
         /\ what \in DeskWords => DeskStep(p)
<1>1. CASE DeskStep(p)
  <2>1. what \in DeskWords BY <1>1, DeskAt, Once
  <2> QED BY <1>1, <2>1 DEF DeskWords, CardWords
<1>2. CASE SyncStep(p)
  <2>1. what \notin DeskWords BY <1>2, SyncAt, Once DEF DeskWords, CardWords
  <2> QED BY <1>2, <2>1, SyncAt, Once
<1>3. CASE ReapStep(p)
  <2>1. what \notin DeskWords BY <1>3, ReapAt, Once DEF DeskWords, CardWords
  <2> QED BY <1>3, <2>1, ReapAt, Once
<1>4. CASE SetupStep(p)
  <2>1. what \in SetupWords BY <1>4, SetupAt, Once
  <2> QED BY <2>1 DEF SetupWords, DeskWords, CardWords
<1>5. CASE PastHolder(p) \/ SameDate(p)
  <2>1. (what = "past" /\ PastHolder(p)) \/ (what = "same" /\ SameDate(p)) BY <1>5, Once DEF PastHolder, SameDate
  <2> QED BY <2>1 DEF DeskWords, CardWords
<1> QED BY <1>1, <1>2, <1>3, <1>4, <1>5 DEF Acts

\* Where a step leaves its process.
LEMMA StepKind ==
  ASSUME ScreenInv, NEW p \in Proc, NEW what, StepForm(p, what)
  PROVE  /\ plan' = plan /\ At(p, what) /\ cmd[p].left # <<>> /\ Head(cmd[p].left).do = what
         /\ \A q \in Proc \ {p} : cmd'[q] = cmd[q] /\ plan'[q] = plan[q]
         /\ \/ Stopped(p) /\ cmd'[p].left = <<>> /\ cmd'[p].base = None
            \/ cmd'[p].left = Tail(cmd[p].left) /\ cmd'[p].left # <<>> /\ Kept(what, cmd[p], cmd'[p])
            \/ what = "plan" /\ Of({"gmove", "gnote"}, plan[p], cmd'[p].left) /\ cmd'[p].item = cmd[p].item
            \/ what = "scan" /\ Of({"free", "fnote", "journal"}, plan[p], cmd'[p].left)
            \/ /\ what = "free" /\ Tail(cmd[p].left) # <<>> /\ cmd'[p].left = Tail(Tail(cmd[p].left))
               /\ cmd'[p].old = cmd[p].old /\ cmd'[p].base = cmd[p].base
            \/ /\ what \in SetupWords
               /\ \E steps : /\ Of(MildWords, plan[p], steps)
                             /\ cmd'[p].left \in {steps, steps \o Tail(cmd[p].left)}
<1>1. plan' = plan /\ At(p, what) /\ cmd[p].left # <<>> /\ Head(cmd[p].left).do = what BY DEF StepForm, At
<1>2. \A q \in Proc \ {p} : cmd'[q] = cmd[q] /\ plan'[q] = plan[q] BY <1>1, StepProc
<1>3. Stopped(p) \/ Passed(p, what) \/ Turned(p, what) BY DEF StepForm
<1>4. CASE Stopped(p) BY <1>1, <1>2, <1>4, StoppedIs
<1>5. CASE Passed(p, what)
  <2>1. PICK s : /\ cmd' = [cmd EXCEPT ![p] = s]
                 /\ s.left = Tail(cmd[p].left) /\ s.left # <<>> /\ Kept(what, cmd[p], s)
    BY <1>5 DEF Passed
  <2>2. cmd'[p] = s BY <2>1, PutIs
  <2> QED BY <1>1, <1>2, <2>1, <2>2
<1>6. CASE Turned(p, what)
  <2>1. PICK s : /\ cmd' = [cmd EXCEPT ![p] = s] /\ Shape(s) /\ s.left # <<>>
         /\ \/ what = "plan" /\ s.item = cmd[p].item /\ Of({"gmove", "gnote"}, plan[p], s.left)
            \/ what = "scan" /\ plan[p].dry /\ s.left = <<Do("journal")>>
            \/ /\ what = "scan" /\ ~plan[p].dry /\ s.base = cmd[p].base
               /\ \E S : /\ s.left \in Seq(S)
                         /\ \A x \in S : /\ x.do \in {"free", "fnote"}
                                         /\ \E pair \in s.old : pair[1] = x.arg /\ Dead(p, pair)
               /\ \A n \in 1..Len(s.left) : s.left[n].do = "free" => n + 1 \in 1..Len(s.left)
            \/ /\ what = "free" /\ s.old = cmd[p].old /\ s.base = cmd[p].base /\ Tail(cmd[p].left) # <<>>
               /\ s.left = Tail(Tail(cmd[p].left))
            \/ /\ what \in SetupWords
               /\ \E steps : Of(MildWords, plan[p], steps) /\ s.left \in {steps, steps \o Tail(cmd[p].left)}
    BY <1>6 DEF Turned
  <2>2. cmd'[p] = s BY <2>1, PutIs
  <2>3. CASE what = "scan" /\ s.left = <<Do("journal")>>
    <3> DEFINE W == {"free", "fnote", "journal"}
    <3>1. "journal" \in W /\ "journal" \notin SetupWords BY DEF SetupWords
    <3> HIDE DEF W
    <3>2. Of(W, plan[p], <<Do("journal")>>) BY <3>1, WordSound
    <3> QED BY <1>1, <1>2, <2>2, <2>3, <3>2 DEF W
  <2>4. CASE what = "scan" /\ \E S : s.left \in Seq(S) /\ \A x \in S : x.do \in {"free", "fnote"}
    <3> DEFINE W == {"free", "fnote", "journal"}
               c == plan[p]
    <3>1. PICK S : s.left \in Seq(S) /\ \A x \in S : x.do \in {"free", "fnote"} BY <2>4
    <3>2. c.op = "reap" BY <1>1, <2>4, Here DEF Sound
    <3>3. \A x \in S : x.do \in W /\ Sound(c, x) BY <3>1, <3>2 DEF Sound, SetupWords
    <3> HIDE DEF W, c
    <3>4. Of(W, c, s.left) BY <3>1, <3>3, OfList
    <3> QED BY <1>1, <1>2, <2>2, <2>4, <3>4 DEF W, c
  <2>5. CASE what = "plan" /\ s.item = cmd[p].item /\ Of({"gmove", "gnote"}, plan[p], s.left)
    BY <1>1, <1>2, <2>2, <2>5
  <2>6. CASE what = "free" /\ s.old = cmd[p].old /\ s.base = cmd[p].base /\ Tail(cmd[p].left) # <<>> /\ s.left = Tail(Tail(cmd[p].left))
    BY <1>1, <1>2, <2>2, <2>6
  <2>7. CASE what \in SetupWords /\ \E steps : Of(MildWords, plan[p], steps) /\ s.left \in {steps, steps \o Tail(cmd[p].left)}
    BY <1>1, <1>2, <2>2, <2>7
  <2> QED BY <2>1, <2>3, <2>4, <2>5, <2>6, <2>7
<1> QED BY <1>3, <1>4, <1>5, <1>6

LEMMA PhaseEvidence ==
  ASSUME ScreenInv, OwnInv, Records, NEW p \in Proc, Acts(p)
  PROVE  OnEvidence(p)'
<1> DEFINE c == plan[p]
           s == cmd[p].left
           t == cmd'[p].left
<1>1. PICK what : StepForm(p, what) BY ActsForm
<1>2. /\ plan' = plan /\ At(p, what) /\ s # <<>> /\ Head(s).do = what
      /\ \/ Stopped(p) /\ t = <<>>
         \/ t = Tail(s) /\ Kept(what, cmd[p], cmd'[p])
         \/ what = "plan" /\ Of({"gmove", "gnote"}, c, t) /\ cmd'[p].item = cmd[p].item
         \/ what = "scan" /\ Of({"free", "fnote", "journal"}, c, t)
         \/ what = "free" /\ Tail(s) # <<>> /\ t = Tail(Tail(s))
         \/ what \in SetupWords /\ \E steps : Of(MildWords, c, steps) /\ t \in {steps, steps \o Tail(s)}
  BY <1>1, StepKind
<1>3. OnEvidence(p) /\ repos \subseteq repos' /\ Get(db', "github") \in repos' \cup {None} BY ReposGrow DEF OwnInv
<1>4. SUFFICES \/ Of(CalmWords, c, t)
               \/ c.op = "sync" /\ t \in {SyncSteps, Tail(SyncSteps)}
               \/ Of(SyncWords, c, t) /\ cmd'[p].item \in repos'
  BY <1>2 DEF OnEvidence
<1>5. /\ {"free", "fnote", "journal"} \subseteq CalmWords /\ MildWords \subseteq CalmWords
      /\ {"gmove", "gnote"} \subseteq SyncWords
  BY DEF CalmWords, AllWords, MildWords, ReapWords, SyncWords
<1>6. CASE t = <<>> BY <1>6, OfNone
<1>7. CASE what = "scan" /\ Of({"free", "fnote", "journal"}, c, t) BY <1>5, <1>7, OfMore
<1>8. CASE Of(CalmWords, c, s)
  <2>1. Of(CalmWords, c, Tail(s)) /\ what \in CalmWords BY <1>2, <1>8, OfTail
  <2>2. what # "plan" BY <2>1 DEF CalmWords
  <2>3. Tail(s) # <<>> => Of(CalmWords, c, Tail(Tail(s))) BY <2>1, OfTail
  <2>4. ASSUME NEW steps, Of(MildWords, c, steps) PROVE Of(CalmWords, c, steps) /\ Of(CalmWords, c, steps \o Tail(s))
    BY <1>5, <2>1, <2>4, OfMore, OfAnd
  <2> QED BY <1>2, <1>6, <1>7, <2>1, <2>2, <2>3, <2>4
<1>9. CASE c.op = "sync" /\ s \in {SyncSteps, Tail(SyncSteps)}
  <2>1. what = IF s = SyncSteps THEN "open" ELSE "repo" BY <1>2, <1>9, SyncTails
  <2>2. what \notin SetupWords /\ what \notin {"plan", "scan", "free"} BY <2>1 DEF SetupWords
  <2>3. CASE s = SyncSteps /\ t = Tail(s) BY <1>9, <2>3
  <2>4. CASE s = Tail(SyncSteps) /\ s # SyncSteps /\ t = Tail(s)
    <3>1. Of(SyncWords, c, t) BY <1>9, <2>4, SyncTails
    <3>2. CASE Stopped(p) BY <1>6, <3>2, StoppedIs
    <3>3. CASE ~Stopped(p)
      <4>1. Repo(p) BY <1>2, <2>1, <2>4, <3>3, ActsAt, DieStops
      <4>2. CASE Refused(p) BY <3>3, <4>2 DEF Refused, Stops, Stopped
      <4>3. CASE Get(db, "github") # None /\ Reads(p, [cmd[p] EXCEPT !.item = Get(db, "github"), !.past = Shown(db)])
        <5>1. CASE Tail(s) = <<>> BY <1>6, <2>4, <5>1
        <5>2. CASE Tail(s) # <<>>
          <6> DEFINE g == Get(db, "github")
                     h == Shown(db)
                     u == [cmd[p] EXCEPT !.item = g, !.past = h]
                     v == [u EXCEPT !.left = Tail(@)]
          <6>1. Shape(cmd[p]) BY <1>2, Here
          <6>2. u.left = cmd[p].left BY <6>1 DEF Shape
          <6>3. cmd' = [cmd EXCEPT ![p] = v] BY <4>3, <5>2, <6>2 DEF Reads, Goes
          <6> HIDE DEF g, h
          <6>4. v.item = g BY <6>1 DEF Shape
          <6> HIDE DEF u, v
          <6>5. cmd'[p] = v BY <6>3, PutIs
          <6>6. g \in repos BY <4>3 DEF OwnInv, g
          <6> QED BY <1>3, <3>1, <6>4, <6>5, <6>6
        <5> QED BY <5>1, <5>2
      <4> QED BY <4>1, <4>2, <4>3 DEF Repo
    <3> QED BY <3>2, <3>3
  <2> QED BY <1>2, <1>6, <1>9, <2>2, <2>3, <2>4
<1>10. CASE Of(SyncWords, c, s) /\ cmd[p].item \in repos
  <2>1. Of(SyncWords, c, Tail(s)) /\ what \in SyncWords BY <1>2, <1>10, OfTail
  <2>2. what \notin SetupWords /\ what \notin {"scan", "free", "item", "mode", "rules", "repo", "holder"}
    BY <2>1 DEF SyncWords, SetupWords
  <2>3. CASE t = Tail(s) /\ Kept(what, cmd[p], cmd'[p]) BY <1>3, <1>10, <2>1, <2>2, <2>3 DEF Kept
  <2>4. CASE what = "plan" /\ Of({"gmove", "gnote"}, c, t) /\ cmd'[p].item = cmd[p].item BY <1>3, <1>5, <1>10, <2>4, OfMore
  <2> QED BY <1>2, <1>6, <2>2, <2>3, <2>4
<1> QED BY <1>3, <1>8, <1>9, <1>10 DEF OnEvidence

LEMMA LoopEvidence ==
  ASSUME ScreenInv, OwnInv, Records, UNCHANGED <<db, writer, work, from>>, Loop
  PROVE  OwnInv'
<1>1. repos \subseteq repos' /\ Get(db', "github") \in repos' \cup {None} /\ db' = db BY ReposGrow
<1>2. MildWords \subseteq CalmWords BY DEF MildWords, CalmWords
<1>3. ASSUME plan' = plan, cmd' = cmd PROVE \A p \in Proc : OnEvidence(p)' BY <1>1, <1>3, SameEvidence DEF OwnInv
<1>4. ASSUME plan'[Tui] = plan'[Tui], \A p \in Proc \ {Tui} : cmd'[p] = cmd[p] /\ plan'[p] = plan[p],
             Of(MildWords, plan'[Tui], cmd'[Tui].left)
      PROVE  \A p \in Proc : OnEvidence(p)'
  <2>1. OnEvidence(Tui)' BY <1>2, <1>4, OfMore DEF OnEvidence
  <2> QED BY <1>1, <1>4, <2>1, SameEvidence DEF OwnInv
<1>5. ASSUME RepoFrom(app, app') PROVE app'.on = "here" => app'.repo \in repos' \cup {None}
  BY <1>1, <1>5 DEF RepoFrom, OwnInv
<1>6. CASE HandleKey
  <2>1. CASE Waited BY <1>1, <1>3, <1>5, <2>1 DEF Waited, But, OwnInv
  <2>2. CASE Ran
    <3>1. PICK c, steps, then : Typed(c) /\ Of(MildWords, c, steps) /\ Runs(c, steps, then) BY <2>2 DEF Ran
    <3>2. cmd[Tui].left = <<>> BY <1>6 DEF HandleKey, Press, Idle
    <3>3. /\ plan'[Tui] = c /\ cmd'[Tui].left = steps /\ But({"mode", "busy"}, app, app')
          /\ \A p \in Proc \ {Tui} : cmd'[p] = cmd[p] /\ plan'[p] = plan[p]
      BY <3>1, <3>2, RunsKeep
    <3>4. \A p \in Proc : OnEvidence(p)' BY <1>4, <3>1, <3>3
    <3> QED BY <1>1, <3>3, <3>4 DEF But, OwnInv
  <2> QED BY <1>6, <2>1, <2>2, KeyForm
<1>7. CASE Settle
  <2>1. /\ plan' = plan /\ But({"mode", "repo", "busy"}, app, app') /\ RepoFrom(app, app')
        /\ \/ cmd' = cmd
           \/ cmd' = [cmd EXCEPT ![Tui] = [Fresh(<<Do("force")>>) EXCEPT !.past = app.past]]
    BY <1>7, SettleForm
  <2>2. \A p \in Proc : OnEvidence(p)'
    <3>1. CASE cmd' = cmd BY <1>3, <2>1, <3>1
    <3> DEFINE s == [Fresh(<<Do("force")>>) EXCEPT !.past = app.past]
    <3>2. CASE cmd' = [cmd EXCEPT ![Tui] = s]
      <4>1. \A c : Of(MildWords, c, s.left) BY ForcePhase
      <4> HIDE DEF s
      <4>2. cmd'[Tui] = s /\ \A p \in Proc \ {Tui} : cmd'[p] = cmd[p] BY <3>2, PutIs, ScreenAssumption
      <4> QED BY <1>4, <2>1, <4>1, <4>2
    <3> QED BY <2>1, <3>1, <3>2
  <2> QED BY <1>1, <1>5, <2>1, <2>2 DEF But, OwnInv
<1>8. CASE Refresh
  <2>1. plan' = plan /\ cmd' = cmd /\ But({"mode", "repo"}, app, app') /\ RepoFrom(app, app') BY <1>8, RefreshForm
  <2> QED BY <1>1, <1>3, <1>5, <2>1 DEF But, OwnInv
<1>9. CASE ThreadStarts \/ ThreadFetches
  <2>1. /\ plan' = plan /\ cmd' = cmd /\ But({"target", "slot"}, app, app')
        /\ \/ app.repo # None /\ app'.slot = app.slot /\ app'.target = [repo |-> app.repo, on |-> app.on]
           \/ \E r, seen : app.target # None /\ app'.target = None
                           /\ app'.slot = [repo |-> app.target.repo, result |-> r, seen |-> seen]
    BY <1>9, ThreadForm
  <2>2. CASE app.repo # None /\ app'.slot = app.slot /\ app'.target = [repo |-> app.repo, on |-> app.on]
    <3>1. (app'.target # None => app'.target.repo # None) /\ (app'.slot # None => app'.slot.repo # None)
      BY <2>2 DEF OwnInv
    <3> QED BY <1>1, <1>3, <2>1, <3>1 DEF But, OwnInv
  <2>3. CASE \E r, seen : app.target # None /\ app'.target = None
                          /\ app'.slot = [repo |-> app.target.repo, result |-> r, seen |-> seen]
    <3>1. (app'.target # None => app'.target.repo # None) /\ (app'.slot # None => app'.slot.repo # None)
      BY <2>3 DEF OwnInv
    <3> QED BY <1>1, <1>3, <2>1, <3>1 DEF But, OwnInv
  <2> QED BY <2>1, <2>2, <2>3
<1>10. CASE TakeFetched
  <2>1. CASE plan' = plan /\ cmd' = cmd /\ But({"slot"}, app, app') /\ app'.slot = None
    BY <1>1, <1>3, <2>1 DEF But, OwnInv
  <2>2. CASE /\ app.slot # None /\ app.slot.repo = app.repo /\ app.on = "here" /\ But({"slot", "busy"}, app, app')
             /\ app'.slot = None /\ plan' = [plan EXCEPT ![Tui] = Taken]
             /\ \E s : cmd' = [cmd EXCEPT ![Tui] = s] /\ s.left = TakenSteps /\ s.item = app.slot.repo
    <3>1. PICK s : cmd' = [cmd EXCEPT ![Tui] = s] /\ s.left = TakenSteps /\ s.item = app.slot.repo BY <2>2
    <3>2. cmd'[Tui] = s /\ \A p \in Proc \ {Tui} : cmd'[p] = cmd[p] BY <3>1, PutIs, ScreenAssumption
    <3>3. plan'[Tui] = Taken /\ \A p \in Proc \ {Tui} : plan'[p] = plan[p] BY <2>2, ScreenAssumption DEF ScreenInv
    <3>4. s.item \in repos BY <2>2, <3>1 DEF OwnInv
    <3>5. Of(SyncWords, Taken, TakenSteps) BY TakenSync
    <3>6. OnEvidence(Tui)' BY <1>1, <3>1, <3>2, <3>3, <3>4, <3>5 DEF OnEvidence
    <3>7. \A p \in Proc : OnEvidence(p)' BY <1>1, <3>2, <3>3, <3>6, SameEvidence DEF OwnInv
    <3> QED BY <1>1, <2>2, <3>7 DEF But, OwnInv
  <2> QED BY <1>10, <2>1, <2>2, TakesForm
<1> QED BY <1>6, <1>7, <1>8, <1>9, <1>10 DEF Loop

LEMMA OwnKept == ScreenInv /\ OwnInv /\ [ScreenNext]_screenVars => OwnInv'
<1> SUFFICES ASSUME ScreenInv, OwnInv, [ScreenNext]_screenVars PROVE OwnInv' OBVIOUS
<1>1. CASE ScreenNext
  <2>1. Records /\ repos \subseteq repos' /\ Get(db', "github") \in repos' \cup {None} BY <1>1, ReposGrow DEF ScreenNext
  <2>2. ASSUME NEW p \in Proc, Acts(p), NotesPast PROVE OwnInv'
    <3>1. app'.on = app.on /\ app'.repo = app.repo /\ app'.target = app.target /\ app'.slot = app.slot
      BY <2>2 DEF NotesPast, ScreenInv, AppOK, AppFields
    <3>2. OnEvidence(p)' BY <2>1, <2>2, PhaseEvidence
    <3>3. \A q \in Proc \ {p} : cmd'[q] = cmd[q] /\ plan'[q] = plan[q] BY <2>2, ActsForm, StepKind
    <3>4. \A q \in Proc : OnEvidence(q)' BY <2>1, <3>2, <3>3, SameEvidence DEF OwnInv
    <3> QED BY <2>1, <3>1, <3>4 DEF OwnInv
  <2>3. CASE NobodySteps
    <3>1. \A q \in Proc : OnEvidence(q)' BY <2>1, <2>3, SameEvidence DEF OwnInv, NobodySteps
    <3> QED BY <2>1, <2>3, <3>1 DEF OwnInv, NobodySteps
  <2> QED BY <1>1, <2>1, <2>2, <2>3, NextWho, LoopEvidence
<1>2. CASE UNCHANGED screenVars
  <2>1. db' = db /\ cmd' = cmd /\ plan' = plan /\ app' = app /\ repos' = repos
    BY <1>2 DEF screenVars, deskVars, choreVars
  <2>2. \A q \in Proc : OnEvidence(q)' BY <2>1, SameEvidence DEF OwnInv
  <2> QED BY <2>1, <2>2 DEF OwnInv
<1> QED BY <1>1, <1>2

LEMMA OwnStarts == ScreenInit => OwnInv
<1> SUFFICES ASSUME ScreenInit PROVE OwnInv OBVIOUS
<1>1. PICK w \in Worlds :
        /\ db = w.db /\ \A p \in Proc : plan[p] \in w.plans[p]
        /\ cmd = [p \in Proc |-> Fresh(ScreenSteps(plan[p]))]
        /\ repos = {Get(w.db, "github")} \ {None} /\ app = Opened(w)
  BY DEF ScreenInit, StartsIn, ChoresStart
<1>2. FromOK BY ScreenStarts DEF ScreenInv
<1>3. /\ app.on = "here" /\ app.repo = Get(db, "github") /\ app.target = None /\ app.slot = None
  BY <1>1 DEF Opened
<1>4. ASSUME NEW p \in Proc PROVE OnEvidence(p)
  <2> DEFINE P == ScreenSteps(plan[p])
  <2>1. Meant(plan[p]) BY <1>1, WorldsAssumption
  <2>2. (P = SyncSteps /\ plan[p].op = "sync") \/ Of(CalmWords, plan[p], P) BY <1>2, <2>1, ScreenProgram
  <2>3. cmd[p] = Fresh(P) BY <1>1
  <2> HIDE DEF P
  <2>4. cmd[p].left = P BY <2>3, FreshIs
  <2> QED BY <2>2, <2>4 DEF OnEvidence
<1> QED BY <1>1, <1>3, <1>4 DEF OwnInv
LEMMA MovedOnOwn == ASSUME OwnInv, NEW p \in Proc, At(p, "gmove") PROVE cmd[p].item \in repos
<1>1. OnEvidence(p) /\ cmd[p].left # <<>> /\ Head(cmd[p].left).do = "gmove" BY DEF OwnInv, At
<1>2. ~Of(CalmWords, plan[p], cmd[p].left)
  <2>1. "gmove" \notin CalmWords BY DEF CalmWords
  <2> QED BY <1>1, <2>1, OfTail
<1>3. cmd[p].left \notin {SyncSteps, Tail(SyncSteps)} BY <1>1, SyncTails
<1> QED BY <1>1, <1>2, <1>3 DEF OnEvidence

\* Whatever is fetched for whichever board, and however the board is set to another repository and
\* switched in between: a card that a sync moves, or the full-screen board with what its thread
\* fetched, moves on the evidence of a repository this board was set to (main.rs, Sync; tui.rs, run).
THEOREM MovesOnOwnEvidence == ScreenSpec => OwnEvidence
<1> DEFINE A == \A p \in Proc : At(p, "gmove") => \A i \in Id : Moved(p, i) => cmd[p].item \in repos
           Own == [][A]_<<deskVars, choreVars>>
<1>1. ScreenInit => OwnInv BY OwnStarts
<1>2. ScreenInv /\ OwnInv /\ [ScreenNext]_screenVars => OwnInv' BY OwnKept
<1>3. ScreenInv /\ OwnInv /\ [ScreenNext]_screenVars => [A]_<<deskVars, choreVars>> BY MovedOnOwn
<1>4. ScreenSpec => []ScreenInv BY ScreenInvariant
<1>5. Own => OwnEvidence BY DEF OwnEvidence
<1> HIDE DEF A
<1>6. ScreenSpec => Own BY <1>1, <1>2, <1>3, <1>4, PTL DEF ScreenSpec
<1> QED BY <1>5, <1>6
-----------------------------------------------------------------------------
(* What a form may replace                                                 *)

\* What is saved was typed over the fields the form showed.
FormWords == {"same", "write", "due"}
Saving ==
  /\ plan[Tui].op = "edit" /\ app.base # None /\ cmd[Tui].base = app.base
  /\ Of(FormWords, plan[Tui], cmd[Tui].left)
FormInv ==
  /\ app.mode = "form" => app.base # None
  /\ app.busy = "form" => cmd[Tui].left = <<>> \/ Saving

LEMMA FormActs ==
  ASSUME ScreenInv, FormInv, NEW p \in Proc, Acts(p), NotesPast
  PROVE  FormInv'
<1>1. app'.mode = app.mode /\ app'.busy = app.busy /\ app'.base = app.base
  BY DEF NotesPast, ScreenInv, AppOK, AppFields
<1>2. PICK what : StepForm(p, what) BY ActsForm
<1>3. /\ plan' = plan /\ cmd[p].left # <<>> /\ Head(cmd[p].left).do = what
      /\ \A q \in Proc \ {p} : cmd'[q] = cmd[q]
      /\ \/ cmd'[p].left = <<>>
         \/ cmd'[p].left = Tail(cmd[p].left) /\ Kept(what, cmd[p], cmd'[p])
         \/ what \in {"plan", "scan", "free"} \cup SetupWords
  BY <1>2, StepKind
<1>4. CASE p # Tui
  <2>1. cmd'[Tui] = cmd[Tui] BY <1>3, <1>4, ScreenAssumption
  <2> QED BY <1>1, <1>3, <2>1 DEF FormInv, Saving
<1>5. CASE p = Tui /\ app.busy = "form"
  <2>1. Saving BY <1>3, <1>5 DEF FormInv
  <2>2. Of(FormWords, plan[Tui], Tail(cmd[Tui].left)) /\ what \in FormWords BY <1>3, <1>5, <2>1, OfTail DEF Saving
  <2>3. what \notin {"plan", "scan", "free", "cards", "world"} \cup SetupWords BY <2>2 DEF FormWords, SetupWords
  <2>4. CASE cmd'[Tui].left = <<>> BY <1>1, <2>4 DEF FormInv
  <2>5. CASE cmd'[Tui].left = Tail(cmd[Tui].left) /\ Kept(what, cmd[Tui], cmd'[Tui])
    <3>1. cmd'[Tui].base = cmd[Tui].base BY <2>3, <2>5 DEF Kept
    <3> QED BY <1>1, <1>3, <2>1, <2>2, <2>5, <3>1 DEF FormInv, Saving
  <2> QED BY <1>3, <1>5, <2>3, <2>4, <2>5
<1> QED BY <1>1, <1>4, <1>5 DEF FormInv

LEMMA FormLoop ==
  ASSUME ScreenInv, FormInv, UNCHANGED <<db, writer, work, from>>, Loop
  PROVE  FormInv'
<1>1. ASSUME cmd[Tui].left = <<>>, cmd' = cmd, app'.mode \in {app.mode, "normal"}, app'.base = app.base
      PROVE  FormInv'
  BY <1>1 DEF FormInv
<1>2. CASE HandleKey
  <2>1. cmd[Tui].left = <<>> BY <1>2 DEF HandleKey, Press, Idle
  <2>2. CASE Waited BY <2>1, <2>2 DEF Waited, BaseFrom, FormInv
  <2>3. CASE Ran
    <3>1. PICK c, steps, then :
            /\ Typed(c) /\ Of(MildWords, c, steps) /\ Runs(c, steps, then)
            /\ then = "form" => app.mode = "form" /\ c.op = "edit" /\ Of({"same", "write", "due"}, c, steps)
      BY <2>3 DEF Ran
    <3>2. /\ plan'[Tui] = c /\ cmd'[Tui].left = steps /\ cmd'[Tui].base = app.base /\ app'.base = app.base
          /\ app'.busy = then /\ app'.mode \in {app.mode, "normal"}
      BY <2>1, <3>1, RunsKeep DEF But
    <3>3. then = "form" => Saving' BY <3>1, <3>2 DEF FormInv, Saving, FormWords
    <3> QED BY <3>2, <3>3 DEF FormInv
  <2> QED BY <1>2, <2>2, <2>3, KeyForm
<1>3. CASE Settle
  <2>1. /\ cmd[Tui].left = <<>> /\ app'.mode \in {app.mode, "normal"} /\ app'.base = app.base
        /\ cmd' = cmd \/ app'.busy = "never"
    BY <1>3, SettleForm DEF But
  <2> QED BY <1>1, <2>1 DEF FormInv
<1>4. CASE Refresh
  <2>1. cmd[Tui].left = <<>> BY <1>4 DEF Refresh, Idle
  <2> QED BY <1>1, <1>4, <2>1, RefreshForm DEF But
<1>5. CASE ThreadStarts \/ ThreadFetches
  <2>1. plan' = plan /\ cmd' = cmd /\ But({"target", "slot"}, app, app') BY <1>5, ThreadForm
  <2> QED BY <2>1 DEF But, FormInv, Saving
<1>6. CASE TakeFetched
  <2>1. /\ cmd[Tui].left = <<>> /\ app'.mode = app.mode /\ app'.base = app.base
        /\ cmd' = cmd \/ app'.busy = "always"
    BY <1>6, TakesForm DEF But
  <2> QED BY <1>1, <2>1 DEF FormInv
<1> QED BY <1>2, <1>3, <1>4, <1>5, <1>6 DEF Loop

LEMMA FormKept == ScreenInv /\ FormInv /\ [ScreenNext]_screenVars => FormInv'
<1> SUFFICES ASSUME ScreenInv, FormInv, [ScreenNext]_screenVars PROVE FormInv' OBVIOUS
<1>1. CASE ScreenNext
  <2>1. CASE NobodySteps BY <2>1 DEF NobodySteps, FormInv, Saving
  <2> QED BY <1>1, <2>1, NextWho, FormActs, FormLoop
<1>2. CASE UNCHANGED screenVars BY <1>2 DEF screenVars, deskVars, FormInv, Saving
<1> QED BY <1>1, <1>2

LEMMA FormStarts == ScreenInit => FormInv
BY ScreenAssumption DEF ScreenInit, Opened, FormInv
\* What a save leaves of a card's words.
LEMMA LoggedCard == ASSUME NEW d, WellFormed(d), NEW i, NEW by, NEW kind PROVE Logged(d, i, by, kind).card = d.card
BY DEF WellFormed, Logged

LEMMA SetDueText ==
  ASSUME NEW d, WellFormed(d), NEW i, Exists(d, i), NEW by, NEW due \in Said, NEW j \in Id
  PROVE  Exists(d, j) => /\ SetDue(d, i, by, due).card[j].title = d.card[j].title
                         /\ SetDue(d, i, by, due).card[j].desc = d.card[j].desc
<1> DEFINE r == [d.card[i] EXCEPT !.due = due]
           e == [d EXCEPT !.card[i] = r]
<1>1. i \in Id /\ d.card[i] \in CardRow BY InItsColumn
<1>2. r \in CardRow /\ r.col = d.card[i].col /\ r.title = d.card[i].title /\ r.desc = d.card[i].desc BY <1>1 DEF CardRow
<1>3. SetDue(d, i, by, due) \in {d, Logged(e, i, by, "due")} BY DEF SetDue
<1> HIDE DEF r
<1>4. WellFormed(e) BY <1>1, <1>2, RowKept
<1>5. e.card[j] = IF j = i THEN r ELSE d.card[j] BY <1>1 DEF WellFormed, Placed
<1> HIDE DEF e
<1>6. Logged(e, i, by, "due").card = e.card BY <1>4, LoggedCard
<1> QED BY <1>2, <1>3, <1>5, <1>6

LEMMA EditedText ==
  ASSUME NEW d, WellFormed(d), NEW i, Exists(d, i), NEW by, NEW base, NEW title \in Said, NEW desc \in Said, NEW j \in Id,
         Exists(d, j)
  PROVE  LET e == Edited(d, i, by, base, title, desc)
         IN /\ e.card[j].title # d.card[j].title => j = i /\ Writes(base, "title", title) /\ e.card[j].title = title
            /\ e.card[j].desc # d.card[j].desc => j = i /\ Writes(base, "desc", desc) /\ e.card[j].desc = desc
<1> DEFINE r == [d.card[i] EXCEPT !.title = IF Writes(base, "title", title) THEN title ELSE @]
           f == [d EXCEPT !.card[i] = r]
           q == [f.card[i] EXCEPT !.desc = IF Writes(base, "desc", desc) THEN desc ELSE @]
           e == [f EXCEPT !.card[i] = q]
<1>1. i \in Id /\ d.card[i] \in CardRow BY InItsColumn
<1>2. /\ r \in CardRow /\ r.col = d.card[i].col /\ r.owner = d.card[i].owner /\ r.desc = d.card[i].desc
      /\ r.title = IF Writes(base, "title", title) THEN title ELSE d.card[i].title
  BY <1>1 DEF CardRow
<1>3. Edited(d, i, by, base, title, desc) = Logged(e, i, by, "edit") BY DEF Edited
<1> HIDE DEF r
<1>4. WellFormed(f) BY <1>1, <1>2, RowKept
<1>5. \A k \in Id : f.card[k] = IF k = i THEN r ELSE d.card[k] BY <1>1 DEF WellFormed, Placed
<1>6. Exists(f, i) BY <1>1, <1>2, <1>4, <1>5, WroteRow, UnmovedRow DEF Unmoved
<1> HIDE DEF f
<1>7. /\ q \in CardRow /\ q.col = f.card[i].col /\ q.owner = f.card[i].owner /\ q.title = r.title
      /\ q.desc = IF Writes(base, "desc", desc) THEN desc ELSE r.desc
  BY <1>1, <1>2, <1>5 DEF CardRow
<1> HIDE DEF q
<1>8. WellFormed(e) BY <1>1, <1>4, <1>6, <1>7, RowKept
<1>9. e.card[j] = IF j = i THEN q ELSE f.card[j] BY <1>1, <1>4 DEF WellFormed, Placed
<1> HIDE DEF e
<1>10. Logged(e, i, by, "edit").card = e.card BY <1>8, LoggedCard
<1>11. f.card[j] = IF j = i THEN r ELSE d.card[j] BY <1>5
<1> QED BY <1>2, <1>3, <1>7, <1>9, <1>10, <1>11
LEMMA WriteAt ==
  ASSUME NEW p, DeskStep(p), ~Die(p), NEW w \in {"write", "due"}, At(p, w)
  PROVE  Busy(p) \/ (w = "write" /\ Write(p)) \/ (w = "due" /\ Due(p))
<1>1. ~Open(p) /\ ~Hold(p) /\ ~Item(p) /\ ~Issue(p) /\ ~Mode(p) BY Once DEF Open, Hold, Item, Issue, Mode
<1>2. ~LogTick(p) /\ ~LogPast(p) /\ ~Begin(p) BY Once DEF LogTick, LogPast, Begin
<1>3. ~Row(p) /\ ~Commit(p) /\ ~Ask(p) /\ ~Old(p) /\ ~PutRow(p) BY Once DEF Row, Commit, Ask, Old, PutRow
<1>4. ~ForgetSnap(p) /\ ~Note(p) /\ ~ReadRules(p) /\ ~MarkSeen(p) BY Once DEF ForgetSnap, Note, ReadRules, MarkSeen
<1>5. (Write(p) => At(p, "write")) /\ (Due(p) => At(p, "due")) BY DEF Write, Due
<1>6. (Write(p) => w = "write") /\ (Due(p) => w = "due") BY <1>5, Once
<1> QED BY <1>1, <1>2, <1>3, <1>4, <1>6 DEF DeskStep

LEMMA SavedText ==
  ASSUME ScreenInv, Saving, Acts(Tui), NEW i \in Id, Exists(db, i)
  PROVE  /\ db'.card[i].title # db.card[i].title => db.card[i].title = app.base.title
         /\ db'.card[i].desc # db.card[i].desc => db.card[i].desc = app.base.desc
<1> DEFINE c == plan[Tui]
           s == cmd[Tui]
<1>1. PICK what : StepForm(Tui, what) BY ActsForm, ScreenAssumption
<1>2. At(Tui, what) /\ what \in FormWords
  <2>1. At(Tui, what) /\ cmd[Tui].left # <<>> /\ Head(cmd[Tui].left).do = what BY <1>1 DEF StepForm, At
  <2> QED BY <2>1, OfTail DEF Saving
<1>3. WellFormed(db) /\ Meant(c) BY ScreenAssumption DEF ScreenInv, FileOK, ProcOK
<1>4. c.op = "edit" /\ c.title \in Said /\ c.desc \in Said /\ c.due \in Said /\ s.base = app.base /\ app.base # None
  BY <1>3 DEF Meant, Saving
<1>5. CASE db' = db BY <1>5
<1>6. CASE ~Die(Tui) /\ what = "same" BY <1>2, <1>5, <1>6, ActsAt DEF SameDate, Reads, Refused
<1>7. CASE ~Die(Tui) /\ what \in {"write", "due"}
  <2>1. DeskStep(Tui)
    <3>1. what \in DeskWords BY <1>7 DEF DeskWords, CardWords
    <3> QED BY <1>2, <1>7, <3>1, ActsAt
  <2>2. CASE Busy(Tui) BY <1>5, <2>2 DEF Busy, Refused
  <2>3. CASE Write(Tui) /\ db' # db
    <3>1. Takes(db, c, s) /\ db' = Effect(db, c, s) BY <2>3 DEF Write, Commits, Refused, C
    <3>2. Effect(db, c, s) = Edited(db, c.card, c.by, s.base, c.title, c.desc) BY <1>4 DEF Effect
    <3>3. Exists(db, c.card) /\ MayEdit(db.card[c.card], s.base, c.title, c.desc) BY <1>4, <3>1 DEF Takes
    <3> DEFINE k == c.card   by == c.by   base == s.base   title == c.title   desc == c.desc
               e == Edited(db, k, by, base, title, desc)
    <3>4. ~Conflict(db.card[k], base, "title", title) /\ ~Conflict(db.card[k], base, "desc", desc)
          /\ title \in Said /\ desc \in Said /\ base # None /\ base = app.base
      BY <1>4, <3>3 DEF MayEdit
    <3>5. Exists(db, k) /\ db' = e BY <3>1, <3>2, <3>3
    <3> HIDE DEF k, by, base, title, desc
    <3>6. /\ e.card[i].title # db.card[i].title => i = k /\ Writes(base, "title", title) /\ e.card[i].title = title
          /\ e.card[i].desc # db.card[i].desc => i = k /\ Writes(base, "desc", desc) /\ e.card[i].desc = desc
      BY <1>3, <3>4, <3>5, EditedText
    <3> HIDE DEF e
    <3> QED BY <3>4, <3>5, <3>6 DEF Conflict
  <2>4. CASE Due(Tui) /\ db' # db
    <3> DEFINE k == About(Tui)   by == c.by   due == c.due
    <3>1. Exists(db, k) /\ db' = SetDue(db, k, by, due) /\ due \in Said BY <1>4, <2>4 DEF Due, Commits, Refused, C
    <3> HIDE DEF k, by, due
    <3> QED BY <1>3, <3>1, SetDueText
  <2> QED BY <1>2, <1>5, <1>7, <2>1, <2>2, <2>3, <2>4, WriteAt
<1> QED BY <1>2, <1>5, <1>6, <1>7, DieStops DEF FormWords

LEMMA SavedOver ==
  ASSUME ScreenInv, FormInv, [ScreenNext]_screenVars, app.busy = "form", cmd'[Tui] # cmd[Tui],
         NEW i \in Id, Exists(db, i)
  PROVE  /\ db'.card[i].title # db.card[i].title => db.card[i].title = app.base.title
         /\ db'.card[i].desc # db.card[i].desc => db.card[i].desc = app.base.desc
<1>1. ScreenNext BY DEF screenVars, deskVars
<1>2. CASE db' = db BY <1>2
<1>3. ASSUME NEW p \in Proc, Acts(p)
      PROVE  /\ db'.card[i].title # db.card[i].title => db.card[i].title = app.base.title
             /\ db'.card[i].desc # db.card[i].desc => db.card[i].desc = app.base.desc
  <2>1. p = Tui /\ cmd[Tui].left # <<>> BY <1>3, ActsForm, StepKind, ScreenAssumption
  <2> QED BY <1>3, <2>1, SavedText DEF FormInv
<1> QED BY <1>1, <1>2, <1>3, NextWho DEF NobodySteps

\* Whatever others write to a card while its form is open on the full-screen board: a title or a
\* description the form replaces is the one it showed (tui.rs, Mode::Edit; store.rs, edit_tagged).
THEOREM FormsKeepNewer == ScreenSpec => EditKeepsNewer
<1> DEFINE A == \A i \in Id : \A field \in {"title", "desc"} :
                   /\ app.busy = "form" /\ cmd'[Tui] # cmd[Tui] /\ Exists(db, i) /\ Exists(db', i)
                   /\ db'.card[i][field] # db.card[i][field]
                   => db.card[i][field] = app.base[field]
           Keeps2 == [][A]_screenVars
<1>1. ScreenInit => FormInv BY FormStarts
<1>2. ScreenInv /\ FormInv /\ [ScreenNext]_screenVars => FormInv' BY FormKept
<1>3. ScreenInv /\ FormInv /\ [ScreenNext]_screenVars => [A]_screenVars
  <2> SUFFICES ASSUME ScreenInv, FormInv, [ScreenNext]_screenVars, NEW i \in Id, NEW field \in {"title", "desc"},
                      app.busy = "form", cmd'[Tui] # cmd[Tui], Exists(db, i), db'.card[i][field] # db.card[i][field]
               PROVE  db.card[i][field] = app.base[field]
    OBVIOUS
  <2> QED BY SavedOver
<1>4. ScreenSpec => []ScreenInv BY ScreenInvariant
<1>5. Keeps2 => EditKeepsNewer BY DEF EditKeepsNewer
<1> HIDE DEF A
<1>6. ScreenSpec => Keeps2 BY <1>1, <1>2, <1>3, <1>4, PTL DEF ScreenSpec
<1> QED BY <1>5, <1>6
-----------------------------------------------------------------------------
(* What the reaper's log says                                              *)

\* Of a (card, owner) who wrote in a later second than it was named: a line still says so.
Remembered(pair) ==
  /\ pair[1] \in Nat /\ pair[1] < db.next /\ pair \in Flagged
  /\ Has(db, pair[1]) => WroteLater(Lines(db), pair)
Clocked == "ticks" \in DOMAIN machine /\ machine.ticks \in Seq(Nat)
LogInv ==
  /\ Clocked /\ (\E S : journal \in Seq(S))
  /\ Journalled(machine.ticks, journal) /\ \A pair \in wrote : Remembered(pair)

\* From one step to the next the reaper's log is only added to, and so are the seconds that passed.
Added ==
  /\ DOMAIN journal \subseteq DOMAIN journal' /\ DOMAIN journal' \subseteq Nat
  /\ \A n \in DOMAIN journal : journal'[n] = journal[n]
  /\ \A m \in DOMAIN journal : \A n \in DOMAIN journal' \ DOMAIN journal : m < n
Passing ==
  /\ Len(machine.ticks) <= Len(machine'.ticks)
  /\ \A n \in 1..Len(machine.ticks) : machine'.ticks[n] = machine.ticks[n]

LEMMA ClockStep ==
  ASSUME ScreenNext, "ticks" \in DOMAIN machine
  PROVE  "ticks" \in DOMAIN machine' /\ machine'.ticks \in {machine.ticks, Append(machine.ticks, db.eid)}
<1>1. CASE machine' = machine BY <1>1
<1>2. ASSUME NEW m, DOMAIN m = DOMAIN machine, m.ticks = machine.ticks, machine' \in {m, Pass(m)}
      PROVE  "ticks" \in DOMAIN machine' /\ machine'.ticks \in {machine.ticks, Append(machine.ticks, db.eid)}
  <2>1. DOMAIN Pass(m) = DOMAIN m /\ Pass(m).ticks = Append(m.ticks, db.eid) BY <1>2 DEF Pass
  <2> QED BY <1>2, <2>1
<1>3. ASSUME NEW m, DOMAIN m = DOMAIN machine, m.ticks \in {machine.ticks, Append(machine.ticks, db.eid)}, News(m)
      PROVE  "ticks" \in DOMAIN machine' /\ machine'.ticks \in {machine.ticks, Append(machine.ticks, db.eid)}
  <2>1. machine' = [m EXCEPT !.news = @ - 1] BY <1>3 DEF News, Around
  <2>2. DOMAIN machine' = DOMAIN m /\ machine'.ticks = m.ticks BY <1>3, <2>1
  <2> QED BY <1>3, <2>2
<1>4. CASE Tick
  <2> DEFINE m == [machine EXCEPT !.day = @ + 1]
  <2>1. machine' = Pass(m) BY <1>4 DEF Tick, Around
  <2>2. DOMAIN m = DOMAIN machine /\ m.ticks = machine.ticks OBVIOUS
  <2> HIDE DEF m
  <2> QED BY <1>2, <2>1, <2>2
<1>5. CASE Second
  <2> DEFINE m == Pass(machine)
  <2>1. DOMAIN m = DOMAIN machine /\ m.ticks = Append(machine.ticks, db.eid) BY DEF Pass
  <2>2. News(m) BY <1>5 DEF Second
  <2> HIDE DEF m
  <2> QED BY <1>3, <2>1, <2>2
<1>6. ASSUME NEW field \in {"kill", "ledger", "vouch"}, NEW v, News([machine EXCEPT ![field] = v])
      PROVE  "ticks" \in DOMAIN machine' /\ machine'.ticks \in {machine.ticks, Append(machine.ticks, db.eid)}
  <2> DEFINE m == [machine EXCEPT ![field] = v]
  <2>1. DOMAIN m = DOMAIN machine /\ m.ticks = machine.ticks OBVIOUS
  <2>2. News(m) BY <1>6
  <2> HIDE DEF m
  <2> QED BY <1>3, <2>1, <2>2
<1>7. CASE Disable BY <1>6, <1>7 DEF Disable
<1>8. CASE WriteLedger BY <1>6, <1>8 DEF WriteLedger
<1>9. ASSUME NEW n, Ends(n) \/ Comes(n)
      PROVE  "ticks" \in DOMAIN machine' /\ machine'.ticks \in {machine.ticks, Append(machine.ticks, db.eid)}
  <2>1. CASE Ends(n) BY <1>6, <2>1 DEF Ends
  <2>2. CASE Comes(n) BY <1>6, <2>2 DEF Comes
  <2> QED BY <1>9, <2>1, <2>2
<1>10. CASE Edits BY <1>6, <1>10 DEF Edits
<1>11. ASSUME NEW p \in Proc, SyncStep(p) \/ ReapStep(p) \/ SetupStep(p) PROVE machine' = machine
  <2>1. CASE SyncStep(p) BY <2>1, SyncAlone DEF Alone
  <2>2. CASE ReapStep(p) BY <2>2, ReapAlone DEF Alone, Journal
  <2>3. CASE SetupStep(p) BY <2>3, SetupAlone DEF Alone
  <2> QED BY <1>11, <2>1, <2>2, <2>3
<1>12. CASE WizardStep
  <2>1. CASE ChoresStep BY <1>1, <1>4, <1>5, <1>7, <1>8, <1>9, <1>11, <2>1 DEF ChoresStep, Outside, Alone
  <2> QED BY <1>1, <1>10, <1>11, <1>12, <2>1 DEF WizardStep
<1> QED BY <1>1, <1>12 DEF ScreenNext

LEMMA ClockRuns ==
  ASSUME ScreenNext, Clocked, db.eid \in Nat
  PROVE  Clocked' /\ Passing
<1>1. "ticks" \in DOMAIN machine' /\ machine'.ticks \in {machine.ticks, Append(machine.ticks, db.eid)}
  BY ClockStep DEF Clocked
<1> DEFINE s == machine.ticks
           t == machine'.ticks
<1>2. s \in Seq(Nat) /\ t \in {s, Append(s, db.eid)} BY <1>1 DEF Clocked
<1> HIDE DEF s, t
<1>3. /\ t \in Seq(Nat) /\ Len(s) <= Len(t)
      /\ \A n \in 1..Len(s) : t[n] = s[n]
  BY <1>2, AppendProperties, LenProperties
<1> QED BY <1>1, <1>3 DEF Clocked, Passing, s, t

\* What was in a later second stays so.
LEMMA LaterStays ==
  ASSUME Clocked, Clocked', Passing, NEW e, NEW at \in Nat, Later(e, at)
  PROVE  Later(e, at)'
<1> DEFINE s == machine.ticks
           t == machine'.ticks
<1>1. at < Len(s) /\ e.eid >= s[at + 1] /\ Len(s) \in Nat /\ Len(t) \in Nat BY LenProperties DEF Clocked, Later
<1>2. Len(s) <= Len(t) /\ \A n \in 1..Len(s) : t[n] = s[n] BY DEF Passing
<1>3. at + 1 \in 1..Len(s) BY <1>1
<1>4. t[at + 1] = s[at + 1] BY <1>2, <1>3
<1>5. at < Len(t) BY <1>1, <1>2
<1> QED BY <1>1, <1>4, <1>5 DEF Later

LEMMA NextGrows == ASSUME ScreenInv, ScreenNext PROVE WellFormed(db') /\ WellFormed(db) /\ Grows(db, db')
<1>1. WellFormed(db) /\ Grows(db, db) BY Unwritten DEF ScreenInv, FileOK
<1>2. CASE db' = db BY <1>1, <1>2
<1>3. ASSUME NEW p \in Proc, Acts(p) PROVE WellFormed(db') /\ Grows(db, db')
  <2>1. PICK what : StepForm(p, what) BY <1>3, ActsForm
  <2> QED BY <1>1, <2>1 DEF StepForm, Short, Dropped, Begins, Fills, Closes
<1> QED BY <1>1, <1>2, <1>3, NextWho DEF NobodySteps

LEMMA JournalGrows ==
  ASSUME ScreenInv, LogInv, ScreenNext
  PROVE  /\ Added /\ (\E S : journal' \in Seq(S))
         /\ Clocked' /\ Passing /\ Journalled(machine'.ticks, journal')
<1>1. PICK S : journal \in Seq(S) BY DEF LogInv
<1>2. DOMAIN journal = 1..Len(journal) /\ Len(journal) \in Nat BY <1>1, LenProperties
<1>3. Clocked' /\ Passing
  <2>1. db.eid \in Nat BY NextGrows DEF WellFormed, Lined
  <2> QED BY <2>1, ClockRuns DEF LogInv
<1> DEFINE then == Len(machine.ticks)
           now == Len(machine'.ticks)
<1>4. then \in Nat /\ now \in Nat /\ then <= now BY <1>3, LenProperties DEF LogInv, Clocked, Passing
<1>5. \A n \in DOMAIN journal : journal[n].at \in Nat /\ journal[n].at <= then BY DEF LogInv, Journalled
<1>6. ASSUME NEW entries, \A n \in DOMAIN entries : entries[n].at \in Nat /\ entries[n].at <= now
      PROVE  Journalled(machine'.ticks, entries)
  BY <1>6 DEF Journalled
<1>8. ASSUME NEW p \in Proc, Journal(p)
      PROVE  journal' = Append(journal, [day |-> machine.day, at |-> then, dead |-> cmd[p].old, current |-> TRUE])
  BY <1>8 DEF Journal
<1> HIDE DEF then, now
<1>9. \A n \in DOMAIN journal : journal[n].at \in Nat /\ journal[n].at <= now BY <1>4, <1>5
<1>10. CASE journal' = journal BY <1>1, <1>2, <1>3, <1>6, <1>9, <1>10 DEF Added
<1>11. ASSUME NEW p \in Proc, Journal(p)
       PROVE  Added /\ (\E T : journal' \in Seq(T)) /\ Journalled(machine'.ticks, journal')
  <2> DEFINE r == [day |-> machine.day, at |-> then, dead |-> cmd[p].old, current |-> TRUE]
             T == S \cup {r}
  <2>1. journal' = Append(journal, r) BY <1>8, <1>11
  <2>2. r.at = then /\ r \in T OBVIOUS
  <2> HIDE DEF r
  <2>3. journal \in Seq(T) BY <1>1, SeqMonotonic
  <2> HIDE DEF T
  <2>4. /\ journal' \in Seq(T) /\ Len(journal') = Len(journal) + 1
        /\ \A n \in 1..Len(journal) : journal'[n] = journal[n]
        /\ journal'[Len(journal) + 1] = r
    BY <2>1, <2>2, <2>3, AppendProperties
  <2>5. DOMAIN journal' = 1..(Len(journal) + 1) BY <2>4, LenProperties
  <2>6. Added BY <1>2, <2>4, <2>5 DEF Added
  <2>7. \A n \in DOMAIN journal' : n \in DOMAIN journal \/ n = Len(journal) + 1 BY <1>2, <2>5
  <2>8. \A n \in DOMAIN journal' : journal'[n].at \in Nat /\ journal'[n].at <= now
    BY <1>2, <1>4, <1>9, <2>2, <2>4, <2>7
  <2> QED BY <1>6, <2>4, <2>6, <2>8
<1> QED BY <1>3, <1>10, <1>11, NextWho

LEMMA EarliestIs ==
  ASSUME NEW S, S \subseteq Nat, S # {}
  PROVE  Earliest(S) \in S /\ \A m \in S : Earliest(S) <= m
BY Least DEF Earliest

\* Who was named stays named, since when they were.
LEMMA FlagsKeep ==
  ASSUME LogInv, Added, NEW pair \in Flagged
  PROVE  pair \in Flagged' /\ FirstFlag(pair)' = FirstFlag(pair) /\ FirstFlag(pair) \in Nat
<1>1. DOMAIN journal \subseteq Nat BY DEF Added
<1>2. Flags(pair) # {} /\ Flags(pair) \subseteq DOMAIN journal BY DEF Flagged, Flags, Current
<1>3. Flags(pair) \subseteq Flags(pair)' BY DEF Flags, Current, Added
<1>4. \A n \in Flags(pair)' : n \in Flags(pair) \/ n \in DOMAIN journal' \ DOMAIN journal BY DEF Flags, Current, Added
<1>5. Flags(pair)' \subseteq Nat BY DEF Flags, Current, Added
<1> DEFINE F == Flags(pair)
           G == Flags(pair)'
<1>6. F \subseteq Nat /\ F # {} /\ G \subseteq Nat /\ G # {} BY <1>1, <1>2, <1>3, <1>5
<1>7. \A n \in G : n \in F \/ n \in DOMAIN journal' \ DOMAIN journal BY <1>4
<1>8. F \subseteq G /\ F \subseteq DOMAIN journal BY <1>2, <1>3
<1>9. pair \in Flagged' BY <1>2, <1>3 DEF Flagged, Flags, Current
<1>10. FirstFlag(pair) = journal[Earliest(F)].at /\ FirstFlag(pair)' = journal'[Earliest(G)].at
  BY DEF FirstFlag, Earliest
<1> HIDE DEF F, G
<1>11. Earliest(F) \in F /\ (\A m \in F : Earliest(F) <= m) /\ Earliest(G) \in G /\ \A m \in G : Earliest(G) <= m
  BY <1>6, EarliestIs
<1> DEFINE f == Earliest(F)
           g == Earliest(G)
<1>12. f \in F /\ (\A m \in F : f <= m) /\ g \in G /\ (\A m \in G : g <= m) BY <1>11
<1> HIDE DEF f, g
<1>13. f \in Nat /\ g \in Nat /\ g <= f BY <1>6, <1>8, <1>12
<1>14. g \in F
  <2>1. CASE g \in DOMAIN journal' \ DOMAIN journal
    <3>1. f < g BY <1>8, <1>12, <2>1 DEF Added
    <3> QED BY <1>13, <3>1
  <2> QED BY <1>7, <1>12, <2>1
<1>15. g = f BY <1>12, <1>13, <1>14
<1>16. f \in DOMAIN journal /\ journal'[f] = journal[f] BY <1>8, <1>12 DEF Added
<1>17. journal[f].at \in Nat BY <1>16 DEF LogInv, Journalled
<1>18. FirstFlag(pair) = journal[f].at /\ FirstFlag(pair)' = journal'[g].at BY <1>10 DEF f, g
<1> QED BY <1>9, <1>15, <1>16, <1>17, <1>18

LEMMA LogNext == ASSUME ScreenInv, LogInv, ScreenNext PROVE LogInv'
<1>1. /\ Added /\ (\E S : journal' \in Seq(S))
      /\ Clocked' /\ Passing /\ Journalled(machine'.ticks, journal') /\ Clocked
  BY JournalGrows DEF LogInv
<1>2. WellFormed(db') /\ WellFormed(db) /\ Grows(db, db') BY NextGrows
<1>3. /\ db.next \in Nat /\ db'.next \in Nat /\ db.next <= db'.next
      /\ \A e \in Lines(db') : e.card \in Nat /\ e.card < db'.next
  <2>1. db.next \in Nat /\ db'.next \in Nat /\ db.next <= db'.next BY <1>2 DEF WellFormed, Placed, Grows
  <2>2. \A e \in Lines(db') : e.card \in Nat /\ e.card < db'.next BY <1>2, HasIs
  <2> QED BY <2>1, <2>2
<1>4. ASSUME NEW pair, pair \in Flagged, NEW e \in Lines(db'), e.card = pair[1], e.by = pair[2], Later(e, FirstFlag(pair))
      PROVE  pair \in Flagged' /\ WroteLater(Lines(db), pair)'
  <2>1. pair \in Flagged' /\ FirstFlag(pair)' = FirstFlag(pair) /\ FirstFlag(pair) \in Nat BY <1>1, <1>4, FlagsKeep
  <2>2. PICK at \in Nat : at = FirstFlag(pair) BY <2>1
  <2>3. Later(e, at)' BY <1>1, <1>4, <2>2, LaterStays
  <2>4. Later(e, FirstFlag(pair))' BY <2>1, <2>2, <2>3 DEF Later
  <2> QED BY <1>4, <2>1, <2>4 DEF WroteLater, Lines
<1>5. ASSUME NEW pair \in wrote' PROVE Remembered(pair)'
  <2>1. CASE pair \in wrote
    <3>1. Remembered(pair) BY <2>1 DEF LogInv
    <3>2. pair \in Flagged' BY <1>1, <3>1, FlagsKeep DEF Remembered
    <3>3. pair[1] \in Nat /\ pair[1] < db'.next BY <1>3, <3>1 DEF Remembered
    <3>4. ASSUME Has(db', pair[1]) PROVE WroteLater(Lines(db), pair)'
      <4>1. Has(db, pair[1]) BY <1>2, <1>3, <3>1, <3>4 DEF Grows, Remembered
      <4>2. PICK e \in Lines(db) : e.card = pair[1] /\ e.by = pair[2] /\ Later(e, FirstFlag(pair))
        BY <3>1, <4>1 DEF Remembered, WroteLater
      <4>3. e \in Lines(db') BY <1>2, <3>4, <4>2 DEF Grows
      <4> QED BY <1>4, <3>1, <4>2, <4>3 DEF Remembered
    <3>5. Has(db, pair[1])' => WroteLater(Lines(db), pair)' BY <3>4 DEF Has, Exists
    <3> QED BY <3>2, <3>3, <3>5 DEF Remembered
  <2>2. CASE pair \notin wrote
    <3>1. pair \in Flagged /\ WroteLater({e \in Lines(db') : e.eid >= db.eid}, pair) BY <2>2 DEF ScreenNext, Records
    <3>2. PICK e \in Lines(db') : e.card = pair[1] /\ e.by = pair[2] /\ Later(e, FirstFlag(pair))
      BY <3>1 DEF WroteLater
    <3>3. pair \in Flagged' /\ WroteLater(Lines(db), pair)' BY <1>4, <3>1, <3>2
    <3>4. pair[1] \in Nat /\ pair[1] < db'.next BY <1>3, <3>2
    <3> QED BY <3>3, <3>4 DEF Remembered
  <2> QED BY <2>1, <2>2
<1> QED BY <1>1, <1>5 DEF LogInv
-----------------------------------------------------------------------------
(* On what proof a card is freed                                           *)

QuietWords == AllWords \ {"scan", "free"}
\* It has not asked yet whether it may.
Ahead(p) ==
  LET s == cmd[p].left
  IN /\ s # <<>>
     /\ Head(s).do = "permit" \/ (Head(s).do = "kill" /\ Tail(s) # <<>> /\ Head(Tail(s)).do = "permit")
\* What is left is to free cards whose owners its scan found dead.
Doomed(p) ==
  \E S : /\ cmd[p].left \in Seq(S)
         /\ \A x \in S : /\ x.do \in {"free", "fnote"}
                         /\ \E pair \in cmd[p].old : pair[1] = x.arg /\ Dead(p, pair)
Allowed(p) ==
  \/ Of(QuietWords, plan[p], cmd[p].left)
  \/ Of(QuietWords \cup {"scan"}, plan[p], cmd[p].left) /\ (plan[p].dry \/ ~plan[p].agent \/ Ahead(p))
  \/ ~plan[p].dry /\ ~plan[p].agent /\ Doomed(p)

LEMMA QuietAre ==
  /\ MildWords \cup SyncWords \subseteq QuietWords /\ {"journal"} \subseteq QuietWords
  /\ QuietWords \subseteq QuietWords \cup {"scan"}
BY DEF QuietWords, MildWords, AllWords, SyncWords, ReapWords

\* Whom its scan found dead stays so for the command that scanned.
LEMMA SameDead ==
  ASSUME NEW p, plan'[p] = plan[p], cmd'[p].base = cmd[p].base
  PROVE  \A pair : Dead(p, pair) => Dead(p, pair)'
BY DEF Dead, Vouched

\* Where a scan leaves a reaper.
LEMMA ScanKind ==
  ASSUME ScreenInv, NEW p \in Proc, StepForm(p, "scan")
  PROVE  \/ cmd'[p].left = <<>> \/ cmd'[p].left = Tail(cmd[p].left) \/ cmd'[p].left = <<Do("journal")>>
         \/ ~plan[p].dry /\ Doomed(p)'
<1>1. CASE Stopped(p) BY <1>1, StoppedIs
<1>2. CASE Passed(p, "scan")
  <2>1. PICK s : cmd' = [cmd EXCEPT ![p] = s] /\ s.left = Tail(cmd[p].left) BY <1>2 DEF Passed
  <2> QED BY <2>1, PutIs
<1>3. CASE Turned(p, "scan")
  <2>1. PICK s : /\ cmd' = [cmd EXCEPT ![p] = s]
                 /\ \/ s.left = <<Do("journal")>>
                    \/ /\ ~plan[p].dry /\ s.base = cmd[p].base
                       /\ \E S : /\ s.left \in Seq(S)
                                 /\ \A x \in S : /\ x.do \in {"free", "fnote"}
                                                 /\ \E pair \in s.old : pair[1] = x.arg /\ Dead(p, pair)
    <3>1. "scan" \notin SetupWords BY DEF SetupWords
    <3> QED BY <1>3, <3>1 DEF Turned
  <2>2. cmd'[p] = s BY <2>1, PutIs
  <2>3. plan' = plan BY DEF StepForm
  <2>4. s.base = cmd[p].base => \A pair : Dead(p, pair) => Dead(p, pair)' BY <2>2, <2>3, SameDead
  <2> QED BY <2>1, <2>2, <2>4 DEF Doomed
<1> QED BY <1>1, <1>2, <1>3 DEF StepForm

LEMMA DoomedTail ==
  ASSUME NEW p, Doomed(p), cmd[p].left # <<>>, plan'[p] = plan[p]
  PROVE  /\ Head(cmd[p].left).do \in {"free", "fnote"}
         /\ \E pair \in cmd[p].old : pair[1] = Head(cmd[p].left).arg /\ Dead(p, pair)
         /\ /\ cmd'[p].old = cmd[p].old /\ cmd'[p].base = cmd[p].base
            /\ \/ cmd'[p].left = Tail(cmd[p].left)
               \/ Tail(cmd[p].left) # <<>> /\ cmd'[p].left = Tail(Tail(cmd[p].left))
            => Doomed(p)'
<1>1. PICK S : /\ cmd[p].left \in Seq(S)
               /\ \A x \in S : /\ x.do \in {"free", "fnote"}
                               /\ \E pair \in cmd[p].old : pair[1] = x.arg /\ Dead(p, pair)
  BY DEF Doomed
<1>2. Head(cmd[p].left) \in S /\ Tail(cmd[p].left) \in Seq(S) BY <1>1, HeadTailProperties
<1>3. Tail(cmd[p].left) # <<>> => Tail(Tail(cmd[p].left)) \in Seq(S) BY <1>2, HeadTailProperties
<1>4. cmd'[p].base = cmd[p].base => \A pair : Dead(p, pair) => Dead(p, pair)' BY SameDead
<1> QED BY <1>1, <1>2, <1>3, <1>4 DEF Doomed

LEMMA AllowedActs ==
  ASSUME ScreenInv, NEW p \in Proc, Allowed(p), Acts(p)
  PROVE  Allowed(p)'
<1> DEFINE c == plan[p]
           s == cmd[p].left
           t == cmd'[p].left
           W == QuietWords \cup {"scan"}
<1>1. PICK what : StepForm(p, what) BY ActsForm
<1>2. /\ plan' = plan /\ At(p, what) /\ s # <<>> /\ Head(s).do = what
      /\ \/ Stopped(p) /\ t = <<>>
         \/ t = Tail(s) /\ t # <<>> /\ Kept(what, cmd[p], cmd'[p])
         \/ what = "plan" /\ Of({"gmove", "gnote"}, c, t)
         \/ what = "scan"
         \/ /\ what = "free" /\ Tail(s) # <<>> /\ t = Tail(Tail(s))
            /\ cmd'[p].old = cmd[p].old /\ cmd'[p].base = cmd[p].base
         \/ what \in SetupWords /\ \E steps : Of(MildWords, c, steps) /\ t \in {steps, steps \o Tail(s)}
  BY <1>1, StepKind
<1>3. SUFFICES \/ Of(QuietWords, c, t)
               \/ Of(W, c, t) /\ (c.dry \/ ~c.agent \/ Ahead(p)')
               \/ ~c.dry /\ ~c.agent /\ Doomed(p)'
  BY <1>2 DEF Allowed
<1>4. CASE t = <<>> BY <1>4, OfNone
<1>5. CASE what = "plan" /\ Of({"gmove", "gnote"}, c, t)
  <2>1. {"gmove", "gnote"} \subseteq QuietWords BY DEF QuietWords, AllWords, SyncWords
  <2> QED BY <1>5, <2>1, OfMore
<1>6. CASE Of(QuietWords, c, s)
  <2>1. Of(QuietWords, c, Tail(s)) /\ what \in QuietWords BY <1>2, <1>6, OfTail
  <2>2. what \notin {"scan", "free"} BY <2>1 DEF QuietWords
  <2>3. ASSUME NEW steps, Of(MildWords, c, steps) PROVE Of(QuietWords, c, steps) /\ Of(QuietWords, c, steps \o Tail(s))
    BY <2>1, <2>3, QuietAre, OfMore, OfAnd
  <2> QED BY <1>2, <1>4, <1>5, <2>1, <2>2, <2>3
<1>7. CASE Of(W, c, s) /\ (c.dry \/ ~c.agent \/ Ahead(p))
  <2>1. Of(W, c, Tail(s)) /\ what \in W BY <1>2, <1>7, OfTail
  <2>2. what # "free" BY <2>1 DEF QuietWords
  <2>3. CASE t = Tail(s) /\ (c.dry \/ ~c.agent) BY <2>1, <2>3
  <2>4. CASE t = Tail(s) /\ t # <<>> /\ Ahead(p) /\ ~(c.dry \/ ~c.agent)
    <3>1. CASE what = "kill" BY <1>2, <2>1, <2>4, <3>1 DEF Ahead
    <3>2. CASE what = "permit"
      <4>1. ~Stopped(p) BY <2>4, StoppedIs
      <4>2. Permit(p) BY <1>2, <3>2, <4>1, ActsAt, DieStops
      <4>3. ~Refused(p) BY <4>1 DEF Refused, Stops, Stopped
      <4> QED BY <2>4, <4>2, <4>3 DEF Permit, MayApply, C
    <3> QED BY <1>2, <2>4, <3>1, <3>2 DEF Ahead
  <2>5. CASE what = "scan"
    <3>1. c.dry \/ ~c.agent BY <1>2, <1>7, <2>5 DEF Ahead
    <3>2. StepForm(p, "scan") BY <1>1, <2>5
    <3>3. CASE t = <<Do("journal")>>
      <4>1. "journal" \in QuietWords BY QuietAre
      <4>2. Of(QuietWords, c, <<Do("journal")>>) BY <4>1, WordSound DEF SetupWords
      <4> QED BY <3>3, <4>2
    <3> QED BY <1>4, <2>3, <3>1, <3>2, <3>3, ScanKind
  <2>6. CASE what \in SetupWords /\ \E steps : Of(MildWords, c, steps) /\ t \in {steps, steps \o Tail(s)}
    <3>1. PICK steps : Of(MildWords, c, steps) /\ t \in {steps, steps \o Tail(s)} BY <2>6
    <3>2. Of(QuietWords, c, steps) /\ Of(W, c, steps) BY <3>1, QuietAre, OfMore
    <3>3. Of(W, c, steps \o Tail(s)) BY <2>1, <3>2, OfAnd
    <3>4. c.dry \/ ~c.agent BY <1>2, <1>7, <2>6 DEF Ahead, SetupWords
    <3> QED BY <3>1, <3>2, <3>3, <3>4
  <2> QED BY <1>2, <1>4, <1>5, <2>2, <2>3, <2>4, <2>5, <2>6, <1>7
<1>8. CASE ~c.dry /\ ~c.agent /\ Doomed(p)
  <2>1. what \in {"free", "fnote"} BY <1>2, <1>8, DoomedTail
  <2>2. what \notin SetupWords BY <2>1 DEF SetupWords
  <2>3. CASE t = Tail(s) /\ Kept(what, cmd[p], cmd'[p])
    <3>1. cmd'[p].old = cmd[p].old /\ cmd'[p].base = cmd[p].base BY <2>1, <2>3 DEF Kept
    <3> QED BY <1>2, <1>8, <2>3, <3>1, DoomedTail
  <2>4. CASE Tail(s) # <<>> /\ t = Tail(Tail(s)) /\ cmd'[p].old = cmd[p].old /\ cmd'[p].base = cmd[p].base
    BY <1>2, <1>8, <2>4, DoomedTail
  <2> QED BY <1>2, <1>4, <2>1, <2>2, <2>3, <2>4
<1> QED BY <1>6, <1>7, <1>8 DEF Allowed
\* What the loop of the full-screen board begins frees nobody's card.
LEMMA LoopTurn ==
  ASSUME ScreenInv, UNCHANGED <<db, writer, work, from>>, Loop
  PROVE  \/ plan' = plan /\ cmd' = cmd
         \/ /\ cmd[Tui].left = <<>> /\ Of(QuietWords, plan'[Tui], cmd'[Tui].left)
            /\ \A p \in Proc \ {Tui} : cmd'[p] = cmd[p] /\ plan'[p] = plan[p]
<1>1. CASE HandleKey
  <2>1. cmd[Tui].left = <<>> BY <1>1 DEF HandleKey, Press, Idle
  <2>2. CASE Waited BY <2>2 DEF Waited
  <2>3. CASE Ran
    <3>1. PICK c, steps, then : Typed(c) /\ Of(MildWords, c, steps) /\ Runs(c, steps, then) BY <2>3 DEF Ran
    <3>2. Of(QuietWords, c, steps) BY <3>1, QuietAre, OfMore
    <3>3. /\ plan'[Tui] = c /\ cmd'[Tui].left = steps
          /\ \A p \in Proc \ {Tui} : cmd'[p] = cmd[p] /\ plan'[p] = plan[p]
      BY <2>1, <3>1, RunsKeep
    <3> QED BY <2>1, <3>2, <3>3
  <2> QED BY <1>1, <2>2, <2>3, KeyForm
<1>2. CASE Settle
  <2>1. /\ plan' = plan /\ cmd[Tui].left = <<>>
        /\ cmd' = cmd \/ cmd' = [cmd EXCEPT ![Tui] = [Fresh(<<Do("force")>>) EXCEPT !.past = app.past]]
    BY <1>2, SettleForm
  <2> DEFINE s == [Fresh(<<Do("force")>>) EXCEPT !.past = app.past]
  <2>2. CASE cmd' = [cmd EXCEPT ![Tui] = s]
    <3>1. \A c : Of(MildWords, c, s.left) BY ForcePhase
    <3> HIDE DEF s
    <3>2. cmd'[Tui] = s /\ \A p \in Proc \ {Tui} : cmd'[p] = cmd[p] BY <2>2, PutIs, ScreenAssumption
    <3>3. Of(QuietWords, plan'[Tui], s.left) BY <3>1, QuietAre, OfMore
    <3> QED BY <2>1, <3>2, <3>3
  <2> QED BY <2>1, <2>2
<1>3. CASE Refresh BY <1>3, RefreshForm
<1>4. CASE ThreadStarts \/ ThreadFetches BY <1>4, ThreadForm
<1>5. CASE TakeFetched
  <2>1. cmd[Tui].left = <<>> BY <1>5, TakesForm
  <2>2. CASE /\ plan' = [plan EXCEPT ![Tui] = Taken]
             /\ \E s : cmd' = [cmd EXCEPT ![Tui] = s] /\ s.left = TakenSteps
    <3>1. PICK s : cmd' = [cmd EXCEPT ![Tui] = s] /\ s.left = TakenSteps BY <2>2
    <3>2. cmd'[Tui] = s /\ \A p \in Proc \ {Tui} : cmd'[p] = cmd[p] BY <3>1, PutIs, ScreenAssumption
    <3>3. plan'[Tui] = Taken /\ \A p \in Proc \ {Tui} : plan'[p] = plan[p] BY <2>2, ScreenAssumption DEF ScreenInv
    <3>4. Of(QuietWords, Taken, TakenSteps) BY TakenSync, QuietAre, OfMore
    <3> QED BY <2>1, <3>1, <3>2, <3>3, <3>4
  <2> QED BY <1>5, <2>2, TakesForm
<1> QED BY <1>1, <1>2, <1>3, <1>4, <1>5 DEF Loop

FreeInv == LogInv /\ \A p \in Proc : Allowed(p)

LEMMA FreeKept == ScreenInv /\ FreeInv /\ [ScreenNext]_screenVars => FreeInv'
<1> SUFFICES ASSUME ScreenInv, FreeInv, [ScreenNext]_screenVars PROVE FreeInv' OBVIOUS
<1>1. ASSUME NEW p \in Proc, cmd'[p] = cmd[p], plan'[p] = plan[p] PROVE Allowed(p)'
  <2>1. \A pair : Dead(p, pair) => Dead(p, pair)' BY <1>1, SameDead
  <2> QED BY <1>1, <2>1 DEF FreeInv, Allowed, Ahead, Doomed
<1>2. CASE ScreenNext
  <2>1. LogInv' BY <1>2, LogNext DEF FreeInv
  <2>2. ASSUME NEW p \in Proc, Acts(p) PROVE \A q \in Proc : Allowed(q)'
    <3>1. Allowed(p)' BY <2>2, AllowedActs DEF FreeInv
    <3>2. \A q \in Proc \ {p} : cmd'[q] = cmd[q] /\ plan'[q] = plan[q] BY <2>2, ActsForm, StepKind
    <3> QED BY <1>1, <3>1, <3>2
  <2>3. CASE Loop /\ UNCHANGED <<db, writer, work, from>>
    <3>1. Of(QuietWords, plan'[Tui], cmd'[Tui].left) => Allowed(Tui)' BY DEF Allowed
    <3>2. \A q \in Proc : Allowed(q)' BY <1>1, <2>3, <3>1, LoopTurn
    <3> QED BY <2>1, <3>2 DEF FreeInv
  <2>4. CASE NobodySteps
    <3>1. \A q \in Proc : Allowed(q)' BY <1>1, <2>4 DEF NobodySteps
    <3> QED BY <2>1, <3>1 DEF FreeInv
  <2> QED BY <1>2, <2>1, <2>2, <2>3, <2>4, NextWho DEF FreeInv
<1>3. CASE UNCHANGED screenVars
  <2>1. db' = db /\ cmd' = cmd /\ plan' = plan /\ journal' = journal /\ wrote' = wrote /\ machine' = machine
    BY <1>3 DEF screenVars, deskVars, choreVars
  <2>2. LogInv'
    <3>1. Flagged' = Flagged /\ \A pair : Flags(pair)' = Flags(pair) BY <2>1 DEF Flagged, Flags, Current
    <3>2. \A pair : FirstFlag(pair)' = FirstFlag(pair) BY <2>1, <3>1 DEF FirstFlag, Earliest
    <3>3. \A pair : WroteLater(Lines(db), pair) => WroteLater(Lines(db), pair)' BY <2>1, <3>2 DEF WroteLater, Lines, Later
    <3>4. \A pair : Has(db, pair[1])' => Has(db, pair[1]) BY <2>1 DEF Has, Exists
    <3>5. \A pair : Remembered(pair) => Remembered(pair)' BY <2>1, <3>1, <3>3, <3>4 DEF Remembered
    <3> QED BY <2>1, <3>5 DEF FreeInv, LogInv, Clocked, Journalled
  <2> QED BY <1>1, <2>1, <2>2 DEF FreeInv
<1> QED BY <1>2, <1>3

LEMMA FreeStarts == ScreenInit => FreeInv
<1> SUFFICES ASSUME ScreenInit PROVE FreeInv OBVIOUS
<1>1. PICK w \in Worlds :
        /\ db = w.db /\ \A p \in Proc : plan[p] \in w.plans[p]
        /\ cmd = [p \in Proc |-> Fresh(ScreenSteps(plan[p]))]
        /\ machine = w.machine /\ journal = w.journal /\ wrote = {}
  BY DEF ScreenInit, StartsIn, ChoresStart
<1>2. FromOK BY ScreenStarts DEF ScreenInv
<1>3. LogInv BY <1>1, ChoresAssumption DEF LogInv, Clocked
<1>4. ASSUME NEW p \in Proc PROVE Allowed(p)
  <2> DEFINE c == plan[p]
             P == ScreenSteps(c)
             W == QuietWords \cup {"scan"}
  <2>1. Meant(c) BY <1>1, WorldsAssumption
  <2>2. cmd[p] = Fresh(P) BY <1>1
  <2>3. InLine(c, P) BY <1>2, <2>1, ScreenProgram
  <2>4. CASE c.op # "reap"
    <3> HIDE DEF P
    <3>1. cmd[p].left = P BY <2>2, FreshIs
    <3>2. PICK S : P \in Seq(S) /\ \A x \in S : x.do \in AllWords /\ Sound(c, x) BY <2>3 DEF InLine, Of
    <3>3. \A x \in S : x.do \in QuietWords BY <2>4, <3>2 DEF Sound, QuietWords
    <3>4. Of(QuietWords, c, P) BY <3>2, <3>3 DEF Of
    <3> QED BY <3>1, <3>4 DEF Allowed
  <2>5. CASE c.op = "reap"
    <3> DEFINE Ws == {"kill", "permit", "world", "scan"}
               D == Dos(Ws)
               k == Do("kill")
               m == Do("permit")
               r == Do("world")
               n == Do("scan")
    <3>1. Ws \subseteq W BY DEF QuietWords, AllWords, ReapWords
    <3>2. \A x \in Ws : x \notin {"row", "put", "write", "plan"} /\ x \notin SetupWords BY DEF SetupWords
    <3>3. k \in D /\ m \in D /\ r \in D /\ n \in D BY DEF Dos
    <3>4. k.do = "kill" /\ m.do = "permit" BY DEF Do
    <3>5. P = IF c.dry THEN <<k, r, n>> ELSE <<k, m, r, n>>
      <4>1. P = ReapSteps(c) BY <2>5 DEF ScreenSteps, WizardSteps, ChoreSteps
      <4> QED BY <4>1, ReapList
    <3> HIDE DEF k, m, r, n, D, P
    <3>6. P \in Seq(D) BY <3>3, <3>5
    <3>7. cmd[p].left = P BY <2>2, FreshIs
    <3> HIDE DEF W, Ws, c
    <3>8. Of(W, c, P) BY <2>5, <3>1, <3>2, <3>6, DosOf DEF D
    <3>9. ASSUME ~c.dry PROVE Ahead(p)
      <4> DEFINE u == <<k, m, r, n>>
      <4>1. P = u BY <3>5, <3>9
      <4>2. u # <<>> /\ Head(u) = k /\ Tail(u) = <<m, r, n>> OBVIOUS
      <4>3. Tail(u) # <<>> /\ Head(Tail(u)) = m BY <4>2
      <4> HIDE DEF u
      <4> QED BY <4>1, <4>2, <4>3, <3>4, <3>7 DEF Ahead
    <3> QED BY <3>7, <3>8, <3>9 DEF Allowed, W, c
  <2> QED BY <2>4, <2>5
<1> QED BY <1>3, <1>4 DEF FreeInv
\* A process at one of its phases that moves is the one that steps.
LEMMA SteppedAt ==
  ASSUME ScreenInv, [ScreenNext]_screenVars, NEW p \in Proc, cmd[p].left # <<>>, cmd'[p] # cmd[p]
  PROVE  Acts(p)
<1>1. ScreenNext BY DEF screenVars, deskVars
<1>2. ASSUME NEW q \in Proc, Acts(q), q # p PROVE FALSE
  <2>1. PICK what : StepForm(q, what) BY <1>2, ActsForm
  <2> QED BY <1>2, <2>1, StepKind
<1>3. ~(Loop /\ UNCHANGED <<db, writer, work, from>>) BY LoopTurn
<1> QED BY <1>1, <1>2, <1>3, NextWho DEF NobodySteps

\* Where the reaper is let go on, nobody it named is known to have written since.
LEMMA LetOn ==
  ASSUME ScreenInv, FreeInv, NEW p \in Proc, Acts(p), At(p, "permit"), cmd'[p].end = None
  PROVE  /\ \A pair \in wrote : ~Exists(db, pair[1])
         /\ \E n \in DOMAIN journal : journal[n].current /\ journal[n].day + MinDays <= machine.day
<1>1. ~Stopped(p) BY StoppedIs, ProcAssumption
<1>2. Permit(p) BY <1>1, ActsAt, DieStops
<1>3. ~Refused(p) BY <1>1 DEF Refused, Stops, Stopped
<1>4. MayApply(C(p)) BY <1>2, <1>3 DEF Permit
<1>5. Current \subseteq DOMAIN journal /\ Current \subseteq Nat
  <2>1. PICK S : journal \in Seq(S) BY DEF FreeInv, LogInv
  <2>2. DOMAIN journal \subseteq Nat BY <2>1, LenProperties
  <2> QED BY <2>2 DEF Current
<1> DEFINE n == Earliest(Current)
<1>6. n \in Current BY <1>4, <1>5, EarliestIs DEF MayApply
<1>7. machine.day >= journal[n].day + MinDays BY <1>4 DEF MayApply
<1> HIDE DEF n
<1>8. n \in DOMAIN journal /\ journal[n].current /\ journal[n].day + MinDays <= machine.day
  BY <1>5, <1>6, <1>7 DEF Current
<1>9. ASSUME NEW pair \in wrote, Exists(db, pair[1]) PROVE FALSE
  <2>1. pair \in Flagged /\ WroteLater(Lines(db), pair) BY <1>9 DEF FreeInv, LogInv, Remembered, Has
  <2>2. WellFormed(db) BY DEF ScreenInv, FileOK
  <2>3. \A e \in Lines(db) : e.card = pair[1] => e \in db.log BY <1>9, <2>2 DEF WellFormed, Lined, Shelved, Lines
  <2>4. pair \in FalsePositives BY <2>1, <2>3 DEF FalsePositives, WroteLater
  <2> QED BY <1>4, <2>4 DEF MayApply
<1> QED BY <1>8, <1>9

\* Only the card that is freed changes its column.
LEMMA OneMoves ==
  ASSUME ScreenInv, NEW i, Exists(db, i), NEW by \in STRING \cup {Unset}, db' = MoveTo(db, i, by, "todo", None),
         NEW j \in Id, db'.card[j].col # db.card[j].col
  PROVE  j = i
<1> DEFINE d == MoveTo(db, i, by, "todo", None)
<1>1. WellFormed(db) BY DEF ScreenInv, FileOK
<1>2. "todo" \in Column /\ None \in STRING \cup {None} BY DEF Column
<1>3. Acted(db, d, i, by) BY <1>1, <1>2, MoveToKept
<1>4. db' = d OBVIOUS
<1> HIDE DEF d
<1>5. ASSUME FreedOf(db, d, i, j) PROVE d.card[j].col = db.card[j].col
  <2>1. db.card[j] \in CardRow BY <1>1, <1>5, InItsColumn DEF FreedOf
  <2> QED BY <1>5, <2>1 DEF FreedOf, CardRow
<1> QED BY <1>3, <1>4, <1>5 DEF Acted, Alike

\* What the reaper frees is a card whose owner its scan found dead.
LEMMA FreesDead ==
  ASSUME ScreenInv, FreeInv, NEW p \in Proc, Acts(p), At(p, "free"), NEW i \in Id, Moved(p, i)
  PROVE  /\ ~plan[p].dry /\ ~plan[p].agent
         /\ \E pair \in cmd[p].old : pair[1] = i /\ Dead(p, pair)
<1>1. ~Die(p) BY DieStops DEF Moved
<1>2. Free(p) BY <1>1, ActsAt
<1>3. db' # db BY DEF Moved
<1> DEFINE j == Arg(p)
<1>4. Exists(db, j) /\ db' = MoveTo(db, j, Reaper, "todo", None) BY <1>2, <1>3 DEF Free, Commits
<1>5. Reaper \in STRING \cup {Unset} BY ChoresAssumption
<1>6. j = Head(cmd[p].left).arg BY DEF Arg
<1> HIDE DEF j
<1>7. i = j BY <1>4, <1>5, OneMoves DEF Moved
<1>8. cmd[p].left # <<>> /\ Head(cmd[p].left).do = "free" BY DEF At
<1>9. ~Of(QuietWords \cup {"scan"}, plan[p], cmd[p].left) /\ ~Of(QuietWords, plan[p], cmd[p].left)
  <2> DEFINE W == QuietWords \cup {"scan"}
  <2>1. "free" \notin W /\ "free" \notin QuietWords BY DEF QuietWords
  <2> HIDE DEF W
  <2>2. ~Of(W, plan[p], cmd[p].left) /\ ~Of(QuietWords, plan[p], cmd[p].left) BY <1>8, <2>1, OfTail
  <2> QED BY <2>2 DEF W
<1>10. ~plan[p].dry /\ ~plan[p].agent /\ Doomed(p) BY <1>9 DEF FreeInv, Allowed
<1>11. plan' = plan BY <1>2 DEF Free, Still
<1> QED BY <1>6, <1>7, <1>8, <1>10, <1>11, DoomedTail

\* What tb release frees is held by who it asked about.
LEMMA ReleasesHeld ==
  ASSUME ScreenInv, NEW p \in Proc, Acts(p), At(p, "release"), NEW i \in Id, Moved(p, i)
  PROVE  db.card[i].owner = cmd[p].item
<1>1. ~Die(p) BY DieStops DEF Moved
<1>2. Release(p) BY <1>1, ActsAt
<1>3. db' # db BY DEF Moved
<1> DEFINE j == C(p).card
           by == C(p).by
<1>4. Exists(db, j) /\ db.card[j].owner = cmd[p].item /\ db' = MoveTo(db, j, by, "todo", None)
  BY <1>2, <1>3 DEF Release, Commits, StillHeld, Refused
<1>5. by \in STRING \cup {Unset}
  <2>1. cmd[p].left # <<>> BY DEF At
  <2> QED BY Here DEF C, At
<1> HIDE DEF j, by
<1>6. i = j BY <1>4, <1>5, OneMoves DEF Moved
<1> QED BY <1>4, <1>6

\* The reaper goes on only past enough days of dry runs and past every owner known to have
\* written since it was named, frees only cards its scan found dead, live and outside an agent,
\* and tb release frees a card only from the holder it asked about, whoever writes in between
\* (tb_reap.rs, apply_refusals and scan_board; release.rs).
THEOREM FreesOnlyDead == ScreenSpec => FreedOnlyDead
<1> DEFINE A == \A p \in Proc :
                  /\ At(p, "permit") /\ cmd'[p] # cmd[p] /\ cmd'[p].end = None =>
                       /\ \A pair \in wrote : ~Exists(db, pair[1])
                       /\ \E n \in DOMAIN journal : journal[n].current /\ journal[n].day + MinDays <= machine.day
                  /\ At(p, "free") => \A i \in Id : Moved(p, i) =>
                       /\ ~plan[p].dry /\ ~plan[p].agent
                       /\ \E pair \in cmd[p].old : pair[1] = i /\ Dead(p, pair)
                  /\ At(p, "release") => \A i \in Id : Moved(p, i) => db.card[i].owner = cmd[p].item
           Freed == [][A]_<<deskVars, choreVars>>
<1>1. ScreenInit => FreeInv BY FreeStarts
<1>2. ScreenInv /\ FreeInv /\ [ScreenNext]_screenVars => FreeInv' BY FreeKept
<1>3. ScreenInv /\ FreeInv /\ [ScreenNext]_screenVars => [A]_<<deskVars, choreVars>>
  <2> SUFFICES ASSUME ScreenInv, FreeInv, [ScreenNext]_screenVars PROVE A OBVIOUS
  <2> SUFFICES ASSUME NEW p \in Proc
               PROVE  /\ At(p, "permit") /\ cmd'[p] # cmd[p] /\ cmd'[p].end = None =>
                           /\ \A pair \in wrote : ~Exists(db, pair[1])
                           /\ \E n \in DOMAIN journal : journal[n].current /\ journal[n].day + MinDays <= machine.day
                      /\ At(p, "free") => \A i \in Id : Moved(p, i) =>
                           /\ ~plan[p].dry /\ ~plan[p].agent
                           /\ \E pair \in cmd[p].old : pair[1] = i /\ Dead(p, pair)
                      /\ At(p, "release") => \A i \in Id : Moved(p, i) => db.card[i].owner = cmd[p].item
    OBVIOUS
  <2>1. ASSUME NEW what, At(p, what), cmd'[p] # cmd[p] PROVE Acts(p)
    <3>1. cmd[p].left # <<>> BY <2>1 DEF At
    <3> QED BY <2>1, <3>1, SteppedAt
  <2>2. ASSUME NEW i, Moved(p, i) PROVE cmd'[p] # cmd[p] BY <2>2 DEF Moved
  <2>3. ASSUME At(p, "permit"), cmd'[p] # cmd[p], cmd'[p].end = None
        PROVE  /\ \A pair \in wrote : ~Exists(db, pair[1])
               /\ \E n \in DOMAIN journal : journal[n].current /\ journal[n].day + MinDays <= machine.day
    BY <2>1, <2>3, LetOn
  <2>4. ASSUME At(p, "free"), NEW i \in Id, Moved(p, i)
        PROVE  /\ ~plan[p].dry /\ ~plan[p].agent
               /\ \E pair \in cmd[p].old : pair[1] = i /\ Dead(p, pair)
    <3>1. Acts(p) BY <2>1, <2>2, <2>4
    <3> QED BY <3>1, <2>4, FreesDead
  <2>5. ASSUME At(p, "release"), NEW i \in Id, Moved(p, i) PROVE db.card[i].owner = cmd[p].item
    <3>1. Acts(p) BY <2>1, <2>2, <2>5
    <3> QED BY <3>1, <2>5, ReleasesHeld
  <2> QED BY <2>3, <2>4, <2>5
<1>4. ScreenSpec => []ScreenInv BY ScreenInvariant
<1>5. Freed => FreedOnlyDead BY DEF FreedOnlyDead, Dead
<1> HIDE DEF A
<1>6. ScreenSpec => Freed BY <1>1, <1>2, <1>3, <1>4, PTL DEF ScreenSpec
<1> QED BY <1>5, <1>6
=============================================================================
