---------------------------- MODULE IntakeProofs ----------------------------
(***************************************************************************)
(* What the service takes in, for any number of requests, texts, files,    *)
(* sizes and stops: threat-intel articles are told alike to everyone, a    *)
(* document row always has its file, a tier follows from the answers, and  *)
(* no window lets more through than its limit.                             *)
(***************************************************************************)
EXTENDS Articles, Documents, Tiering, RateLimit, Diagrams, WellFoundedInduction, FiniteSetTheorems, TLAPS

-----------------------------------------------------------------------------
(* Articles: the inductive invariant, in named parts.                      *)

PostStates ==
  OnLoop \cup {"idle", "failed", "fetched", "invoked", "logged", "done"}

ArticleTypes ==
  /\ post \in [Posts -> PostStates] /\ hops \in [Posts -> Nat]
  /\ starts \in Nat /\ starts >= 1

(* One request at a time is in the part of the handler that does not await. *)
OneOnLoop ==
  \A p, q \in Posts : post[p] \in OnLoop /\ post[q] \in OnLoop => p = q

(* A request extracts what nobody has extracted, and goes on from the file *)
(* that was written whole.                                                 *)
Readable(t) == t \in DOMAIN extraction /\ extraction[t] # Truncated
ExtractionOf(p) ==
  /\ post[p] = "extract" => TextOf[p] \notin DOMAIN extraction
  /\ post[p] = "write" => TextOf[p] \in DOMAIN extraction /\ extraction[TextOf[p]] = Truncated
  /\ post[p] \in {"invoked", "read_again", "logged", "done"} => Readable(TextOf[p])

(* The article is stored before anything else of the request.              *)
ArticleOf(p) ==
  post[p] \in {"read", "extract", "write", "invoked", "read_again", "logged", "done"} =>
    TextOf[p] \in DOMAIN articles

LoggedBefore == \A p \in Posts : post[p] \in {"logged", "done"} => \E e \in intelLog : e.post = p

(* What was told, and what was logged, is what the files still say.        *)
ToldIsStored ==
  \A x \in told : x.text \in DOMAIN articles /\ Readable(x.text) /\ x = Answer(x.text)
LogIsStored == \A e \in intelLog : Readable(e.text) /\ e.of = extraction[e.text]

TornByStop ==
  \A t \in DOMAIN extraction :
    extraction[t] = Truncated => starts > 1 \/ \E p \in Posts : TextOf[p] = t /\ post[p] = "write"

AInv ==
  /\ ArticleTypes /\ OneOnLoop
  /\ \A p \in Posts : ExtractionOf(p) /\ ArticleOf(p)
  /\ LoggedBefore /\ ToldIsStored /\ LogIsStored /\ TornByStop

USE DEF PostStates, OnLoop

LEMMA AInvInit == ArticlesInit => AInv
<1> SUFFICES ASSUME ArticlesInit PROVE AInv
  OBVIOUS
<1>1. DOMAIN extraction = {} /\ DOMAIN articles = {}
  BY DEF ArticlesInit
<1> QED
  BY <1>1 DEF ArticlesInit, AInv, ArticleTypes, OneOnLoop, ExtractionOf, ArticleOf,
     LoggedBefore, ToldIsStored, LogIsStored, TornByStop

(* A request moves on while the files, the log and what was told stay.     *)
LEMMA AInvMove ==
  ASSUME AInv, NEW p \in Posts,
         UNCHANGED <<articles, extraction, told, intelLog, starts>>,
         hops' \in [Posts -> Nat], NEW s \in PostStates,
         post' = [post EXCEPT ![p] = s],
         s \in OnLoop => post[p] \in OnLoop \/ NobodyElse(p),
         post[p] # "write",
         s = "extract" => TextOf[p] \notin DOMAIN extraction, s # "write",
         s \in {"invoked", "read_again", "logged", "done"} => Readable(TextOf[p]),
         s \in {"read", "extract", "invoked", "read_again", "logged", "done"} =>
           TextOf[p] \in DOMAIN articles,
         s \in {"logged", "done"} => \E e \in intelLog : e.post = p
  PROVE  AInv'
<1>1. \A q \in Posts : q # p => post'[q] = post[q]
  BY DEF AInv, ArticleTypes
<1>2. post'[p] = s
  BY DEF AInv, ArticleTypes
<1>3. ArticleTypes'
  BY DEF AInv, ArticleTypes
<1>4. OneOnLoop'
  BY <1>1, <1>2 DEF AInv, OneOnLoop, NobodyElse
<1>5. \A q \in Posts : ExtractionOf(q)' /\ ArticleOf(q)'
  BY <1>1, <1>2 DEF AInv, ExtractionOf, ArticleOf, Readable
<1>6. LoggedBefore'
  BY <1>1, <1>2 DEF AInv, LoggedBefore
<1>7. ToldIsStored' /\ LogIsStored'
  BY DEF AInv, ToldIsStored, LogIsStored, Readable, Answer
<1>8. TornByStop'
  BY <1>1 DEF AInv, TornByStop
<1> QED  BY <1>3, <1>4, <1>5, <1>6, <1>7, <1>8 DEF AInv

LEMMA AInvStored ==
  ASSUME AInv, NEW p \in Posts, WriteArticle(p)
  PROVE  AInv'
<1> USE DEF WriteArticle, AInv, To
<1>1. \A q \in Posts : q # p => post'[q] = post[q]
  BY DEF ArticleTypes
<1>2. post[p] = "fetched" /\ post'[p] = "read" /\ NobodyElse(p)
  BY DEF ArticleTypes
<1>3. /\ \A t \in DOMAIN articles : t \in DOMAIN articles' /\ articles'[t] = articles[t]
      /\ TextOf[p] \in DOMAIN articles'
  BY DEF Set
<1>4. ArticleTypes'
  BY DEF ArticleTypes
<1>5. OneOnLoop'
  BY <1>1, <1>2 DEF OneOnLoop, NobodyElse
<1>6. \A q \in Posts : ExtractionOf(q)' /\ ArticleOf(q)'
  BY <1>1, <1>2, <1>3 DEF ExtractionOf, ArticleOf, Readable
<1>7. LoggedBefore' /\ LogIsStored'
  BY <1>1, <1>2 DEF LoggedBefore, LogIsStored, Readable
<1>8. ToldIsStored'
  BY <1>3 DEF ToldIsStored, Readable, Answer
<1>9. TornByStop'
  BY <1>1, <1>2 DEF TornByStop
<1> QED  BY <1>4, <1>5, <1>6, <1>7, <1>8, <1>9

(* The file is opened: it was not there, so nothing told is lost.          *)
LEMMA AInvExtract ==
  ASSUME AInv, NEW p \in Posts, Extract(p)
  PROVE  AInv'
<1> USE DEF Extract, AInv, To
<1>1. \A q \in Posts : q # p => post'[q] = post[q]
  BY DEF ArticleTypes
<1>2. post[p] = "extract" /\ post'[p] = "write" /\ TextOf[p] \notin DOMAIN extraction
  BY DEF ArticleTypes, ExtractionOf
<1>3. /\ DOMAIN extraction' = DOMAIN extraction \cup {TextOf[p]}
      /\ extraction'[TextOf[p]] = Truncated
      /\ \A t \in DOMAIN extraction : extraction'[t] = extraction[t]
  BY <1>2 DEF Set
<1>4. ArticleTypes'
  BY DEF ArticleTypes
<1>5. OneOnLoop'
  BY <1>1, <1>2 DEF OneOnLoop
<1>6. \A t \in DOMAIN extraction : Readable(t)' <=> Readable(t)
  BY <1>3 DEF Readable
<1>7. \A q \in Posts : q # p => post[q] \notin {"extract", "write"}
  BY <1>2 DEF OneOnLoop
<1>8. \A q \in Posts : ExtractionOf(q)' /\ ArticleOf(q)'
  BY <1>1, <1>2, <1>3, <1>6, <1>7 DEF ExtractionOf, ArticleOf, Readable
<1>9. LoggedBefore'
  BY <1>1, <1>2 DEF LoggedBefore
<1>10. ToldIsStored' /\ LogIsStored'
  BY <1>3, <1>6 DEF ToldIsStored, LogIsStored, Readable, Answer
<1>11. TornByStop'
  BY <1>1, <1>2, <1>3 DEF TornByStop
<1> QED  BY <1>4, <1>5, <1>8, <1>9, <1>10, <1>11

(* The file is written: it was torn, so nothing told was read from it.     *)
LEMMA AInvWrite ==
  ASSUME AInv, NEW p \in Posts, WriteExtraction(p)
  PROVE  AInv'
<1> USE DEF AInv
<1>0. PICK e \in Extractions : extraction' = Set(extraction, TextOf[p], e)
  BY DEF WriteExtraction
<1>1. (\A q \in Posts : q # p => post'[q] = post[q]) /\ post[p] = "write" /\ post'[p] = "invoked"
      /\ UNCHANGED <<hops, articles, told, intelLog, now, starts>>
  BY DEF WriteExtraction, To, ArticleTypes
<1>2. TextOf[p] \in DOMAIN extraction /\ extraction[TextOf[p]] = Truncated
  BY <1>1 DEF ExtractionOf
<1>3. /\ DOMAIN extraction' = DOMAIN extraction
      /\ extraction'[TextOf[p]] = e /\ e # Truncated
      /\ \A t \in DOMAIN extraction : t # TextOf[p] => extraction'[t] = extraction[t]
  BY <1>0, <1>2, ArticlesAssumption DEF Set
<1>4. ArticleTypes'
  BY <1>1 DEF WriteExtraction, To, ArticleTypes
<1>5. OneOnLoop'
  BY <1>1 DEF OneOnLoop
<1>6. \A t : Readable(t) => t # TextOf[p] /\ Readable(t)' /\ extraction'[t] = extraction[t]
  BY <1>2, <1>3 DEF Readable
<1>7. \A q \in Posts : q # p => post[q] \notin {"extract", "write"}
  BY <1>1 DEF OneOnLoop
<1>8. \A q \in Posts : ExtractionOf(q)' /\ ArticleOf(q)'
  BY <1>1, <1>2, <1>3, <1>6, <1>7 DEF ExtractionOf, ArticleOf, Readable
<1>9. LoggedBefore'
  BY <1>1 DEF LoggedBefore
<1>10. ToldIsStored' /\ LogIsStored'
  BY <1>1, <1>6 DEF ToldIsStored, LogIsStored, Answer
<1>11. TornByStop'
  BY <1>1, <1>3 DEF TornByStop
<1> QED  BY <1>4, <1>5, <1>8, <1>9, <1>10, <1>11

LEMMA AInvLog ==
  ASSUME AInv, NEW p \in Posts, RecordIngested(p)
  PROVE  AInv'
<1> USE DEF AInv
<1> DEFINE entry == [post |-> p, text |-> TextOf[p], of |-> extraction[TextOf[p]]]
<1>1. (\A q \in Posts : q # p => post'[q] = post[q]) /\ post[p] = "read_again" /\ post'[p] = "logged"
      /\ UNCHANGED <<hops, articles, extraction, told, now, starts>>
  BY DEF RecordIngested, To, ArticleTypes
<1>2. intelLog' = intelLog \cup {entry}
  BY DEF RecordIngested
<1>3. Readable(TextOf[p]) /\ TextOf[p] \in DOMAIN articles
  BY <1>1 DEF ExtractionOf, ArticleOf
<1>4. entry.post = p /\ entry.text = TextOf[p] /\ entry.of = extraction[TextOf[p]]
  OBVIOUS
<1> HIDE DEF entry
<1>5. ArticleTypes'
  BY <1>1 DEF RecordIngested, To, ArticleTypes
<1>6. OneOnLoop' /\ \A q \in Posts : ExtractionOf(q)' /\ ArticleOf(q)'
  BY <1>1, <1>3 DEF OneOnLoop, ExtractionOf, ArticleOf, Readable
<1>7. LoggedBefore'
  BY <1>1, <1>2, <1>4 DEF LoggedBefore
<1>8. LogIsStored'
  BY <1>1, <1>2, <1>3, <1>4 DEF LogIsStored, Readable
<1>9. ToldIsStored' /\ TornByStop'
  BY <1>1 DEF ToldIsStored, TornByStop, Readable, Answer
<1> QED  BY <1>5, <1>6, <1>7, <1>8, <1>9

(* Someone is told of a text whose files are whole.                        *)
LEMMA AInvTell ==
  ASSUME ToldIsStored, NEW t, t \in DOMAIN articles, Readable(t),
         told' = told \cup {Answer(t)}, UNCHANGED <<articles, extraction>>
  PROVE  ToldIsStored'
<1>1. Answer(t).text = t
  BY DEF Answer
<1> DEFINE a == Answer(t)
<1>2. \A x \in told' : x.text \in DOMAIN articles /\ Readable(x.text) /\ x = Answer(x.text)
  <2>1. a.text = t /\ a = Answer(a.text) /\ told' = told \cup {a}
    BY <1>1
  <2> HIDE DEF a
  <2> QED  BY <2>1 DEF ToldIsStored
<1> QED  BY <1>2 DEF ToldIsStored, Readable, Answer

LEMMA AInvAnswer ==
  ASSUME AInv, NEW p \in Posts, AnswerPost(p)
  PROVE  AInv'
<1> USE DEF AInv
<1>1. (\A q \in Posts : q # p => post'[q] = post[q]) /\ post[p] = "logged" /\ post'[p] = "done"
      /\ UNCHANGED <<hops, articles, extraction, intelLog, now, starts>>
  BY DEF AnswerPost, To, ArticleTypes
<1>2. Readable(TextOf[p]) /\ TextOf[p] \in DOMAIN articles
  BY <1>1 DEF ExtractionOf, ArticleOf
<1>3. ToldIsStored'
  BY <1>1, <1>2, AInvTell DEF AnswerPost
<1>4. ArticleTypes'
  BY <1>1 DEF AnswerPost, To, ArticleTypes
<1>5. OneOnLoop' /\ \A q \in Posts : ExtractionOf(q)' /\ ArticleOf(q)'
  BY <1>1, <1>2 DEF OneOnLoop, ExtractionOf, ArticleOf, Readable
<1>6. LoggedBefore' /\ LogIsStored' /\ TornByStop'
  BY <1>1 DEF LoggedBefore, LogIsStored, TornByStop, Readable
<1> QED  BY <1>3, <1>4, <1>5, <1>6

LEMMA AInvGet ==
  ASSUME AInv, NEW t \in Texts, GetArticle(t)
  PROVE  AInv'
<1> USE DEF AInv, GetArticle
<1>1. ToldIsStored'
  BY AInvTell DEF Readable
<1> QED
  BY <1>1 DEF ArticleTypes, OneOnLoop, ExtractionOf, ArticleOf, LoggedBefore, LogIsStored,
     TornByStop, Readable

LEMMA AInvRestart == ASSUME AInv, Restart PROVE AInv'
<1> USE DEF AInv, Restart
<1>1. \A p \in Posts : post'[p] = "failed" \/ (post'[p] = post[p] /\ post[p] \in {"idle", "done"})
  BY DEF ArticleTypes
<1>2. ArticleTypes' /\ starts' > 1
  BY DEF ArticleTypes
<1>3. OneOnLoop' /\ \A q \in Posts : ExtractionOf(q)' /\ ArticleOf(q)'
  BY <1>1 DEF OneOnLoop, ExtractionOf, ArticleOf, Readable
<1>4. LoggedBefore' /\ LogIsStored' /\ TornByStop' /\ ToldIsStored'
  BY <1>1, <1>2 DEF LoggedBefore, LogIsStored, TornByStop, ToldIsStored, Readable, Answer
<1> QED  BY <1>2, <1>3, <1>4

LEMMA AInvNext == AInv /\ [ArticlesNext]_articleVars => AInv'
<1> SUFFICES ASSUME AInv, [ArticlesNext]_articleVars PROVE AInv'
  OBVIOUS
<1>0. hops \in [Posts -> Nat] /\ post \in [Posts -> PostStates]
  BY DEF AInv, ArticleTypes
<1>1. ASSUME NEW p \in Posts, SendPost(p) PROVE AInv'
  BY <1>0, <1>1, AInvMove DEF SendPost, To
<1>2. ASSUME NEW p \in Posts, Hop(p) PROVE AInv'
  <2>1. CASE UNCHANGED post
    BY <1>0, <1>2, <2>1 DEF Hop, AInv, ArticleTypes, OneOnLoop, ExtractionOf, ArticleOf,
       LoggedBefore, ToldIsStored, LogIsStored, TornByStop, Readable, Answer
  <2>2. CASE ~UNCHANGED post
    BY <1>0, <1>2, <2>2, AInvMove DEF Hop, To
  <2> QED  BY <2>1, <2>2
<1>3. ASSUME NEW p \in Posts, TooManyRedirects(p) \/ ExtractFails(p) PROVE AInv'
  BY <1>0, <1>3, AInvMove DEF TooManyRedirects, ExtractFails, To
<1>4. ASSUME NEW p \in Posts, ReadExtraction(p) PROVE AInv'
  <2>1. TextOf[p] \in DOMAIN articles
    BY <1>4 DEF ReadExtraction, AInv, ArticleOf
  <2> QED  BY <1>0, <1>4, <2>1, AInvMove DEF ReadExtraction, To, Readable
<1>5. ASSUME NEW p \in Posts, RecordInvoked(p) PROVE AInv'
  <2>1. TextOf[p] \in DOMAIN articles /\ Readable(TextOf[p])
    BY <1>5 DEF RecordInvoked, AInv, ArticleOf, ExtractionOf
  <2> QED  BY <1>0, <1>5, <2>1, AInvMove DEF RecordInvoked, To
<1>6. CASE UNCHANGED articleVars
  BY <1>6 DEF articleVars, AInv, ArticleTypes, OneOnLoop, ExtractionOf, ArticleOf,
     LoggedBefore, ToldIsStored, LogIsStored, TornByStop, Readable, Answer
<1> QED
  BY <1>1, <1>2, <1>3, <1>4, <1>5, <1>6, AInvStored, AInvExtract, AInvWrite, AInvLog, AInvAnswer,
     AInvGet, AInvRestart DEF ArticlesNext

(* Across failures, retries and restarts everyone is told the same of an   *)
(* article, the log says what is stored, and a torn extraction was never   *)
(* told: for any number of requests and texts.                             *)
THEOREM ArticlesAgree == ArticlesSpec => []ArticlesAnswersAgree
<1>1. AInv => ArticlesAnswersAgree
  <2> SUFFICES ASSUME AInv PROVE ArticlesAnswersAgree
    OBVIOUS
  <2>1. \A x \in told : x = Answer(x.text) /\ x.of # Truncated
    <3> SUFFICES ASSUME NEW x \in told PROVE x = Answer(x.text) /\ x.of # Truncated
      OBVIOUS
    <3>1. x = Answer(x.text) /\ Readable(x.text)
      BY DEF AInv, ToldIsStored
    <3>2. Answer(x.text).of = extraction[x.text]
      BY DEF Answer
    <3> QED  BY <3>1, <3>2 DEF Readable
  <2>2. \A x, y \in told : x.text = y.text => x = y
    BY <2>1
  <2> QED
    BY <2>1, <2>2 DEF ArticlesAnswersAgree, AInv, LogIsStored, LoggedBefore, TornByStop
<1> QED  BY <1>1, AInvInit, AInvNext, PTL DEF ArticlesSpec

-----------------------------------------------------------------------------
(* Documents: the inductive invariant, in named parts.                     *)

Phases == {"idle", "body", "413", "lost", "handler", "422", "read", "404",
           "validate", "write", "insert", "done"}

DocumentTypes ==
  /\ phase \in [DocumentUploads -> Phases] /\ serverStops \in Nat
  /\ body \in [DocumentUploads -> Nat] /\ got \in [DocumentUploads -> Nat]
  /\ ~up => serverStops > 0

(* What a request holds, phase by phase.                                   *)
Bounded(u) ==
  /\ body[u] =< SizeOf[u] /\ body[u] =< MaxBody + ChunkSize
  /\ got[u] =< SizeOf[u] /\ got[u] =< MaxUpload + ChunkSize
  /\ phase[u] = "idle" => body[u] = 0
  /\ phase[u] \in {"idle", "body"} => body[u] =< MaxBody
  /\ phase[u] \in {"idle", "body", "handler"} => got[u] =< MaxUpload
  /\ phase[u] = "413" => SizeOf[u] > MaxBody
  /\ phase[u] \notin {"idle", "body", "413", "lost"} => body[u] = SizeOf[u] /\ body[u] =< MaxBody

BoundsInv == DocumentTypes /\ \A u \in DocumentUploads : Bounded(u)

(* A file and a row are made only of what was validated.                   *)
Valid(u) == SizeOf[u] \in 1..MaxUpload /\ u \notin Unreadable
HasFile == \A u \in DocumentUploads :
  phase[u] \in {"write", "insert"} => Valid(u) /\ FileOf[u] \in DOMAIN files
RowsHaveFiles ==
  \A u \in rows : Valid(u) /\ u \in DocumentUploads /\ FileOf[u] \in DOMAIN files

(* A torn file is being written, or a stop came before it was.             *)
TornTrace ==
  \A f \in DOMAIN files : files[f] = "torn" =>
    serverStops > 0 \/ \E v \in DocumentUploads : phase[v] = "write" /\ FileOf[v] = f
FilesHaveUploads ==
  \A f \in DOMAIN files :
    \E u \in DocumentUploads : FileOf[u] = f /\ phase[u] \in {"write", "insert", "done", "lost"}

(* An archive is a state of the store, and files are never removed.        *)
ArchiveWhole ==
  /\ \A u \in archive.rows : Valid(u) /\ u \in DocumentUploads /\ FileOf[u] \in DOMAIN archive.files
  /\ DOMAIN archive.files \subseteq DOMAIN files

DInv ==
  /\ BoundsInv
  /\ HasFile /\ RowsHaveFiles /\ TornTrace /\ FilesHaveUploads /\ ArchiveWhole

LEMMA Sizes ==
  /\ SizeOf \in [DocumentUploads -> Nat] /\ MaxBody \in Nat /\ MaxUpload \in Nat
  /\ ChunkSize \in Nat /\ ChunkSize > 0
BY DocumentsAssumption

LEMMA BoundsInit == DocumentsInit => BoundsInv
BY Sizes DEF DocumentsInit, BoundsInv, DocumentTypes, Bounded, Phases

(* One upload moves.                                                       *)
LEMMA BoundsMove ==
  ASSUME BoundsInv, NEW u \in DocumentUploads, NEW s \in Phases,
         phase' = [phase EXCEPT ![u] = s],
         body' \in [DocumentUploads -> Nat], got' \in [DocumentUploads -> Nat],
         \A v \in DocumentUploads : v # u => body'[v] = body[v] /\ got'[v] = got[v],
         UNCHANGED <<up, serverStops>>, Bounded(u)'
  PROVE  BoundsInv'
<1>1. DocumentTypes'
  BY DEF BoundsInv, DocumentTypes
<1>2. ASSUME NEW v \in DocumentUploads, v # u PROVE Bounded(v)'
  BY <1>2 DEF BoundsInv, DocumentTypes, Bounded
<1> QED  BY <1>1, <1>2 DEF BoundsInv

LEMMA BoundsNext == BoundsInv /\ [DocumentsNext]_documentVars => BoundsInv'
<1> SUFFICES ASSUME BoundsInv, [DocumentsNext]_documentVars PROVE BoundsInv'
  OBVIOUS
<1>0. DocumentTypes /\ \A u \in DocumentUploads : Bounded(u)
  BY DEF BoundsInv
<1>1. ASSUME NEW u \in DocumentUploads, SendUpload(u) PROVE BoundsInv'
  <2>1. phase'[u] = "body" \/ (phase'[u] = "413" /\ SizeOf[u] > MaxBody)
    BY <1>0, <1>1 DEF SendUpload, Step, DocumentTypes
  <2>2. Bounded(u)'
    BY <1>0, <1>1, <2>1, Sizes DEF SendUpload, Bounded
  <2> QED  BY <1>0, <1>1, <2>2, BoundsMove DEF SendUpload, Step, DocumentTypes, Phases
<1>2. ASSUME NEW u \in DocumentUploads, Receive(u) PROVE BoundsInv'
  <2>1. PICK n \in 1..ChunkSize :
          /\ body[u] + n =< SizeOf[u]
          /\ body' = [body EXCEPT ![u] = @ + n]
          /\ IF body'[u] > MaxBody THEN Step(u, "413") ELSE UNCHANGED phase
    BY <1>2 DEF Receive
  <2>2. body'[u] = body[u] + n /\ n \in Nat /\ n =< ChunkSize
        /\ \A v \in DocumentUploads : v # u => body'[v] = body[v]
    BY <1>0, <2>1, Sizes DEF DocumentTypes
  <2>3. body' \in [DocumentUploads -> Nat]
    BY <1>0, <2>1, <2>2, Sizes DEF DocumentTypes
  <2>4. phase[u] = "body" /\ body[u] =< MaxBody /\ body[u] \in Nat
    BY <1>0, <1>2 DEF Receive, Bounded, DocumentTypes
  <2>5. IF body'[u] > MaxBody THEN phase'[u] = "413" ELSE phase'[u] = "body"
    BY <1>0, <2>1, <2>4 DEF Step, DocumentTypes
  <2>6. Bounded(u)'
    BY <1>0, <1>2, <2>1, <2>2, <2>4, <2>5, Sizes DEF Receive, Bounded
  <2>7. phase' = [phase EXCEPT ![u] = phase'[u]] /\ phase'[u] \in Phases
    BY <1>0, <2>1, <2>5 DEF Step, DocumentTypes, Phases
  <2> QED
    BY <1>0, <1>2, <2>2, <2>3, <2>6, <2>7, BoundsMove DEF Receive, DocumentTypes
<1>3. ASSUME NEW u \in DocumentUploads, BodyReceived(u) PROVE BoundsInv'
  <2>1. phase'[u] = "handler"
    BY <1>0, <1>3 DEF BodyReceived, Step, DocumentTypes
  <2>2. Bounded(u)'
    BY <1>0, <1>3, <2>1 DEF BodyReceived, Bounded
  <2> QED  BY <1>0, <1>3, <2>2, BoundsMove DEF BodyReceived, Step, DocumentTypes, Phases
<1>4. ASSUME NEW u \in DocumentUploads, ReadUpload(u) PROVE BoundsInv'
  <2> DEFINE n == IF SizeOf[u] - got[u] < ChunkSize THEN SizeOf[u] - got[u] ELSE ChunkSize
  <2>1. n \in Nat /\ n =< ChunkSize /\ got[u] + n =< SizeOf[u] /\ got[u] \in Nat
    BY <1>0, Sizes DEF DocumentTypes, Bounded
  <2>2. phase[u] = "handler" /\ got' = [got EXCEPT ![u] = got[u] + n] /\ UNCHANGED <<up, body, serverStops>>
        /\ (IF n = 0 THEN Step(u, "read")
            ELSE IF got'[u] > MaxUpload THEN Step(u, "422") ELSE UNCHANGED phase)
    BY <1>4 DEF ReadUpload
  <2> HIDE DEF n
  <2>3. got'[u] = got[u] + n /\ got' \in [DocumentUploads -> Nat]
        /\ \A v \in DocumentUploads : v # u => got'[v] = got[v]
    BY <1>0, <2>1, <2>2 DEF DocumentTypes
  <2>4. \/ phase'[u] = "read"
        \/ phase'[u] = "422"
        \/ phase'[u] = "handler" /\ got'[u] =< MaxUpload
    BY <1>0, <2>1, <2>2, <2>3, Sizes DEF Step, DocumentTypes
  <2>5. Bounded(u)'
    BY <1>0, <2>1, <2>2, <2>3, <2>4, Sizes DEF Bounded
  <2>6. phase' = [phase EXCEPT ![u] = phase'[u]] /\ phase'[u] \in Phases
    BY <1>0, <2>2, <2>4 DEF Step, DocumentTypes, Phases
  <2> QED  BY <1>0, <2>2, <2>3, <2>5, <2>6, BoundsMove DEF DocumentTypes
<1>5. ASSUME NEW u \in DocumentUploads,
             FindProject(u) \/ Validate(u) \/ WriteFile(u) \/ InsertDocument(u)
      PROVE  BoundsInv'
  <2>1. PICK s \in {"validate", "404", "422", "write", "insert", "done"} : Step(u, s)
    BY <1>5 DEF FindProject, Validate, WriteFile, InsertDocument
  <2>2. phase[u] \in {"read", "validate", "write", "insert"} /\ UNCHANGED <<up, body, got, serverStops>>
    BY <1>5 DEF FindProject, Validate, WriteFile, InsertDocument
  <2>3. phase'[u] = s
    BY <1>0, <2>1 DEF Step, DocumentTypes
  <2>4. Bounded(u)'
    BY <1>0, <2>2, <2>3 DEF Bounded
  <2> QED  BY <1>0, <2>1, <2>2, <2>4, BoundsMove DEF Step, DocumentTypes, Phases
<1>6. CASE LoadForDeletion \/ DeleteProject \/ StartServer \/ CreateBackup \/ RestoreBackup \/ UNCHANGED documentVars
  <2>1. UNCHANGED <<phase, body, got, serverStops>> /\ (up' = up \/ up')
    BY <1>6 DEF LoadForDeletion, DeleteProject, StartServer, CreateBackup, RestoreBackup, documentVars
  <2> QED  BY <1>0, <2>1 DEF BoundsInv, DocumentTypes, Bounded
<1>7. CASE StopServer
  <2>1. UNCHANGED <<body, got>> /\ serverStops' = serverStops + 1
    BY <1>7 DEF StopServer
  <2>2. \A u \in DocumentUploads :
          phase'[u] = "lost" \/ (phase'[u] = phase[u] /\ phase[u] \in {"idle", "done", "404", "413", "422"})
    BY <1>7 DEF StopServer
  <2>3. DocumentTypes'
    BY <1>0, <1>7, <2>1, <2>2 DEF StopServer, DocumentTypes, Phases
  <2>4. \A u \in DocumentUploads : Bounded(u)'
    BY <1>0, <2>1, <2>2 DEF Bounded
  <2> QED  BY <2>3, <2>4 DEF BoundsInv
<1> QED  BY <1>1, <1>2, <1>3, <1>4, <1>5, <1>6, <1>7 DEF DocumentsNext

(* A body is refused as soon as it is over the limit and never otherwise,  *)
(* for any limit, chunk size and number of uploads, whatever they declare. *)
THEOREM BodiesWithinLimit == DocumentsSpec => []BodyWithinLimit
<1>1. BoundsInv => BodyWithinLimit
  BY DEF BoundsInv, Bounded, BodyWithinLimit
<1> QED  BY <1>1, BoundsInit, BoundsNext, PTL DEF DocumentsSpec

LEMMA DInvInit == DocumentsInit => DInv
<1> SUFFICES ASSUME DocumentsInit PROVE DInv
  OBVIOUS
<1>1. DOMAIN files = {} /\ DOMAIN archive.files = {} /\ archive.rows = {} /\ rows = {}
  BY DEF DocumentsInit
<1>2. BoundsInv /\ \A u \in DocumentUploads : phase[u] = "idle"
  BY BoundsInit DEF DocumentsInit
<1> QED  BY <1>1, <1>2 DEF DInv, HasFile, RowsHaveFiles, TornTrace, FilesHaveUploads, ArchiveWhole

(* An upload that writes nothing: before it is validated, or the row of a  *)
(* file that it wrote.                                                     *)
LEMMA DInvMove ==
  ASSUME DInv, BoundsInv', NEW u \in DocumentUploads, NEW s \in Phases \ {"write", "insert"},
         phase' = [phase EXCEPT ![u] = s], UNCHANGED <<files, archive, serverStops>>,
         phase[u] \notin {"write", "done", "lost"},
         \/ rows' = rows /\ phase[u] # "insert"
         \/ rows' = rows \cup {u} /\ phase[u] = "insert" /\ s = "done"
  PROVE  DInv'
<1>1. (\A v \in DocumentUploads : v # u => phase'[v] = phase[v]) /\ phase'[u] = s
  BY DEF DInv, BoundsInv, DocumentTypes
<1>2. HasFile' /\ RowsHaveFiles'
  BY <1>1 DEF DInv, HasFile, RowsHaveFiles, Valid
<1>3. TornTrace' /\ ArchiveWhole'
  BY <1>1 DEF DInv, TornTrace, ArchiveWhole, Valid
<1>4. FilesHaveUploads'
  BY <1>1 DEF DInv, FilesHaveUploads
<1> QED  BY <1>2, <1>3, <1>4 DEF DInv

(* An upload opens its file, or writes it.                                 *)
LEMMA DInvFile ==
  ASSUME DInv, BoundsInv', NEW u \in DocumentUploads, Valid(u),
         UNCHANGED <<rows, archive, serverStops>>,
         \/ /\ phase[u] = "validate" /\ phase' = [phase EXCEPT ![u] = "write"]
            /\ files' = Stored(FileOf[u], "torn")
         \/ /\ phase[u] = "write" /\ phase' = [phase EXCEPT ![u] = "insert"]
            /\ files' = Stored(FileOf[u], "whole")
  PROVE  DInv'
<1>1. (\A v \in DocumentUploads : v # u => phase'[v] = phase[v]) /\ phase'[u] \in {"write", "insert"}
  BY DEF DInv, BoundsInv, DocumentTypes
<1>2. /\ DOMAIN files' = DOMAIN files \cup {FileOf[u]}
      /\ \A f \in DOMAIN files : f # FileOf[u] => files'[f] = files[f]
      /\ phase'[u] = "write" \/ files'[FileOf[u]] # "torn"
  BY <1>1 DEF Stored, DInv, BoundsInv, DocumentTypes
<1>3. HasFile'
  BY <1>1, <1>2 DEF DInv, HasFile, Valid
<1>4. RowsHaveFiles' /\ ArchiveWhole'
  BY <1>2 DEF DInv, RowsHaveFiles, ArchiveWhole, Valid
<1>5. TornTrace'
  BY <1>1, <1>2 DEF DInv, TornTrace
<1>6. FilesHaveUploads'
  BY <1>1, <1>2 DEF DInv, FilesHaveUploads
<1> QED  BY <1>3, <1>4, <1>5, <1>6 DEF DInv

LEMMA DInvRestore == ASSUME DInv, BoundsInv', RestoreBackup PROVE DInv'
<1> USE DEF RestoreBackup
<1>1. /\ DOMAIN files' = DOMAIN files
      /\ \A f \in DOMAIN archive.files : f \in DOMAIN files'
  BY DEF DInv, ArchiveWhole
<1>2. HasFile' /\ FilesHaveUploads'
  BY <1>1 DEF DInv, HasFile, FilesHaveUploads, Valid
<1>3. RowsHaveFiles' /\ ArchiveWhole'
  BY <1>1 DEF DInv, RowsHaveFiles, ArchiveWhole, Valid
<1>4. TornTrace'
  BY DEF DInv, BoundsInv, DocumentTypes, TornTrace
<1> QED  BY <1>2, <1>3, <1>4 DEF DInv

LEMMA DInvNext == DInv /\ [DocumentsNext]_documentVars => DInv'
<1> SUFFICES ASSUME DInv, [DocumentsNext]_documentVars PROVE DInv'
  OBVIOUS
<1>0. BoundsInv'
  BY BoundsNext DEF DInv
<1>1. ASSUME NEW u \in DocumentUploads,
             SendUpload(u) \/ Receive(u) \/ BodyReceived(u) \/ ReadUpload(u) \/ FindProject(u)
      PROVE  DInv'
  <2>1. /\ phase[u] \in {"idle", "body", "handler", "read"}
        /\ UNCHANGED <<files, archive, serverStops, rows>>
    BY <1>1 DEF SendUpload, Receive, BodyReceived, ReadUpload, FindProject
  <2>2. \/ UNCHANGED phase
        \/ \E s \in Phases \ {"write", "insert"} : phase' = [phase EXCEPT ![u] = s]
    <3>1. CASE SendUpload(u)
      BY <3>1 DEF SendUpload, Step, Phases
    <3>2. CASE Receive(u)
      BY <3>2 DEF Receive, Step, Phases
    <3>3. CASE BodyReceived(u)
      BY <3>3 DEF BodyReceived, Step, Phases
    <3>4. CASE ReadUpload(u)
      BY <3>4 DEF ReadUpload, Step, Phases
    <3>5. CASE FindProject(u)
      BY <3>5 DEF FindProject, Step, Phases
    <3> QED  BY <1>1, <3>1, <3>2, <3>3, <3>4, <3>5
  <2>3. CASE UNCHANGED phase
    BY <1>0, <2>1, <2>3
    DEF DInv, HasFile, RowsHaveFiles, TornTrace, FilesHaveUploads, ArchiveWhole, Valid
  <2>4. CASE ~UNCHANGED phase
    BY <1>0, <2>1, <2>2, <2>4, DInvMove
  <2> QED  BY <2>3, <2>4
<1>2. ASSUME NEW u \in DocumentUploads, Validate(u) PROVE DInv'
  <2>1. CASE SizeOf[u] = 0 \/ SizeOf[u] > MaxUpload \/ u \in Unreadable
    BY <1>0, <1>2, <2>1, DInvMove DEF Validate, Step, Phases
  <2>2. CASE ~(SizeOf[u] = 0 \/ SizeOf[u] > MaxUpload \/ u \in Unreadable)
    <3>1. Valid(u)
      BY <2>2, Sizes DEF Valid
    <3> QED  BY <1>0, <1>2, <2>2, <3>1, DInvFile DEF Validate, Step
  <2> QED  BY <2>1, <2>2
<1>3. ASSUME NEW u \in DocumentUploads, WriteFile(u) PROVE DInv'
  <2>1. Valid(u)
    BY <1>3 DEF WriteFile, DInv, HasFile
  <2> QED  BY <1>0, <1>3, <2>1, DInvFile DEF WriteFile, Step
<1>4. ASSUME NEW u \in DocumentUploads, InsertDocument(u) PROVE DInv'
  BY <1>0, <1>4, DInvMove DEF InsertDocument, Step, Phases
<1>5. CASE LoadForDeletion \/ DeleteProject \/ StartServer \/ UNCHANGED documentVars
  <2>1. UNCHANGED <<phase, files, archive, serverStops>> /\ rows' \subseteq rows
    BY <1>5 DEF LoadForDeletion, DeleteProject, StartServer, documentVars
  <2> QED
    BY <1>0, <2>1 DEF DInv, HasFile, RowsHaveFiles, TornTrace, FilesHaveUploads, ArchiveWhole, Valid
<1>6. CASE StopServer
  <2>1. /\ UNCHANGED <<files, rows, archive>> /\ serverStops' > 0
        /\ \A u \in DocumentUploads :
             phase'[u] = "lost" \/ (phase'[u] = phase[u] /\ phase[u] \in {"idle", "done", "404", "413", "422"})
    BY <1>6 DEF StopServer, DInv, BoundsInv, DocumentTypes
  <2> QED
    BY <1>0, <2>1 DEF DInv, HasFile, RowsHaveFiles, TornTrace, FilesHaveUploads, ArchiveWhole, Valid
<1>7. CASE CreateBackup
  <2>1. UNCHANGED <<phase, files, rows, serverStops>>
        /\ archive'.files = files /\ archive'.rows = rows
    BY <1>7 DEF CreateBackup
  <2> QED
    BY <1>0, <2>1 DEF DInv, HasFile, RowsHaveFiles, TornTrace, FilesHaveUploads, ArchiveWhole, Valid
<1> QED
  BY <1>0, <1>1, <1>2, <1>3, <1>4, <1>5, <1>6, <1>7, DInvRestore DEF DocumentsNext

(* A document row has its file, also after a restore, and the file is torn *)
(* only through a stop: for any number of uploads, backups and stops.      *)
THEOREM DocumentsAreBacked == DocumentsSpec => []DocumentsBacked
<1>1. DInv => DocumentsBacked
  BY DEF DInv, RowsHaveFiles, TornTrace, FilesHaveUploads, Valid, DocumentsBacked
<1> QED  BY <1>1, DInvInit, DInvNext, PTL DEF DocumentsSpec

-----------------------------------------------------------------------------
(* Tiering: what the questionnaire makes of a set of answers, for any      *)
(* questions in any order of rising tiers.                                 *)

(* The least element of a set of naturals is its Min.                      *)
LEMMA MinIs ==
  ASSUME NEW S \in SUBSET Nat, NEW m \in S, \A x \in S : m =< x
  PROVE  Min(S) = m
<1>1. \A x \in S : (\A y \in S : x =< y) => x = m
  OBVIOUS
<1> QED  BY <1>1 DEF Min

(* Every set of naturals that is not empty has a least element.            *)
LEMMA HasLeast ==
  ASSUME NEW S \in SUBSET Nat, S # {}
  PROVE  \E m \in S : \A x \in S : m =< x
<1> DEFINE R == {ss \in Nat \X Nat : ss[1] < ss[2]}
<1>1. IsWellFoundedOn(R, Nat)
  BY NatLessThanWellFounded DEF OpToRel
<1>2. \A x, y \in Nat : x < y => <<x, y>> \in R
  OBVIOUS
<1> HIDE DEF R
<1>3. PICK m \in S : \A x \in S : <<x, m>> \notin R
  BY <1>1, WFMin
<1>4. ASSUME NEW x \in S PROVE m =< x
  <2>1. x \in Nat /\ m \in Nat /\ ~(x < m)
    BY <1>2, <1>3
  <2> QED  BY <2>1
<1> QED  BY <1>4

(* The first question answered with yes, in the order of the questionnaire. *)
First(yes, i) ==
  /\ i \in DOMAIN QuestionIds /\ QuestionIds[i] \in yes
  /\ \A j \in DOMAIN QuestionIds : QuestionIds[j] \in yes => i =< j

Asked == Range(QuestionIds)

LEMMA TriggerIs ==
  ASSUME NEW yes
  PROVE  \/ Trigger(yes) = NoQuestion /\ yes \cap Asked = {}
         \/ \E i : First(yes, i) /\ Trigger(yes) = QuestionIds[i]
<1> DEFINE I == {i \in 1..Len(QuestionIds) : QuestionIds[i] \in yes}
<1>1. DOMAIN QuestionIds = 1..Len(QuestionIds) /\ Len(QuestionIds) \in Nat
  BY TieringAssumption
<1>2. SelectInSeq(QuestionIds, LAMBDA q : q \in yes) = IF I # {} THEN Min(I) ELSE 0
  BY DEF SelectInSeq
<1>3. I \in SUBSET Nat /\ 0 \notin I
  BY <1>1
<1> HIDE DEF I
<1>4. CASE I = {}
  <2>1. Trigger(yes) = NoQuestion
    BY <1>2, <1>4 DEF Trigger
  <2>2. yes \cap Asked = {}
    BY <1>1, <1>4 DEF Asked, Range, I
  <2> QED  BY <2>1, <2>2
<1>5. CASE I # {}
  <2>1. PICK m \in I : \A x \in I : m =< x
    BY <1>3, <1>5, HasLeast
  <2>2. Min(I) = m
    BY <1>3, <2>1, MinIs
  <2>3. Trigger(yes) = QuestionIds[m]
    BY <1>2, <1>3, <1>5, <2>2 DEF Trigger
  <2>4. First(yes, m)
    BY <1>1, <2>1 DEF First, I
  <2> QED  BY <2>3, <2>4
<1> QED  BY <1>4, <1>5

(* What compute_tier makes of a set of answers.                            *)
LEMMA ComputedTier ==
  ASSUME NEW yes
  PROVE  /\ DOMAIN ComputeTier(yes) = {"tier", "trigger", "answers"}
         /\ ComputeTier(yes).answers = yes /\ ComputeTier(yes).tier = TierOf(yes)
         /\ TriggerFirst(ComputeTier(yes))
<1> DEFINE c == ComputeTier(yes)
           T == {TierIfYes[q] : q \in yes \cap Asked}
<1>1. /\ DOMAIN c = {"tier", "trigger", "answers"} /\ c.answers = yes /\ c.trigger = Trigger(yes)
      /\ c.tier = IF Trigger(yes) = NoQuestion THEN Lowest ELSE TierIfYes[Trigger(yes)]
  BY DEF ComputeTier
<1> HIDE DEF c
<1>2. \A q \in Asked : TierIfYes[q] \in 1..3
  BY TieringAssumption DEF Asked
<1>3. T \cup {Lowest} \in SUBSET Nat /\ \A x \in T : x < Lowest
  BY <1>2 DEF Lowest
<1>4. TierOf(yes) = Min(T \cup {Lowest})
  BY DEF TierOf, Asked
<1>5. CASE Trigger(yes) = NoQuestion /\ yes \cap Asked = {}
  <2>1. T = {}
    BY <1>5
  <2>2. TierOf(yes) = Lowest
    <3>1. T \cup {Lowest} = {Lowest} /\ Lowest \in Nat
      BY <2>1 DEF Lowest
    <3>2. {Lowest} \in SUBSET Nat /\ \A x \in {Lowest} : Lowest =< x
      BY DEF Lowest
    <3>3. Min({Lowest}) = Lowest
      BY <3>2, MinIs
    <3> QED  BY <1>4, <3>1, <3>3
  <2>3. c.tier = Lowest /\ c.tier = TierOf(yes) /\ TriggerFirst(c)
    BY <1>1, <1>5, <2>2 DEF TriggerFirst
  <2> QED  BY <1>1, <2>3 DEF c
<1>6. ASSUME NEW i, First(yes, i), Trigger(yes) = QuestionIds[i]
      PROVE  /\ c.tier = TierOf(yes) /\ c.tier # Lowest
             /\ c.trigger \in yes /\ TierIfYes[c.trigger] = c.tier
             /\ \A q \in yes \cap Asked : \E k, j \in DOMAIN QuestionIds :
                  QuestionIds[k] = c.trigger /\ QuestionIds[j] = q /\ k =< j
  <2> DEFINE first == QuestionIds[i]
  <2>1. i \in DOMAIN QuestionIds /\ first \in yes /\ first \in Asked /\ first # NoQuestion
    BY <1>6, TieringAssumption DEF First, Asked, Range
  <2>2. \A q \in yes \cap Asked : \E j \in DOMAIN QuestionIds : QuestionIds[j] = q /\ i =< j
    BY <1>6 DEF First, Asked, Range
  <2>3. DOMAIN QuestionIds = 1..Len(QuestionIds) /\ Len(QuestionIds) \in Nat
    BY TieringAssumption
  <2>4. \A q \in yes \cap Asked : TierIfYes[first] =< TierIfYes[q]
    <3> SUFFICES ASSUME NEW q \in yes \cap Asked PROVE TierIfYes[first] =< TierIfYes[q]
      OBVIOUS
    <3>1. PICK j \in DOMAIN QuestionIds : QuestionIds[j] = q /\ i =< j
      BY <2>2
    <3>2. CASE i < j
      BY <2>1, <3>1, <3>2, TieringAssumption
    <3>3. CASE i = j
      BY <1>2, <3>1, <3>3
    <3> QED  BY <2>1, <2>3, <3>1, <3>2, <3>3
  <2>5. TierIfYes[first] \in T \cup {Lowest} /\ \A x \in T \cup {Lowest} : TierIfYes[first] =< x
    BY <1>2, <2>1, <2>4 DEF Lowest
  <2>6. TierOf(yes) = TierIfYes[first]
    <3> HIDE DEF T, first
    <3> QED  BY <1>3, <1>4, <2>5, MinIs
  <2>7. c.tier = TierIfYes[first] /\ c.trigger = first
    BY <1>1, <1>6, <2>1
  <2>8. c.tier # Lowest
    BY <1>2, <2>1, <2>7 DEF Lowest
  <2> QED  BY <2>1, <2>2, <2>6, <2>7, <2>8
<1>7. CASE \E i : First(yes, i) /\ Trigger(yes) = QuestionIds[i]
  <2>1. PICK i : First(yes, i) /\ Trigger(yes) = QuestionIds[i]
    BY <1>7
  <2>2. /\ c.tier = TierOf(yes) /\ c.tier # Lowest
        /\ c.trigger \in yes /\ TierIfYes[c.trigger] = c.tier
        /\ \A q \in yes \cap Asked : \E k, j \in DOMAIN QuestionIds :
             QuestionIds[k] = c.trigger /\ QuestionIds[j] = q /\ k =< j
    BY <1>6, <2>1
  <2>3. TriggerFirst(c)
    BY <1>1, <2>2 DEF TriggerFirst, Asked
  <2> QED  BY <1>1, <2>2, <2>3 DEF c
<1> QED  BY <1>5, <1>7, TriggerIs

(* Each column of a row is of some submission.                             *)
Columns(row) ==
  /\ DOMAIN row = {"tier", "trigger", "answers"}
  /\ \E s \in Submissions : row.answers = Yes[s]
  /\ \E s \in Submissions : row.tier = TierOf(Yes[s])
Submitted(row) == \E s \in Submissions : row = ComputeTier(Yes[s])
AtWork(s) == stage[s] \in {"read", "commit"}

TInv ==
  /\ stage \in [Submissions -> {"idle", "read", "commit", "done", "failed"}]
  /\ DOMAIN loaded = Submissions
  /\ \A a, b \in record : a = b
  /\ \A row \in record : Columns(row) /\ (turns => Submitted(row))
  /\ turns => /\ \A r, s \in Submissions : AtWork(r) /\ AtWork(s) => r = s
              /\ \A s \in Submissions : stage[s] = "commit" => loaded[s] = record

LEMMA SubmittedColumns ==
  ASSUME NEW s \in Submissions
  PROVE  Columns(ComputeTier(Yes[s])) /\ Submitted(ComputeTier(Yes[s]))
BY ComputedTier DEF Columns, Submitted

LEMMA TInvNext == TInv /\ [TieringNext]_tieringVars => TInv'
<1> SUFFICES ASSUME TInv, [TieringNext]_tieringVars PROVE TInv'
  OBVIOUS
<1> USE DEF TInv
<1>1. ASSUME NEW s \in Submissions, Submit(s) PROVE TInv'
  <2>1. /\ stage' = [stage EXCEPT ![s] = "read"] /\ UNCHANGED <<turns, loaded, record>>
        /\ turns => \A r \in Submissions : ~AtWork(r)
    BY <1>1 DEF Submit, Enter, AtWork
  <2> QED  BY <2>1 DEF AtWork, Columns, Submitted
<1>2. ASSUME NEW s \in Submissions, ReadRecord(s) PROVE TInv'
  <2>1. /\ stage' = [stage EXCEPT ![s] = "commit"] /\ UNCHANGED <<turns, record>>
        /\ loaded' = [loaded EXCEPT ![s] = record] /\ stage[s] = "read"
    BY <1>2 DEF ReadRecord, Enter
  <2> QED  BY <2>1 DEF AtWork, Columns, Submitted
<1>3. ASSUME NEW s \in Submissions, InsertRecord(s) PROVE TInv'
  <2>1. /\ stage[s] = "commit" /\ UNCHANGED <<turns, loaded>>
        /\ \/ record = {} /\ record' = {ComputeTier(Yes[s])}
           \/ record' = record
        /\ stage' = [stage EXCEPT ![s] = "done"] \/ stage' = [stage EXCEPT ![s] = "failed"]
    BY <1>3 DEF InsertRecord, Enter
  <2>2. \A row \in record' : Columns(row) /\ (turns => Submitted(row))
    BY <2>1, SubmittedColumns
  <2>3. stage' \in [Submissions -> {"idle", "read", "commit", "done", "failed"}]
    BY <2>1
  <2>4. turns => \A r \in Submissions : ~AtWork(r)'
    BY <2>1 DEF AtWork
  <2> QED  BY <2>1, <2>2, <2>3, <2>4 DEF AtWork, Columns, Submitted
<1>4. ASSUME NEW s \in Submissions, UpdateRecord(s) PROVE TInv'
  <2> DEFINE new == ComputeTier(Yes[s])
  <2>1. /\ stage[s] = "commit" /\ UNCHANGED <<turns, loaded>>
        /\ stage' = [stage EXCEPT ![s] = "done"]
    BY <1>4 DEF UpdateRecord, Enter
  <2>2. PICK old \in loaded[s], row \in record :
          record' = {[f \in DOMAIN new |-> IF new[f] # old[f] THEN new[f] ELSE row[f]]}
    BY <1>4 DEF UpdateRecord
  <2> DEFINE next == [f \in DOMAIN new |-> IF new[f] # old[f] THEN new[f] ELSE row[f]]
  <2>3. /\ DOMAIN new = {"tier", "trigger", "answers"} /\ new = [f \in DOMAIN new |-> new[f]]
        /\ Columns(new) /\ Submitted(new)
    BY ComputedTier, SubmittedColumns DEF ComputeTier
  <2> HIDE DEF new
  <2>4. Columns(row) /\ row \in record
    BY <2>2
  <2>5. Columns(next)
    <3>1. /\ DOMAIN next = {"tier", "trigger", "answers"}
          /\ next.answers \in {new.answers, row.answers} /\ next.tier \in {new.tier, row.tier}
      BY <2>3
    <3> HIDE DEF next
    <3> QED  BY <2>3, <2>4, <3>1 DEF Columns
  <2>6. turns => Submitted(next)
    <3> SUFFICES ASSUME turns PROVE Submitted(next)
      OBVIOUS
    <3>1. old = row
      BY <2>1, <2>2
    <3>2. next = [f \in DOMAIN new |-> new[f]]
      BY <3>1
    <3> HIDE DEF next
    <3> QED  BY <2>3, <3>2
  <2>7. record' = {next}
    BY <2>2 DEF new
  <2> HIDE DEF next
  <2>8. turns => \A r \in Submissions : ~AtWork(r)'
    BY <2>1 DEF AtWork
  <2> QED  BY <2>1, <2>5, <2>6, <2>7, <2>8 DEF AtWork, Columns, Submitted
<1>5. CASE UNCHANGED tieringVars
  BY <1>5 DEF tieringVars, AtWork, Columns, Submitted
<1> QED  BY <1>1, <1>2, <1>3, <1>4, <1>5 DEF TieringNext

(* In turns the tier is that of the answers next to it and its trigger the *)
(* first question that gives it; in a race each column is of a submission. *)
THEOREM TiersFollow == TieringSpec => []TierFollowsAnswers
<1>1. TieringInit => TInv
  BY DEF TieringInit, TInv, AtWork
<1>2. TInv => TierFollowsAnswers
  <2> SUFFICES ASSUME TInv, NEW row \in record
               PROVE  /\ \E s \in Submissions : row.answers = Yes[s]
                      /\ \E s \in Submissions : row.tier = TierOf(Yes[s])
                      /\ turns => row.tier = TierOf(row.answers) /\ TriggerFirst(row)
    BY DEF TierFollowsAnswers
  <2> QED  BY ComputedTier DEF TInv, Columns, Submitted
<1> QED  BY <1>1, <1>2, TInvNext, PTL DEF TieringSpec

-----------------------------------------------------------------------------
(* The rate limiter.  What is kept of a client's stamps is the end of what *)
(* it had admitted; whatever is not is before the window or of an earlier  *)
(* process; and Limit admissions further on a window has passed.  Said of  *)
(* a history h, the stamps s that are kept, the time t and the restarts r. *)

Admission == [at : Nat, after : Nat]
Gone(a, t, r) == a.after # r \/ a.at + Window < t

KeptIsTail(h, s, r) ==
  /\ Len(s) =< Len(h)
  /\ \A i \in 1..Len(s) : h[Len(h) - Len(s) + i].at = s[i] /\ h[Len(h) - Len(s) + i].after = r

ForgottenIsGone(h, s, t, r) == \A i \in 1..(Len(h) - Len(s)) : Gone(h[i], t, r)

Ordered(h, t, r) ==
  /\ \A i \in 1..Len(h) : h[i].at =< t /\ h[i].after =< r
  /\ \A i, j \in 1..Len(h) : i =< j => h[i].at =< h[j].at

Sparse(h) ==
  \A i, j \in 1..Len(h) : i + Limit =< j /\ h[i].after = h[j].after => h[i].at + Window < h[j].at

Consistent(h, s, t, r) ==
  /\ h \in Seq(Admission) /\ s \in Seq(Nat)
  /\ KeptIsTail(h, s, r) /\ ForgottenIsGone(h, s, t, r) /\ Ordered(h, t, r) /\ Sparse(h)

(* Limit admissions next to each other in the window of a refusal. *)
Witnessed(h, at, r) ==
  \E low \in Nat :
    /\ low + Limit =< Len(h)
    /\ \A i \in (low + 1)..(low + Limit) : h[i].after = r /\ h[i].at =< at /\ at =< h[i].at + Window

RInv ==
  /\ time \in Nat /\ restarts \in Nat
  /\ DOMAIN hits = Clients /\ DOMAIN history = Clients
  /\ \A c \in Clients : Consistent(history[c], hits[c], time, restarts)
  /\ refused # <<>> =>
       /\ refused.client \in Clients /\ refused.at \in Nat
       /\ Witnessed(history[refused.client], refused.at, restarts)

LEMMA AdmissionIs ==
  ASSUME NEW h \in Seq(Admission)
  PROVE  Len(h) \in Nat /\ \A i \in 1..Len(h) : h[i] \in Admission /\ h[i].at \in Nat /\ h[i].after \in Nat
<1>1. Len(h) \in Nat /\ \A i \in 1..Len(h) : h[i] \in Admission
  OBVIOUS
<1> QED  BY <1>1 DEF Admission

(* Popping from the front leaves the stamps from the first that is not     *)
(* before the window; none of those before it is in the window.            *)
LEMMA RecentIs ==
  ASSUME NEW s \in Seq(Nat), time \in Nat
  PROVE  \E k \in 0..Len(s) :
           /\ Recent(s) \in Seq(Nat) /\ Len(Recent(s)) = Len(s) - k
           /\ \A i \in 1..(Len(s) - k) : Recent(s)[i] = s[k + i]
           /\ \A i \in 1..k : s[i] + Window < time
           /\ k < Len(s) => time =< s[k + 1] + Window
<1> DEFINE I == {i \in 1..Len(s) : s[i] + Window >= time}
<1>0. Window \in Nat /\ Len(s) \in Nat /\ DOMAIN s = 1..Len(s) /\ \A i \in 1..Len(s) : s[i] \in Nat
  BY RateAssumption
<1>1. SelectInSeq(s, LAMBDA at : at + Window >= time) = IF I # {} THEN Min(I) ELSE 0
  BY DEF SelectInSeq
<1>2. I \in SUBSET Nat
  BY <1>0
<1>3. CASE I = {}
  <2>1. Recent(s) = <<>>
    BY <1>1, <1>3 DEF Recent, From
  <2>2. ASSUME NEW i \in 1..Len(s) PROVE s[i] + Window < time
    <3>1. i \notin I
      BY <1>3
    <3>2. s[i] \in Nat
      BY <1>0
    <3> QED  BY <1>0, <3>1, <3>2
  <2>3. <<>> \in Seq(Nat) /\ Len(<<>>) = Len(s) - Len(s)
    BY <1>0
  <2> WITNESS Len(s) \in 0..Len(s)
  <2> QED  BY <1>0, <2>1, <2>2, <2>3
<1>4. CASE I # {}
  <2>1. PICK m \in I : \A x \in I : m =< x
    BY <1>2, <1>4, HasLeast
  <2>2. m \in 1..Len(s) /\ s[m] + Window >= time /\ \A i \in 1..(m - 1) : s[i] + Window < time
    <3>1. m \in 1..Len(s) /\ s[m] + Window >= time
      BY <2>1
    <3>2. ASSUME NEW i \in 1..(m - 1) PROVE s[i] + Window < time
      <4>1. i \in 1..Len(s) /\ i \notin I
        BY <1>0, <2>1, <3>1
      <4> QED  BY <1>0, <4>1
    <3> QED  BY <3>1, <3>2
  <2>3. Min(I) = m
    <3> HIDE DEF I
    <3> QED  BY <1>2, <2>1, MinIs
  <2>4. Recent(s) = SubSeq(s, m, Len(s))
    <3>1. SelectInSeq(s, LAMBDA at : at + Window >= time) = m
      BY <1>1, <1>4, <2>3
    <3>2. Recent(s) = From(s, m)
      BY <3>1 DEF Recent
    <3>3. m # 0
      BY <2>2
    <3> QED  BY <3>2, <3>3 DEF From
  <2>5. /\ Recent(s) \in Seq(Nat) /\ Len(Recent(s)) = Len(s) - (m - 1)
        /\ \A i \in 1..(Len(s) - (m - 1)) : Recent(s)[i] = s[m - 1 + i]
    BY <1>0, <2>2, <2>4
  <2>6. m - 1 \in 0..Len(s) /\ (m - 1) + 1 = m
    BY <1>0, <2>2
  <2> WITNESS m - 1 \in 0..Len(s)
  <2> QED  BY <1>0, <2>2, <2>5, <2>6
<1> QED  BY <1>3, <1>4

(* Stamps that are before the window may be popped.                        *)
LEMMA ConsistentPops ==
  ASSUME NEW t \in Nat, NEW r \in Nat, NEW h, NEW s, Consistent(h, s, t, r),
         NEW k \in 0..Len(s), NEW recent \in Seq(Nat), Len(recent) = Len(s) - k,
         \A i \in 1..(Len(s) - k) : recent[i] = s[k + i],
         \A i \in 1..k : s[i] + Window < t
  PROVE  Consistent(h, recent, t, r)
<1> DEFINE n == Len(h)
           l == Len(s)
           m == Len(recent)
<1>1. /\ h \in Seq(Admission) /\ s \in Seq(Nat) /\ n \in Nat /\ l \in Nat /\ l =< n
      /\ k \in Nat /\ m \in Nat /\ m = l - k /\ Window \in Nat
  BY RateAssumption DEF Consistent, KeptIsTail
<1>2. /\ \A i \in 1..l : h[n - l + i].at = s[i] /\ h[n - l + i].after = r
      /\ \A i \in 1..(n - l) : Gone(h[i], t, r)
  BY DEF Consistent, KeptIsTail, ForgottenIsGone
<1> HIDE DEF n, l, m
<1>3. ASSUME NEW i \in 1..m PROVE h[n - m + i].at = recent[i] /\ h[n - m + i].after = r
  <2>1. k + i \in 1..l /\ n - l + (k + i) = n - m + i /\ i \in 1..(l - k)
    BY <1>1
  <2>2. recent[i] = s[k + i]
    BY <2>1 DEF l
  <2> QED  BY <1>2, <2>1, <2>2
<1>4. ASSUME NEW i \in 1..(n - m) PROVE Gone(h[i], t, r)
  <2>1. CASE i =< n - l
    <3>1. i \in 1..(n - l)
      BY <1>1, <2>1
    <3> QED  BY <1>2, <3>1
  <2>2. CASE i > n - l
    <3>1. PICK j \in 1..k : j \in 1..l /\ n - l + j = i
      <4>1. i - (n - l) \in 1..k /\ i - (n - l) \in 1..l /\ n - l + (i - (n - l)) = i
        BY <1>1, <2>2
      <4> QED  BY <4>1
    <3>2. h[i].at = s[j] /\ s[j] + Window < t
      BY <1>2, <3>1
    <3> QED  BY <3>2 DEF Gone
  <2> QED  BY <1>1, <2>1, <2>2
<1>5. m =< n
  BY <1>1
<1> QED  BY <1>3, <1>4, <1>5 DEF Consistent, KeptIsTail, ForgottenIsGone, n, m

(* With fewer than Limit stamps kept one more may be admitted: the         *)
(* admission Limit before it is not kept, so it is gone.                   *)
LEMMA ConsistentAdmits ==
  ASSUME NEW t \in Nat, NEW r \in Nat, NEW h, NEW s, Consistent(h, s, t, r), Len(s) < Limit
  PROVE  Consistent(Append(h, [at |-> t, after |-> r]), Append(s, t), t, r)
<1> DEFINE n == Len(h)
           l == Len(s)
           new == [at |-> t, after |-> r]
           hh == Append(h, new)
           ss == Append(s, t)
<1>1. /\ h \in Seq(Admission) /\ s \in Seq(Nat) /\ n \in Nat /\ l \in Nat /\ l =< n
      /\ Window \in Nat /\ Limit \in Nat /\ new \in Admission /\ l < Limit
  BY RateAssumption DEF Consistent, KeptIsTail, Admission
<1>2. /\ \A i \in 1..l : h[n - l + i].at = s[i] /\ h[n - l + i].after = r
      /\ \A i \in 1..(n - l) : Gone(h[i], t, r)
      /\ \A i \in 1..n : h[i].at =< t /\ h[i].after =< r
      /\ \A i, j \in 1..n : i =< j => h[i].at =< h[j].at
      /\ \A i, j \in 1..n : i + Limit =< j /\ h[i].after = h[j].after => h[i].at + Window < h[j].at
  BY DEF Consistent, KeptIsTail, ForgottenIsGone, Ordered, Sparse
<1>3. new.at = t /\ new.after = r
  OBVIOUS
<1> HIDE DEF new
<1>4. /\ hh \in Seq(Admission) /\ ss \in Seq(Nat) /\ Len(hh) = n + 1 /\ Len(ss) = l + 1
      /\ hh[n + 1] = new /\ ss[l + 1] = t
      /\ \A i \in 1..n : hh[i] = h[i]
      /\ \A i \in 1..l : ss[i] = s[i]
  BY <1>1
<1> HIDE DEF n, l, hh, ss
<1>5. ASSUME NEW i \in 1..(l + 1)
      PROVE  hh[(n + 1) - (l + 1) + i].at = ss[i] /\ hh[(n + 1) - (l + 1) + i].after = r
  <2>1. CASE i \in 1..l
    <3>1. (n + 1) - (l + 1) + i = n - l + i /\ n - l + i \in 1..n
      BY <1>1, <2>1
    <3>2. hh[n - l + i] = h[n - l + i] /\ ss[i] = s[i]
      BY <1>4, <2>1, <3>1
    <3> QED  BY <1>2, <2>1, <3>1, <3>2
  <2>2. CASE i = l + 1
    <3>1. (n + 1) - (l + 1) + i = n + 1
      BY <1>1, <2>2
    <3> QED  BY <1>3, <1>4, <2>2, <3>1
  <2> QED  BY <1>1, <2>1, <2>2
<1>6. ASSUME NEW i \in 1..((n + 1) - (l + 1)) PROVE Gone(hh[i], t, r)
  <2>1. i \in 1..(n - l) /\ i \in 1..n
    BY <1>1
  <2> QED  BY <1>2, <1>4, <2>1
<1>7. ASSUME NEW i \in 1..(n + 1) PROVE hh[i].at =< t /\ hh[i].after =< r
  <2>1. CASE i = n + 1
    BY <1>3, <1>4, <2>1
  <2>2. CASE i \in 1..n
    BY <1>2, <1>4, <2>2
  <2> QED  BY <1>1, <2>1, <2>2
<1>8. ASSUME NEW i \in 1..(n + 1), NEW j \in 1..(n + 1), i =< j PROVE hh[i].at =< hh[j].at
  <2>1. CASE j = n + 1
    BY <1>3, <1>4, <1>7, <2>1
  <2>2. CASE j \in 1..n
    <3>1. i \in 1..n
      BY <1>1, <1>8, <2>2
    <3> QED  BY <1>2, <1>4, <1>8, <2>2, <3>1
  <2> QED  BY <1>1, <2>1, <2>2
<1>9. ASSUME NEW i \in 1..(n + 1), NEW j \in 1..(n + 1), i + Limit =< j, hh[i].after = hh[j].after
      PROVE  hh[i].at + Window < hh[j].at
  <2>1. CASE j = n + 1
    <3>1. i \in 1..(n - l) /\ i \in 1..n
      BY <1>1, <1>9, <2>1
    <3>2. Gone(h[i], t, r) /\ hh[i] = h[i] /\ hh[j] = new
      BY <1>2, <1>4, <2>1, <3>1
    <3> QED  BY <1>3, <1>9, <3>2 DEF Gone
  <2>2. CASE j \in 1..n
    <3>1. i \in 1..n
      BY <1>1, <1>9, <2>2
    <3>2. hh[i] = h[i] /\ hh[j] = h[j]
      BY <1>4, <2>2, <3>1
    <3> QED  BY <1>2, <1>9, <2>2, <3>1, <3>2
  <2> QED  BY <1>1, <2>1, <2>2
<1>10. KeptIsTail(hh, ss, r)
  BY <1>1, <1>4, <1>5 DEF KeptIsTail
<1>11. ForgottenIsGone(hh, ss, t, r) /\ Ordered(hh, t, r) /\ Sparse(hh)
  BY <1>4, <1>6, <1>7, <1>8, <1>9 DEF ForgottenIsGone, Ordered, Sparse
<1>12. Consistent(hh, ss, t, r)
  BY <1>4, <1>10, <1>11 DEF Consistent
<1> QED  BY <1>12 DEF hh, ss, new

(* Time passes, and a restart forgets.                                     *)
LEMMA ConsistentLater ==
  ASSUME NEW t \in Nat, NEW r \in Nat, NEW h, NEW s, Consistent(h, s, t, r)
  PROVE  Consistent(h, s, t + 1, r) /\ Consistent(h, <<>>, t, r + 1)
<1> DEFINE n == Len(h)
<1>1. /\ h \in Seq(Admission) /\ s \in Seq(Nat) /\ n \in Nat /\ Window \in Nat
      /\ \A i \in 1..n : h[i] \in Admission /\ h[i].at \in Nat /\ h[i].after \in Nat
      /\ Len(s) \in Nat /\ Len(s) =< n
  <2>1. h \in Seq(Admission) /\ s \in Seq(Nat) /\ Len(s) =< n
    BY DEF Consistent, KeptIsTail
  <2>2. \A i \in 1..n : h[i] \in Admission /\ h[i].at \in Nat /\ h[i].after \in Nat
    BY <2>1, AdmissionIs
  <2>3. n \in Nat /\ Len(s) \in Nat /\ Limit \in Nat /\ Window \in Nat
    BY <2>1, RateAssumption
  <2> HIDE DEF n
  <2> QED  BY <2>1, <2>2, <2>3
<1>2. \A i \in 1..n : h[i].at =< t /\ h[i].after =< r
  BY DEF Consistent, Ordered
<1>3. Ordered(h, t + 1, r) /\ Ordered(h, t, r + 1)
  BY <1>1, <1>2 DEF Consistent, Ordered
<1>4. ForgottenIsGone(h, s, t + 1, r)
  BY <1>1 DEF Consistent, ForgottenIsGone, Gone
<1>5. ForgottenIsGone(h, <<>>, t, r + 1) /\ KeptIsTail(h, <<>>, r + 1)
  <2>1. Len(<<>>) = 0 /\ <<>> \in Seq(Nat)
    OBVIOUS
  <2> QED  BY <1>1, <1>2, <2>1 DEF ForgottenIsGone, KeptIsTail, Gone
<1> QED  BY <1>1, <1>3, <1>4, <1>5 DEF Consistent

(* A refusal goes on being justified by what was admitted before it.       *)
LEMMA WitnessedAfter ==
  ASSUME NEW h \in Seq(Admission), NEW new \in Admission, NEW at \in Nat, NEW r, Witnessed(h, at, r)
  PROVE  Witnessed(Append(h, new), at, r)
<1> DEFINE hh == Append(h, new)
<1>1. PICK low \in Nat :
        /\ low + Limit =< Len(h)
        /\ \A i \in (low + 1)..(low + Limit) : h[i].after = r /\ h[i].at =< at /\ at =< h[i].at + Window
  BY DEF Witnessed
<1>2. Len(hh) = Len(h) + 1 /\ Len(h) \in Nat /\ Limit \in Nat /\ \A i \in 1..Len(h) : hh[i] = h[i]
  BY RateAssumption
<1> HIDE DEF hh
<1>3. \A i \in (low + 1)..(low + Limit) : i \in 1..Len(h)
  BY <1>1, <1>2
<1>4. low + Limit =< Len(hh)
  BY <1>1, <1>2
<1>5. Witnessed(hh, at, r)
  BY <1>1, <1>2, <1>3, <1>4 DEF Witnessed
<1> QED  BY <1>5 DEF hh

(* Limit stamps in the window are as many admissions in it.                *)
LEMMA FullIsWitnessed ==
  ASSUME NEW t \in Nat, NEW r \in Nat, NEW h, NEW s, Consistent(h, s, t, r), Len(s) >= Limit,
         Len(s) > 0 => t =< s[1] + Window
  PROVE  Witnessed(h, t, r)
<1> DEFINE n == Len(h)
           l == Len(s)
<1>1. /\ h \in Seq(Admission) /\ s \in Seq(Nat) /\ n \in Nat /\ l \in Nat /\ l =< n /\ Limit \in Nat /\ l >= Limit
      /\ Window \in Nat /\ \A i \in 1..n : h[i].at \in Nat
  <2>0. l >= Limit
    OBVIOUS
  <2>1. h \in Seq(Admission) /\ s \in Seq(Nat) /\ l =< n
    BY DEF Consistent, KeptIsTail
  <2>2. \A i \in 1..n : h[i] \in Admission /\ h[i].at \in Nat /\ h[i].after \in Nat
    BY <2>1, AdmissionIs
  <2>3. n \in Nat /\ l \in Nat /\ Limit \in Nat /\ Window \in Nat
    BY <2>1, RateAssumption
  <2> HIDE DEF n, l
  <2> QED  BY <2>0, <2>1, <2>2, <2>3
<1>2. /\ \A i \in 1..l : h[n - l + i].at = s[i] /\ h[n - l + i].after = r
      /\ \A i \in 1..n : h[i].at =< t
      /\ \A i, j \in 1..n : i =< j => h[i].at =< h[j].at
  BY DEF Consistent, KeptIsTail, Ordered
<1>30. l > 0 => t =< s[1] + Window
  OBVIOUS
<1> HIDE DEF n, l
<1>3. ASSUME NEW i \in (n - l + 1)..(n - l + Limit)
      PROVE  h[i].after = r /\ h[i].at =< t /\ t =< h[i].at + Window
  <2>1. PICK j \in 1..l : i = n - l + j
    <3>1. i - (n - l) \in 1..l /\ i = n - l + (i - (n - l))
      BY <1>1
    <3> QED  BY <3>1
  <2>2. i \in 1..n /\ n - l + 1 \in 1..n /\ n - l + 1 =< i /\ 1 \in 1..l /\ l > 0
    BY <1>1
  <2>3. h[n - l + 1].at = s[1] /\ h[n - l + 1].at =< h[i].at
    BY <1>2, <2>2
  <2>4. h[i].after = r /\ h[i].at =< t
    BY <1>2, <2>1, <2>2
  <2>5. h[i].at \in Nat /\ h[n - l + 1].at \in Nat
    BY <1>1, <2>2
  <2> QED  BY <1>1, <1>30, <2>2, <2>3, <2>4, <2>5
<1>4. n - l \in Nat /\ (n - l) + Limit =< n
  BY <1>1
<1> QED  BY <1>3, <1>4 DEF Witnessed, n

LEMMA RInvInit == RateInit => RInv
<1> SUFFICES ASSUME RateInit PROVE RInv
  OBVIOUS
<1>1. /\ <<>> \in Seq(Nat) /\ <<>> \in Seq(Admission) /\ Len(<<>>) = 0
  OBVIOUS
<1>2. Consistent(<<>>, <<>>, 0, 0)
  BY <1>1 DEF Consistent, KeptIsTail, ForgottenIsGone, Ordered, Sparse
<1> QED  BY <1>2 DEF RateInit, RInv

LEMMA RInvRequest ==
  ASSUME RInv, NEW c \in Clients, Request(c)
  PROVE  RInv'
<1> DEFINE s == hits[c]
           h == history[c]
           recent == Recent(s)
           new == [at |-> time, after |-> restarts]
<1>1. /\ time \in Nat /\ restarts \in Nat /\ h \in Seq(Admission) /\ s \in Seq(Nat)
      /\ Consistent(h, s, time, restarts) /\ new \in Admission
      /\ Len(s) \in Nat /\ Limit \in Nat
  BY RateAssumption DEF RInv, Consistent, Admission
<1>2. PICK k \in 0..Len(s) :
        /\ recent \in Seq(Nat) /\ Len(recent) = Len(s) - k
        /\ \A i \in 1..(Len(s) - k) : recent[i] = s[k + i]
        /\ \A i \in 1..k : s[i] + Window < time
        /\ k < Len(s) => time =< s[k + 1] + Window
  BY <1>1, RecentIs
<1>3. Consistent(h, recent, time, restarts) /\ Len(recent) \in Nat
  <2> HIDE DEF recent, s, h
  <2>1. Consistent(h, recent, time, restarts)
    BY <1>1, <1>2, ConsistentPops, Zenon
  <2>2. Len(recent) \in Nat
    BY <1>1, <1>2
  <2> QED  BY <2>1, <2>2
<1>4. UNCHANGED <<time, restarts>>
  BY DEF Request
<1>5. CASE Len(recent) >= Limit
  <2>1. /\ refused' = [client |-> c, at |-> time] /\ hits' = [hits EXCEPT ![c] = recent] /\ UNCHANGED history
    BY <1>5 DEF Request
  <2>2. Len(recent) > 0 => time =< recent[1] + Window
    <3> SUFFICES ASSUME Len(recent) > 0 PROVE time =< recent[1] + Window
      OBVIOUS
    <3> HIDE DEF recent, s
    <3>1. k < Len(s) /\ 1 \in 1..(Len(s) - k)
      BY <1>1, <1>2
    <3> QED  BY <1>2, <3>1
  <2>3. Witnessed(h, time, restarts)
    <3> HIDE DEF recent, h
    <3> QED  BY <1>1, <1>3, <1>5, <2>2, FullIsWitnessed
  <2>4. /\ DOMAIN hits' = Clients /\ \A d \in Clients : Consistent(history[d], hits'[d], time, restarts)
    <3> HIDE DEF recent
    <3> QED  BY <1>3, <2>1 DEF RInv
  <2>5. refused'.client = c /\ refused'.at = time
    BY <2>1
  <2> QED  BY <1>1, <1>4, <2>1, <2>3, <2>4, <2>5 DEF RInv
<1>6. CASE Len(recent) < Limit
  <2>1. /\ hits' = [hits EXCEPT ![c] = Append(recent, time)] /\ history' = [history EXCEPT ![c] = Append(h, new)]
        /\ UNCHANGED refused
    <3>1. ~(Len(recent) >= Limit)
      BY <1>1, <1>3, <1>6
    <3> QED  BY <3>1 DEF Request
  <2>2. Consistent(Append(h, new), Append(recent, time), time, restarts)
    <3> HIDE DEF recent, h
    <3> QED  BY <1>1, <1>3, <1>6, ConsistentAdmits
  <2>3. /\ DOMAIN hits' = Clients /\ DOMAIN history' = Clients
        /\ \A d \in Clients : Consistent(history'[d], hits'[d], time, restarts)
    <3> HIDE DEF recent, new, h
    <3> QED  BY <2>1, <2>2 DEF RInv
  <2>4. ASSUME refused # <<>>
        PROVE  /\ refused.client \in Clients /\ refused.at \in Nat
               /\ Witnessed(history'[refused.client], refused.at, restarts)
    <3>1. /\ refused.client \in Clients /\ refused.at \in Nat
          /\ Witnessed(history[refused.client], refused.at, restarts)
      BY <2>4 DEF RInv
    <3>2. Witnessed(history[c], refused.at, restarts) => Witnessed(Append(h, new), refused.at, restarts)
      BY <1>1, <3>1, WitnessedAfter
    <3> HIDE DEF new
    <3> QED  BY <2>1, <3>1, <3>2 DEF RInv
  <2> QED  BY <1>1, <1>4, <2>1, <2>3, <2>4 DEF RInv
<1> QED  BY <1>1, <1>3, <1>5, <1>6

LEMMA RInvNext == RInv /\ [RateNext]_rateVars => RInv'
<1> SUFFICES ASSUME RInv, [RateNext]_rateVars PROVE RInv'
  OBVIOUS
<1>0. ASSUME NEW c \in Clients
      PROVE  /\ Consistent(history[c], hits[c], time + 1, restarts)
             /\ Consistent(history[c], <<>>, time, restarts + 1)
  BY ConsistentLater DEF RInv
<1>1. CASE Pass
  <2>1. time' = time + 1 /\ UNCHANGED <<hits, history, refused, restarts>>
    BY <1>1 DEF Pass
  <2>2. time' \in Nat
    BY <2>1 DEF RInv
  <2> QED  BY <1>0, <2>1, <2>2 DEF RInv
<1>2. CASE RestartLimiter
  <2>1. /\ restarts' = restarts + 1 /\ hits' = [c \in Clients |-> <<>>] /\ refused' = <<>>
        /\ UNCHANGED <<time, history>>
    BY <1>2 DEF RestartLimiter
  <2>2. restarts' \in Nat /\ \A c \in Clients : hits'[c] = <<>>
    BY <2>1 DEF RInv
  <2> QED  BY <1>0, <2>1, <2>2 DEF RInv
<1>3. ASSUME NEW c \in Clients, Request(c) PROVE RInv'
  BY <1>3, RInvRequest
<1>4. CASE UNCHANGED rateVars
  BY <1>4 DEF rateVars, RInv
<1> QED  BY <1>1, <1>2, <1>3, <1>4 DEF RateNext

(* A set of naturals that lie within n of its least has at most n of them. *)
LEMMA NarrowIsSmall ==
  ASSUME NEW S \in SUBSET Nat, NEW n \in Nat, \A i, j \in S : j < i + n
  PROVE  IsFiniteSet(S) /\ Cardinality(S) =< n
<1>1. CASE S = {}
  BY <1>1, FS_EmptySet
<1>2. CASE S # {}
  <2>1. PICK m \in S : \A x \in S : m =< x
    BY <1>2, HasLeast
  <2> DEFINE I == m..(m + n - 1)
  <2>2. S \subseteq I
    <3> SUFFICES ASSUME NEW x \in S PROVE x \in I
      OBVIOUS
    <3>1. m =< x /\ x < m + n /\ x \in Nat /\ m \in Nat
      BY <2>1
    <3> QED  BY <3>1
  <2>3. IsFiniteSet(I) /\ Cardinality(I) = n
    <3>1. m \in Int /\ m + n - 1 \in Int /\ m =< m + n - 1
      <4>1. n # 0
        BY <2>1
      <4> QED  BY <4>1
    <3> QED  BY <3>1, FS_Interval
  <2>4. IsFiniteSet(S) /\ Cardinality(S) =< Cardinality(I)
    BY <2>2, <2>3, FS_Subset
  <2> QED  BY <2>3, <2>4
<1> QED  BY <1>1, <1>2

(* As many indices follow low up to low + n as n says.                     *)
LEMMA RunHas ==
  ASSUME NEW low \in Nat, NEW n \in Nat
  PROVE  Cardinality((low + 1)..(low + n)) = n
<1> DEFINE a == low + 1
           b == low + n
<1>1. a \in Int /\ b \in Int /\ (IF a > b THEN 0 ELSE b - a + 1) = n
  OBVIOUS
<1> HIDE DEF a, b
<1>2. Cardinality(a..b) = IF a > b THEN 0 ELSE b - a + 1
  BY <1>1, FS_Interval
<1> QED  BY <1>1, <1>2 DEF a, b

LEMMA RInvRespects == RInv => WindowRespected
<1> SUFFICES ASSUME RInv PROVE WindowRespected
  OBVIOUS
<1>0. time \in Nat /\ Limit \in Nat /\ Window \in Nat
  BY RateAssumption DEF RInv
<1>1. ASSUME NEW c \in Clients
      PROVE  /\ history[c] \in Seq(Admission) /\ DOMAIN history[c] = 1..Len(history[c])
             /\ Len(history[c]) \in Nat /\ Sparse(history[c])
             /\ \A i \in 1..Len(history[c]) : history[c][i].at \in Nat
  <2>1. history[c] \in Seq(Admission) /\ Sparse(history[c])
    BY DEF RInv, Consistent
  <2> QED  BY <2>1, AdmissionIs
<1>2. ASSUME NEW c \in Clients, NEW t \in 0..time
      PROVE  Cardinality(Between(c, t, t + Window)) =< Limit
  <2> DEFINE S == Between(c, t, t + Window)
  <2>1. S \in SUBSET Nat
    BY <1>1 DEF Between
  <2>2. ASSUME NEW i \in S, NEW j \in S PROVE j < i + Limit
    <3>1. /\ i \in 1..Len(history[c]) /\ j \in 1..Len(history[c])
          /\ history[c][i].after = history[c][j].after
          /\ history[c][i].at >= t /\ history[c][j].at =< t + Window
      BY <1>1 DEF Between
    <3>2. history[c][i].at \in Nat /\ history[c][j].at \in Nat /\ i \in Nat /\ j \in Nat
      BY <1>1, <3>1
    <3>3. ~(history[c][i].at + Window < history[c][j].at)
      BY <1>0, <3>1, <3>2
    <3>4. ~(i + Limit =< j)
      BY <1>1, <3>1, <3>3 DEF Sparse
    <3> QED  BY <1>0, <3>2, <3>4
  <2> HIDE DEF S
  <2>3. Cardinality(S) =< Limit
    BY <1>0, <2>1, <2>2, NarrowIsSmall
  <2> QED  BY <2>3 DEF S
<1>3. ASSUME refused # <<>>
      PROVE  Cardinality(Between(refused.client, IF refused.at < Window THEN 0 ELSE refused.at - Window, refused.at)) >= Limit
  <2> DEFINE c == refused.client
             at == refused.at
             from == IF at < Window THEN 0 ELSE at - Window
             S == Between(c, from, at)
  <2>1. c \in Clients /\ at \in Nat /\ Witnessed(history[c], at, restarts)
    BY <1>3 DEF RInv
  <2>2. PICK low \in Nat :
          /\ low + Limit =< Len(history[c])
          /\ \A i \in (low + 1)..(low + Limit) :
               history[c][i].after = restarts /\ history[c][i].at =< at /\ at =< history[c][i].at + Window
    BY <2>1 DEF Witnessed
  <2> DEFINE I == (low + 1)..(low + Limit)
  <2>3. I \subseteq S
    <3> SUFFICES ASSUME NEW i \in I PROVE i \in S
      OBVIOUS
    <3>1. i \in 1..Len(history[c]) /\ i \in DOMAIN history[c] /\ history[c][i].at \in Nat
      <4> DEFINE n == Len(history[c])
      <4>1. n \in Nat /\ low \in Nat /\ low + Limit =< n
        BY <1>1, <2>1, <2>2
      <4>2. i \in (low + 1)..(low + Limit)
        OBVIOUS
      <4> HIDE DEF n, I
      <4>3. i \in 1..n
        BY <1>0, <4>1, <4>2
      <4> QED  BY <1>1, <2>1, <4>3 DEF n
    <3>2. history[c][i].after = restarts /\ history[c][i].at \in from..at
      BY <1>0, <2>1, <2>2, <3>1
    <3> QED  BY <3>1, <3>2 DEF Between
  <2>4. IsFiniteSet(S)
    <3>1. S \subseteq 1..Len(history[c])
      BY <1>1, <2>1 DEF Between
    <3>2. IsFiniteSet(1..Len(history[c]))
      BY <1>1, <2>1, FS_Interval
    <3> HIDE DEF S
    <3> QED  BY <3>1, <3>2, FS_Subset
  <2>5. Cardinality(I) = Limit
    BY <1>0, RunHas
  <2>6. Cardinality(I) =< Cardinality(S) /\ Cardinality(S) \in Nat
    <3> HIDE DEF S, I
    <3> QED  BY <2>3, <2>4, FS_Subset, FS_CardinalityType
  <2> QED  BY <1>0, <2>5, <2>6
<1> QED  BY <1>2, <1>3 DEF WindowRespected

(* In no window of its length does a client get more than Limit requests   *)
(* through, and it is refused only when that many went through: for any    *)
(* limit, window and clients, over any time.                               *)
THEOREM WindowIsRespected == RateSpec => []WindowRespected
BY RInvInit, RInvNext, RInvRespects, PTL DEF RateSpec

-----------------------------------------------------------------------------
(* Documents: the lines of a text in their fences.                         *)

Fence(t, f) ==
  /\ f.start \in 1..Len(t) /\ Opens(t[f.start]) /\ f = Open(t[f.start], f.start)
  /\ \A k \in 1..Len(t) : k > f.start => ~EndsFence(f, t[k])

(* A span starts at a fence that no line inside the span ends.             *)
Span(t, s) ==
  /\ s[1] \in 1..Len(t) /\ s[2] \in 1..Len(t)
  /\ \A k \in 1..Len(t) : k > s[1] /\ k < s[2] => ~EndsFence(Open(t[s[1]], s[1]), t[k])

(* The two functions are in the same fence, and the lines up to here are   *)
(* shared out.                                                             *)
FencesInv ==
  /\ text \in Seq(TextLines)
  /\ kept \subseteq 1..Len(text)
  /\ extracting = stripping
  /\ extracting = NoFence \/ Fence(text, extracting)
  /\ \A s \in blocks : Span(text, s)
  /\ \A n \in 1..Len(text) : n \in kept <=> ~(\E s \in Spans : n \in s[1]..s[2])

(* Before the first line no function is in a fence.                        *)
LEMMA FencesInvInit == FenceInit => FencesInv
<1> SUFFICES ASSUME FenceInit PROVE FencesInv
  OBVIOUS
<1>1. text = <<>> /\ Len(text) = 0 /\ text \in Seq(TextLines) /\ kept = {} /\ blocks = {} /\ 1..Len(text) = {}
  BY DEF FenceInit
<1>2. extracting = stripping /\ extracting = NoFence
  BY DEF FenceInit
<1> QED  BY <1>1, <1>2 DEF FencesInv

(* A line of the document keeps the fences invariant; it is read by both   *)
(* functions in the same step.                                             *)
LEMMA FencesInvNext == FencesInv /\ [DiagramsNext]_<<blockVars, fenceVars>> => FencesInv'
<1> SUFFICES ASSUME FencesInv, [DiagramsNext]_<<blockVars, fenceVars>> PROVE FencesInv'
  OBVIOUS
<1>1. CASE UNCHANGED fenceVars
  BY <1>1 DEF FencesInv, fenceVars, Spans, Fence, Span
<1>2. CASE FenceNext
  <2>1. PICK l \in TextLines : ReadTextLine(l)
    BY <1>2 DEF FenceNext
  <2> DEFINE n == Len(text) + 1
             f == extracting
  <2>2. /\ text \in Seq(TextLines) /\ Len(text) \in Nat /\ n \in Nat
        /\ text' = Append(text, l) /\ text' \in Seq(TextLines) /\ Len(text') = n /\ text'[n] = l
        /\ \A k \in 1..Len(text) : text'[k] = text[k]
    BY <2>1 DEF FencesInv, ReadTextLine
  <2>3. /\ extracting' = Tracked(f, l, n) /\ stripping' = Tracked(f, l, n)
        /\ blocks' = ExtractBlock(f, l, n, blocks) /\ kept' = Strip(f, l, n, kept)
    BY <2>1 DEF FencesInv, ReadTextLine
  <2>4. l = [char |-> l.char, run |-> l.run, rest |-> l.rest] /\ l.run \in Nat
    BY TextAssumption
  <2>5. \A s : Span(text, s) => Span(text', s) /\ s[2] < n
    BY <2>2 DEF Span
  <2>6. f.in => Fence(text, f) /\ f.start \in 1..Len(text)
    <3>1. extracting = NoFence \/ Fence(text, extracting)
      BY DEF FencesInv
    <3>2. ~NoFence.in
      BY DEF NoFence
    <3>3. Fence(text, extracting) => extracting.start \in 1..Len(text)
      BY DEF Fence
    <3> QED  BY <3>1, <3>2, <3>3
  <2>7. ~f.in => f = NoFence
    BY DEF FencesInv, Fence, Open
  <2>8. /\ (\A s \in blocks : Span(text, s)) /\ kept \subseteq 1..Len(text)
        /\ \A k \in 1..Len(text) : k \in kept <=> ~(\E s \in Spans : k \in s[1]..s[2])
    BY DEF FencesInv
  <2>9. kept' \subseteq 1..Len(text')
    <3>1. kept' \subseteq kept \cup {n}
      BY <2>3 DEF Strip
    <3> QED  BY <2>2, <2>8, <3>1
  <2>10. \A k \in 1..Len(text') : k = n \/ k \in 1..Len(text)
    BY <2>2
  (* The part of the invariant that depends on the fence the line is in. *)
  <2> DEFINE Rest ==
        /\ extracting' = NoFence \/ Fence(text', extracting')
        /\ \A s \in blocks' : Span(text', s)
        /\ \A k \in 1..Len(text') : k \in kept' <=> ~(\E s \in Spans' : k \in s[1]..s[2])
  <2>11. ASSUME ~f.in PROVE Rest
    <3>1. Spans = blocks /\ blocks' = blocks /\ (\A s \in blocks' : Span(text', s)) /\ ~(\E s \in blocks : n \in s[1]..s[2])
      BY <2>2, <2>3, <2>5, <2>8, <2>11 DEF Spans, ExtractBlock, Span
    <3>2. CASE ~Opens(l)
      <4>1. extracting' = NoFence /\ kept' = kept \cup {n}
        BY <2>3, <2>7, <2>11, <3>2 DEF Tracked, Strip
      <4>2. Spans' = blocks
        BY <3>1, <4>1 DEF Spans, NoFence
      <4> QED  BY <2>2, <2>8, <2>10, <3>1, <4>1, <4>2
    <3>3. CASE Opens(l)
      <4>1. extracting' = Open(l, n)
        BY <2>3, <2>11, <3>3 DEF Tracked
      <4>2. Fence(text', extracting')
        <5>1. extracting'.start = n /\ extracting'.in
          BY <4>1 DEF Open
        <5> QED  BY <2>2, <3>3, <4>1, <5>1 DEF Fence
      <4>3. CASE l.rest = "mermaid"
        <5>1. kept' = kept
          BY <2>3, <2>11, <3>3, <4>3 DEF Strip
        <5>2. Spans' = blocks \cup {<<n, n>>}
          BY <2>2, <3>1, <4>1, <4>3 DEF Spans, Open
        <5>3. \A k \in 1..Len(text') : k \in kept' <=> ~(\E s \in Spans' : k \in s[1]..s[2])
          <6>1. ~(n \in kept)
            BY <2>2, <2>8
          <6>2. \A k \in 1..Len(text) : (\E s \in Spans' : k \in s[1]..s[2]) <=> (\E s \in Spans : k \in s[1]..s[2])
            <7>1. \A k \in 1..Len(text) : ~(k \in <<n, n>>[1]..<<n, n>>[2])
              BY <2>2
            <7> QED  BY <3>1, <5>2, <7>1
          <6>3. \E s \in Spans' : n \in s[1]..s[2]
            <7>1. n \in <<n, n>>[1]..<<n, n>>[2]
              BY <2>2
            <7> QED  BY <5>2, <7>1
          <6> QED  BY <2>8, <2>10, <5>1, <6>1, <6>2, <6>3
        <5> QED  BY <3>1, <4>2, <5>3
      <4>4. CASE l.rest # "mermaid"
        <5>1. kept' = kept \cup {n}
          BY <2>3, <2>11, <3>3, <4>4 DEF Strip
        <5>2. Spans' = blocks
          BY <3>1, <4>1, <4>4 DEF Spans, Open
        <5> QED  BY <2>2, <2>8, <2>10, <3>1, <4>2, <5>1, <5>2
      <4> QED  BY <4>3, <4>4
    <3> QED  BY <3>2, <3>3
  <2>12. ASSUME f.in PROVE Rest
    <3>1. Fence(text, f) /\ f.start \in 1..Len(text) /\ f = Open(text[f.start], f.start)
      BY <2>6, <2>12 DEF Fence
    <3>2. CASE EndsFence(f, l)
      <4>1. extracting' = NoFence
        BY <2>3, <2>12, <3>2 DEF Tracked
      <4>2. CASE f.mermaid
        <5>1. kept' = kept /\ blocks' = blocks \cup {<<f.start, n>>} /\ Spans = blocks \cup {<<f.start, Len(text)>>}
          BY <2>3, <2>12, <3>2, <4>2 DEF Strip, ExtractBlock, Spans
        <5>2. Spans' = blocks'
          BY <4>1 DEF Spans, NoFence
        <5>3. Span(text', <<f.start, n>>)
          <6>1. \A k \in 1..Len(text) : k > f.start => ~EndsFence(f, text[k])
            BY <3>1 DEF Fence
          <6> DEFINE s == <<f.start, n>>
          <6>2. s[1] = f.start /\ s[2] = n /\ f = Open(text'[s[1]], s[1])
            BY <2>2, <3>1
          <6>3. \A k \in 1..Len(text') : k > f.start /\ k < n => k \in 1..Len(text) /\ text'[k] = text[k]
            BY <2>2, <3>1
          <6>4. f.start \in 1..Len(text') /\ n \in 1..Len(text')
            BY <2>2, <3>1
          <6> HIDE DEF s
          <6>5. Span(text', s)
            BY <6>1, <6>2, <6>3, <6>4 DEF Span
          <6> QED  BY <6>5 DEF s
        <5>4. \A k \in 1..Len(text') : k \in kept' <=> ~(\E s \in Spans' : k \in s[1]..s[2])
          <6> DEFINE a == <<f.start, Len(text)>>
                     b == <<f.start, n>>
          <6>1. /\ ~(n \in kept) /\ n \in b[1]..b[2]
                /\ \A k \in 1..Len(text) : k \in b[1]..b[2] <=> k \in a[1]..a[2]
            BY <2>2, <2>8, <3>1
          <6>2. Spans = blocks \cup {a} /\ Spans' = blocks \cup {b}
            BY <5>1, <5>2
          <6> HIDE DEF a, b
          <6> QED  BY <2>8, <2>10, <5>1, <6>1, <6>2
        <5>5. \A s \in blocks' : Span(text', s)
          BY <2>5, <2>8, <5>1, <5>3
        <5> QED  BY <4>1, <5>4, <5>5
      <4>3. CASE ~f.mermaid
        <5>1. kept' = kept \cup {n} /\ blocks' = blocks /\ Spans = blocks
          BY <2>3, <2>12, <4>3 DEF Strip, ExtractBlock, Spans
        <5>2. Spans' = blocks
          BY <4>1, <5>1 DEF Spans, NoFence
        <5>3. \A s \in blocks : ~(n \in s[1]..s[2])
          BY <2>2, <2>5, <2>8 DEF Span
        <5> QED  BY <2>2, <2>5, <2>8, <2>10, <4>1, <5>1, <5>2, <5>3
      <4> QED  BY <4>2, <4>3
    <3>3. CASE ~EndsFence(f, l)
      <4>1. extracting' = f /\ blocks' = blocks
        BY <2>3, <2>12, <3>3 DEF Tracked, ExtractBlock
      <4>2. Fence(text', extracting')
        BY <2>2, <2>10, <3>1, <3>3, <4>1 DEF Fence
      <4>3. \A s \in blocks' : Span(text', s)
        BY <2>5, <2>8, <4>1
      <4>4. CASE f.mermaid
        <5> DEFINE a == <<f.start, Len(text)>>
                   b == <<f.start, n>>
        <5>1. kept' = kept
          BY <2>3, <2>12, <4>4 DEF Strip
        <5>2. Spans = blocks \cup {a} /\ Spans' = blocks \cup {b}
          BY <2>2, <2>12, <4>1, <4>4 DEF Spans
        <5>3. /\ ~(n \in kept) /\ n \in b[1]..b[2]
              /\ \A k \in 1..Len(text) : k \in b[1]..b[2] <=> k \in a[1]..a[2]
          BY <2>2, <2>8, <3>1
        <5> HIDE DEF a, b
        <5>4. \A k \in 1..Len(text') : k \in kept' <=> ~(\E s \in Spans' : k \in s[1]..s[2])
          BY <2>8, <2>10, <5>1, <5>2, <5>3
        <5> QED  BY <4>2, <4>3, <5>4
      <4>5. CASE ~f.mermaid
        <5>1. kept' = kept \cup {n} /\ Spans = blocks /\ Spans' = blocks
          BY <2>3, <2>12, <4>1, <4>5 DEF Strip, Spans
        <5>2. \A s \in blocks : ~(n \in s[1]..s[2])
          BY <2>2, <2>5, <2>8 DEF Span
        <5> QED  BY <2>2, <2>8, <2>10, <4>2, <4>3, <5>1, <5>2
      <4> QED  BY <4>4, <4>5
    <3> QED  BY <3>2, <3>3
  <2>13. Rest
    BY <2>11, <2>12
  <2> QED  BY <2>2, <2>3, <2>9, <2>13 DEF FencesInv
<1> QED  BY <1>1, <1>2 DEF DiagramsNext

(* The invariant gives every line to exactly one side.                     *)
LEMMA FencesInvHolds == FencesInv => FencesPartition
<1> SUFFICES ASSUME FencesInv PROVE FencesPartition
  OBVIOUS
<1>1. \A n \in 1..Len(text) : (n \in kept) # (\E s \in Spans : n \in s[1]..s[2])
  BY DEF FencesInv
<1>2. ASSUME NEW s \in Spans, NEW n \in 1..Len(text), n > s[1], n < s[2]
      PROVE  ~EndsFence([char |-> text[s[1]].char, len |-> text[s[1]].run], text[n])
  <2>1. ~EndsFence(Open(text[s[1]], s[1]), text[n])
    <3>1. CASE s \in blocks
      BY <1>2, <3>1 DEF FencesInv, Span
    <3>2. CASE s \notin blocks
      <4>1. extracting.in /\ s = <<extracting.start, Len(text)>>
        BY <3>2 DEF Spans
      <4>2. Fence(text, extracting)
        <5>1. extracting = NoFence \/ Fence(text, extracting)
          BY DEF FencesInv
        <5>2. ~NoFence.in
          BY DEF NoFence
        <5> QED  BY <4>1, <5>1, <5>2
      <4> QED  BY <1>2, <4>1, <4>2 DEF Fence
    <3> QED  BY <3>1, <3>2
  <2> QED  BY <2>1 DEF EndsFence, Open
<1> QED  BY <1>1, <1>2 DEF FencesPartition

-----------------------------------------------------------------------------
(* Lists.                                                                  *)

IsList(x) == x \in Seq(Range(x))

(* A sequence over any set is a list.                                      *)
LEMMA IsAList ==
  ASSUME NEW S, NEW x \in Seq(S)
  PROVE  IsList(x)
<1>1. Len(x) \in Nat /\ x \in [1..Len(x) -> S] /\ DOMAIN x = 1..Len(x)
  OBVIOUS
<1>2. x \in [1..Len(x) -> Range(x)]
  BY <1>1 DEF Range
<1> QED  BY <1>1, <1>2 DEF IsList

(* A list has a length, and its positions are those up to it.              *)
LEMMA ListIs ==
  ASSUME NEW x, IsList(x)
  PROVE  Len(x) \in Nat /\ DOMAIN x = 1..Len(x)
BY DEF IsList

(* A function on the positions up to n is a list of length n.              *)
LEMMA ListOf ==
  ASSUME NEW x, NEW n \in Nat, DOMAIN x = 1..n, x = [i \in 1..n |-> x[i]]
  PROVE  IsList(x) /\ Len(x) = n
<1>1. x \in [1..n -> Range(x)]
  BY DEF Range
<1>2. x \in Seq(Range(x)) /\ Len(x) = n
  BY <1>1
<1> QED  BY <1>2 DEF IsList

(* A list and one element more.                                            *)
LEMMA ListLonger ==
  ASSUME NEW x, IsList(x), NEW y
  PROVE  /\ IsList(Append(x, y)) /\ Len(Append(x, y)) = Len(x) + 1
         /\ DOMAIN Append(x, y) = DOMAIN x \cup {Len(x) + 1}
         /\ Len(x) + 1 \notin DOMAIN x /\ Append(x, y)[Len(x) + 1] = y
         /\ \A i \in DOMAIN x : Append(x, y)[i] = x[i]
<1>1. Len(x) \in Nat /\ DOMAIN x = 1..Len(x) /\ x \in Seq(Range(x) \cup {y})
  BY DEF IsList
<1>2. /\ Append(x, y) \in Seq(Range(x) \cup {y}) /\ Len(Append(x, y)) = Len(x) + 1
      /\ Append(x, y)[Len(x) + 1] = y /\ (\A i \in 1..Len(x) : Append(x, y)[i] = x[i])
      /\ DOMAIN Append(x, y) = 1..(Len(x) + 1)
  BY <1>1
<1>3. IsList(Append(x, y))
  BY <1>2, IsAList
<1> QED  BY <1>1, <1>2, <1>3

(* The predecessor of a number that is not 0.                              *)
LEMMA OneLess == ASSUME NEW n \in Nat, n # 0 PROVE n - 1 \in Nat /\ n >= 1 /\ (n # 1 => 1 =< n - 1)
OBVIOUS

(* A sequence without its last element.                                    *)
LEMMA FrontOf ==
  ASSUME NEW S, NEW x \in Seq(S), Len(x) # 0
  PROVE  /\ SubSeq(x, 1, Len(x) - 1) \in Seq(S) /\ Len(SubSeq(x, 1, Len(x) - 1)) = Len(x) - 1
         /\ \A i \in 1..(Len(x) - 1) : SubSeq(x, 1, Len(x) - 1)[i] = x[i]
<1>1. SubSeq(x, 1, Len(x) - 1) \in Seq(S)
  OBVIOUS
<1>2. \A i \in 1..(Len(x) - 1) : SubSeq(x, 1, Len(x) - 1)[i] = x[i]
  OBVIOUS
<1>3. CASE Len(x) = 1
  BY <1>1, <1>2, <1>3
<1>4. CASE Len(x) # 1
  <2>1. Len(x) \in Nat
    OBVIOUS
  <2> DEFINE n == Len(x) - 1
  <2>2. n \in Nat /\ 1 =< n
    BY <1>4, <2>1, OneLess
  <2> HIDE DEF n
  <2>3. Len(SubSeq(x, 1, n)) = n
    BY <2>2
  <2> QED  BY <1>1, <1>2, <2>3 DEF n
<1> QED  BY <1>3, <1>4

(* A list without its last element.                                        *)
LEMMA ListFront ==
  ASSUME NEW x, IsList(x), x # <<>>
  PROVE  /\ Len(x) >= 1 /\ IsList(Front(x)) /\ Len(Front(x)) = Len(x) - 1
         /\ DOMAIN Front(x) = 1..(Len(x) - 1) /\ \A i \in DOMAIN Front(x) : Front(x)[i] = x[i]
<1>1. x \in Seq(Range(x)) /\ Len(x) \in Nat
  BY DEF IsList
<1>2. Len(x) # 0
  BY <1>1
<1> DEFINE y == SubSeq(x, 1, Len(x) - 1)
<1>3. /\ y \in Seq(Range(x)) /\ Len(y) = Len(x) - 1 /\ DOMAIN y = 1..(Len(x) - 1)
      /\ \A i \in 1..(Len(x) - 1) : y[i] = x[i]
  <2>1. y \in Seq(Range(x)) /\ Len(y) = Len(x) - 1 /\ \A i \in 1..(Len(x) - 1) : y[i] = x[i]
    BY <1>1, <1>2, FrontOf
  <2> HIDE DEF y
  <2> QED  BY <2>1
<1>4. IsList(y)
  BY <1>3, IsAList
<1> QED  BY <1>1, <1>2, <1>3, <1>4 DEF Front

(* Two lists, one after the other.                                         *)
LEMMA ListJoined ==
  ASSUME NEW x, IsList(x), NEW y, IsList(y)
  PROVE  /\ IsList(x \o y) /\ Len(x \o y) = Len(x) + Len(y)
         /\ \A i \in 1..Len(x) : (x \o y)[i] = x[i]
         /\ \A i \in 1..Len(y) : (x \o y)[Len(x) + i] = y[i]
<1> DEFINE S == Range(x) \cup Range(y)
<1>1. Len(x) \in Nat /\ Len(y) \in Nat /\ x \in Seq(S) /\ y \in Seq(S)
  BY DEF IsList
<1>2. x \o y \in Seq(S)
  BY <1>1
<1>3. IsList(x \o y)
  BY <1>2, IsAList
<1> HIDE DEF S
<1> QED  BY <1>1, <1>3

-----------------------------------------------------------------------------
(* Blocks: what the parser has read.                                       *)

Fields == {"nodes", "edges", "stack", "members", "children", "subgraphs", "auto"}

WellFormed(s) ==
  /\ DOMAIN s = Fields
  /\ IsList(s.stack) /\ IsList(s.edges) /\ IsList(s.subgraphs)
  /\ \A k \in DOMAIN s.stack : s.stack[k] \in DOMAIN s.members /\ s.stack[k] \in DOMAIN s.children

(* What the beginning of a subgraph or boundary changes, field by field.   *)
LEMMA EnterIs ==
  ASSUME NEW s, WellFormed(s), NEW id, NEW r, r = EnterSubgraph(s, id)
  PROVE  /\ DOMAIN r = Fields /\ r.nodes = s.nodes /\ r.edges = s.edges /\ r.subgraphs = s.subgraphs /\ r.auto = s.auto
         /\ r.stack = Append(s.stack, id) /\ r.members = PutAt(s.members, id, {})
         /\ r.children = Filed(s, PutAt(s.children, id, {}), id)
BY DEF EnterSubgraph, WellFormed, Fields

(* What the end of a subgraph or boundary changes, field by field.         *)
LEMMA ExitIs ==
  ASSUME NEW s, WellFormed(s), NEW r, r = ExitSubgraph(s)
  PROVE  /\ DOMAIN r = Fields /\ r.nodes = s.nodes /\ r.edges = s.edges /\ r.auto = s.auto
         /\ r.stack = Front(s.stack) /\ r.members = s.members /\ r.children = s.children
         /\ r.subgraphs = Append(s.subgraphs, [id |-> s.stack[Len(s.stack)], nodes |-> s.members[s.stack[Len(s.stack)]],
                                               children |-> s.children[s.stack[Len(s.stack)]]])
BY DEF ExitSubgraph, WellFormed, Fields, Last

(* What the mention of a node changes, field by field.                     *)
LEMMA RegisterIs ==
  ASSUME NEW s, WellFormed(s), NEW n, NEW r, r = RegisterNode(s, n)
  PROVE  /\ DOMAIN r = Fields /\ r.edges = s.edges /\ r.subgraphs = s.subgraphs /\ r.auto = s.auto
         /\ r.stack = s.stack /\ r.children = s.children /\ r.members = Filed(s, s.members, n.id)
         /\ r.nodes = IF n.id \notin DOMAIN s.nodes \/ (n.form # Default /\ s.nodes[n.id] = Default)
                      THEN PutAt(s.nodes, n.id, n.form) ELSE s.nodes
BY DEF RegisterNode, WellFormed, Fields

(* A subgraph or boundary that was closed has a name, and nodes of the     *)
(* diagram.                                                                *)
Closed(s, g) ==
  /\ g = [id |-> g.id, nodes |-> g.nodes, children |-> g.children] /\ g.id # Unnamed
  /\ g.nodes \subseteq DOMAIN s.nodes /\ IsFiniteSet(g.children)

Good(s) ==
  /\ WellFormed(s)
  /\ s.nodes = [x \in DOMAIN s.nodes |-> s.nodes[x]] /\ IsFiniteSet(DOMAIN s.nodes)
  /\ \A i \in DOMAIN s.edges : s.edges[i] = Edge(s.edges[i].source, s.edges[i].target, s.edges[i].bidirectional, s.edges[i].label)
  /\ \A k \in DOMAIN s.stack :
       s.stack[k] # Unnamed /\ s.members[s.stack[k]] \subseteq DOMAIN s.nodes /\ IsFiniteSet(s.children[s.stack[k]])
  /\ \A i \in DOMAIN s.subgraphs : Closed(s, s.subgraphs[i])

(* No id occurs twice among the subgraphs that are closed or open. *)
Distinct(s) ==
  /\ \A i, j \in DOMAIN s.subgraphs : s.subgraphs[i].id = s.subgraphs[j].id => i = j
  /\ \A i, j \in DOMAIN s.stack : s.stack[i] = s.stack[j] => i = j
  /\ \A i \in DOMAIN s.subgraphs, j \in DOMAIN s.stack : s.subgraphs[i].id # s.stack[j]

ClosedBefore(s, i, c) == \E j \in DOMAIN s.subgraphs : j < i /\ s.subgraphs[j].id = c

(* Children are closed before their parent is. *)
Tree(s) ==
  /\ \A i \in DOMAIN s.subgraphs : \A c \in s.subgraphs[i].children : ClosedBefore(s, i, c)
  /\ \A k \in DOMAIN s.stack : \A c \in s.children[s.stack[k]] :
       ClosedBefore(s, Len(s.subgraphs) + 1, c) \/ (k + 1 \in DOMAIN s.stack /\ c = s.stack[k + 1])

Kept(s, r) ==
  /\ Good(r) /\ r.auto = s.auto
  /\ Distinct(r) => Distinct(s) /\ (Tree(s) => Tree(r))

(* Lines that keep the invariant keep it together.                         *)
LEMMA KeptKept == ASSUME NEW s, NEW r, NEW t, Kept(s, r), Kept(r, t) PROVE Kept(s, t)
BY DEF Kept

(* A node that is registered keeps the invariant of the parser.            *)
LEMMA RegisterGood ==
  ASSUME NEW s, Good(s), NEW n
  PROVE  Kept(s, RegisterNode(s, n))
<1> DEFINE r == RegisterNode(s, n)
<1>1. WellFormed(s) /\ IsList(s.stack)
  BY DEF Good, WellFormed
<1>2. /\ DOMAIN r = Fields /\ r.edges = s.edges /\ r.subgraphs = s.subgraphs /\ r.auto = s.auto
      /\ r.stack = s.stack /\ r.children = s.children /\ r.members = Filed(s, s.members, n.id)
      /\ r.nodes = IF n.id \notin DOMAIN s.nodes \/ (n.form # Default /\ s.nodes[n.id] = Default)
                   THEN PutAt(s.nodes, n.id, n.form) ELSE s.nodes
  BY <1>1, RegisterIs
<1> HIDE DEF r
<1>3. DOMAIN r.nodes = DOMAIN s.nodes \cup {n.id} /\ r.nodes = [x \in DOMAIN r.nodes |-> r.nodes[x]]
  BY <1>2 DEF PutAt, Good
<1>4. IsFiniteSet(DOMAIN r.nodes)
  <2>1. IsFiniteSet(DOMAIN s.nodes)
    BY DEF Good
  <2>2. IsFiniteSet(DOMAIN s.nodes \cup {n.id})
    BY <2>1, FS_AddElement
  <2> QED  BY <1>3, <2>2
<1>5. /\ DOMAIN s.members \subseteq DOMAIN r.members
      /\ \A x \in DOMAIN s.members : r.members[x] \subseteq s.members[x] \cup {n.id}
  <2> DEFINE f == Filed(s, s.members, n.id)
  <2>1. s.stack = <<>> => f = s.members
    BY DEF Filed
  <2>2. ASSUME s.stack # <<>>
        PROVE  /\ DOMAIN f = DOMAIN s.members \cup {s.stack[Len(s.stack)]}
               /\ f[s.stack[Len(s.stack)]] = s.members[s.stack[Len(s.stack)]] \cup {n.id}
               /\ \A x \in DOMAIN s.members : x # s.stack[Len(s.stack)] => f[x] = s.members[x]
    BY <2>2 DEF Filed, PutAt, Last
  <2> HIDE DEF f
  <2>3. DOMAIN s.members \subseteq DOMAIN f /\ \A x \in DOMAIN s.members : f[x] \subseteq s.members[x] \cup {n.id}
    BY <2>1, <2>2
  <2> QED  BY <1>2, <2>3 DEF f
<1>6. ASSUME NEW k \in DOMAIN s.stack PROVE r.members[s.stack[k]] \subseteq DOMAIN r.nodes
  <2>1. s.members[s.stack[k]] \subseteq DOMAIN s.nodes /\ s.stack[k] \in DOMAIN s.members
    BY <1>1 DEF Good, WellFormed
  <2>2. r.members[s.stack[k]] \subseteq s.members[s.stack[k]] \cup {n.id}
    BY <1>5, <2>1
  <2> QED  BY <1>3, <2>1, <2>2
<1>7. WellFormed(r)
  BY <1>1, <1>2, <1>5 DEF WellFormed
<1>8. \A g : Closed(s, g) => Closed(r, g)
  BY <1>3 DEF Closed
<1>9. Good(r)
  BY <1>2, <1>3, <1>4, <1>6, <1>7, <1>8 DEF Good
<1>10. Distinct(r) => Distinct(s)
  BY <1>2 DEF Distinct
<1>11. Tree(s) => Tree(r)
  BY <1>2 DEF Tree, ClosedBefore
<1> QED  BY <1>2, <1>9, <1>10, <1>11 DEF Kept, r

(* So does a subgraph that begins: its id is new, or the ids are not       *)
(* distinct any more.                                                      *)
LEMMA EnterGood ==
  ASSUME NEW s, Good(s), NEW id, id # Unnamed
  PROVE  Kept(s, EnterSubgraph(s, id))
<1> DEFINE r == EnterSubgraph(s, id)
           n == Len(s.stack)
<1>1. WellFormed(s) /\ IsList(s.stack) /\ n \in Nat /\ DOMAIN s.stack = 1..n
  BY ListIs DEF Good, WellFormed
<1>2. /\ DOMAIN r = Fields /\ r.nodes = s.nodes /\ r.edges = s.edges /\ r.subgraphs = s.subgraphs /\ r.auto = s.auto
      /\ r.stack = Append(s.stack, id) /\ r.members = PutAt(s.members, id, {})
      /\ r.children = Filed(s, PutAt(s.children, id, {}), id)
  BY <1>1, EnterIs
<1> HIDE DEF r
<1>3. /\ IsList(r.stack) /\ DOMAIN r.stack = DOMAIN s.stack \cup {n + 1} /\ r.stack[n + 1] = id
      /\ \A k \in DOMAIN s.stack : r.stack[k] = s.stack[k]
  BY <1>1, <1>2, ListLonger
<1> DEFINE fresh == PutAt(s.children, id, {})
<1>4. /\ DOMAIN fresh = DOMAIN s.children \cup {id} /\ fresh[id] = {}
      /\ \A x \in DOMAIN s.children : x # id => fresh[x] = s.children[x]
      /\ DOMAIN r.members = DOMAIN s.members \cup {id} /\ r.members[id] = {}
      /\ \A x \in DOMAIN s.members : x # id => r.members[x] = s.members[x]
  BY <1>2 DEF PutAt
<1> HIDE DEF fresh
<1>5. /\ DOMAIN fresh \subseteq DOMAIN r.children
      /\ \A x \in DOMAIN fresh : r.children[x] = fresh[x] \/ r.children[x] = fresh[x] \cup {id}
      /\ \A x \in DOMAIN fresh : (\A k \in DOMAIN s.stack : k = n => x # s.stack[k]) => r.children[x] = fresh[x]
  <2> DEFINE f == Filed(s, fresh, id)
             top == s.stack[n]
  <2>1. s.stack = <<>> => f = fresh
    BY DEF Filed
  <2>2. ASSUME s.stack # <<>>
        PROVE  /\ n \in DOMAIN s.stack /\ DOMAIN f = DOMAIN fresh \cup {top} /\ f[top] = fresh[top] \cup {id}
               /\ \A x \in DOMAIN fresh : x # top => f[x] = fresh[x]
    <3>1. n \in DOMAIN s.stack
      BY <1>1, <2>2, ListFront
    <3> QED  BY <2>2, <3>1 DEF Filed, PutAt, Last
  <2>3. r.children = f
    BY <1>2 DEF fresh
  <2> HIDE DEF f
  <2>4. CASE s.stack = <<>>
    BY <2>1, <2>3, <2>4
  <2>5. CASE s.stack # <<>>
    BY <2>2, <2>3, <2>5
  <2> QED  BY <2>4, <2>5
<1>6. \A k \in DOMAIN r.stack : r.stack[k] \in DOMAIN r.members /\ r.stack[k] \in DOMAIN r.children
  BY <1>1, <1>3, <1>4, <1>5 DEF WellFormed
<1>7. WellFormed(r)
  BY <1>1, <1>2, <1>3, <1>6 DEF WellFormed
<1>8. ASSUME NEW k \in DOMAIN r.stack
      PROVE  r.stack[k] # Unnamed /\ r.members[r.stack[k]] \subseteq DOMAIN r.nodes /\ IsFiniteSet(r.children[r.stack[k]])
  <2> DEFINE x == r.stack[k]
  <2>1. x = id \/ (x # id /\ k \in DOMAIN s.stack /\ x = s.stack[k] /\ x \in DOMAIN s.members /\ x \in DOMAIN s.children)
    BY <1>1, <1>3 DEF WellFormed
  <2> HIDE DEF x
  <2>2. x # Unnamed /\ r.members[x] \subseteq DOMAIN r.nodes
    BY <1>2, <1>4, <2>1 DEF Good
  <2>3. x \in DOMAIN fresh /\ IsFiniteSet(fresh[x])
    BY <1>4, <2>1, FS_EmptySet DEF Good
  <2>4. IsFiniteSet(fresh[x] \cup {id})
    BY <2>3, FS_AddElement
  <2>5. IsFiniteSet(r.children[x])
    BY <1>5, <2>3, <2>4
  <2> QED  BY <2>2, <2>5 DEF x
<1>9. Good(r)
  BY <1>2, <1>7, <1>8 DEF Good, Closed
<1>10. ASSUME Distinct(r) PROVE Distinct(s) /\ (Tree(s) => Tree(r))
  <2>1. Distinct(s)
    BY <1>2, <1>3, <1>10 DEF Distinct
  <2>2. ASSUME Tree(s), NEW k \in DOMAIN r.stack, NEW c \in r.children[r.stack[k]]
        PROVE  ClosedBefore(r, Len(r.subgraphs) + 1, c) \/ (k + 1 \in DOMAIN r.stack /\ c = r.stack[k + 1])
    <3>1. CASE k = n + 1
      <4>1. \A j \in DOMAIN s.stack : id # s.stack[j]
        BY <1>1, <1>3, <1>10 DEF Distinct
      <4>2. r.children[id] = {}
        BY <1>4, <1>5, <4>1
      <4> QED  BY <1>3, <2>2, <3>1, <4>2
    <3>2. CASE k # n + 1
      <4>1. k \in DOMAIN s.stack /\ r.stack[k] = s.stack[k] /\ s.stack[k] \in DOMAIN s.children
        BY <1>1, <1>3, <3>2 DEF WellFormed
      <4>2. s.stack[k] # id
        BY <1>1, <1>3, <1>10, <3>2, <4>1 DEF Distinct
      <4>3. fresh[s.stack[k]] = s.children[s.stack[k]] /\ s.stack[k] \in DOMAIN fresh
        BY <1>4, <4>1, <4>2
      <4>4. c \in s.children[s.stack[k]] \/ (k = n /\ c = id)
        <5>1. CASE k = n
          BY <1>5, <2>2, <4>1, <4>3, <5>1
        <5>2. CASE k # n
          <6>1. \A j \in DOMAIN s.stack : j = n => s.stack[k] # s.stack[j]
            BY <2>1, <4>1, <5>2 DEF Distinct
          <6> QED  BY <1>5, <2>2, <4>1, <4>3, <6>1
        <5> QED  BY <5>1, <5>2
      <4>5. CASE k = n /\ c = id
        BY <1>1, <1>3, <4>5
      <4>6. CASE c \in s.children[s.stack[k]]
        <5>1. ClosedBefore(s, Len(s.subgraphs) + 1, c) \/ (k + 1 \in DOMAIN s.stack /\ c = s.stack[k + 1])
          BY <2>2, <4>1, <4>6 DEF Tree
        <5> QED  BY <1>2, <1>3, <5>1 DEF ClosedBefore
      <4> QED  BY <4>4, <4>5, <4>6
    <3> QED  BY <3>1, <3>2
  <2>3. ASSUME Tree(s) PROVE \A i \in DOMAIN r.subgraphs : \A c \in r.subgraphs[i].children : ClosedBefore(r, i, c)
    BY <1>2, <2>3 DEF Tree, ClosedBefore
  <2> QED  BY <2>1, <2>2, <2>3 DEF Tree
<1> QED  BY <1>2, <1>9, <1>10 DEF Kept, r

(* So does a subgraph that ends: it is closed after its children.          *)
LEMMA ExitGood ==
  ASSUME NEW s, Good(s), s.stack # <<>>
  PROVE  Kept(s, ExitSubgraph(s))
<1> DEFINE r == ExitSubgraph(s)
           n == Len(s.stack)
           m == Len(s.subgraphs)
           id == s.stack[n]
           g == [id |-> id, nodes |-> s.members[id], children |-> s.children[id]]
<1>1. /\ WellFormed(s) /\ IsList(s.stack) /\ n \in Nat /\ DOMAIN s.stack = 1..n
      /\ IsList(s.subgraphs) /\ m \in Nat /\ DOMAIN s.subgraphs = 1..m
  BY ListIs DEF Good, WellFormed
<1>2. /\ DOMAIN r = Fields /\ r.nodes = s.nodes /\ r.edges = s.edges /\ r.auto = s.auto
      /\ r.stack = Front(s.stack) /\ r.members = s.members /\ r.children = s.children
      /\ r.subgraphs = Append(s.subgraphs, g)
  BY <1>1, ExitIs
<1> HIDE DEF r
<1>3. /\ n >= 1 /\ n \in DOMAIN s.stack /\ IsList(r.stack) /\ DOMAIN r.stack = 1..(n - 1)
      /\ \A k \in DOMAIN r.stack : k \in DOMAIN s.stack /\ k # n /\ r.stack[k] = s.stack[k]
  BY <1>1, <1>2, ListFront
<1>4. /\ IsList(r.subgraphs) /\ DOMAIN r.subgraphs = DOMAIN s.subgraphs \cup {m + 1} /\ r.subgraphs[m + 1] = g
      /\ Len(r.subgraphs) = m + 1 /\ \A i \in DOMAIN s.subgraphs : r.subgraphs[i] = s.subgraphs[i]
  BY <1>1, <1>2, ListLonger
<1>5. id # Unnamed /\ s.members[id] \subseteq DOMAIN s.nodes /\ IsFiniteSet(s.children[id])
  BY <1>3 DEF Good
<1>6. g.id = id /\ g.nodes = s.members[id] /\ g.children = s.children[id] /\ Closed(r, g)
  BY <1>2, <1>5 DEF Closed
<1> HIDE DEF g, id
<1>7. WellFormed(r)
  BY <1>1, <1>2, <1>3, <1>4 DEF WellFormed
<1>8. Good(r)
  <2>1. \A i \in DOMAIN r.subgraphs : Closed(r, r.subgraphs[i])
    BY <1>2, <1>4, <1>6 DEF Good, Closed
  <2>2. \A k \in DOMAIN r.stack :
          r.stack[k] # Unnamed /\ r.members[r.stack[k]] \subseteq DOMAIN r.nodes /\ IsFiniteSet(r.children[r.stack[k]])
    BY <1>2, <1>3 DEF Good
  <2> QED  BY <1>2, <1>7, <2>1, <2>2 DEF Good
<1>9. ASSUME Distinct(r) PROVE Distinct(s) /\ (Tree(s) => Tree(r))
  <2>1. \A k \in DOMAIN s.stack : k # n => k \in DOMAIN r.stack /\ s.stack[k] # id
    <3>1. \A k \in DOMAIN s.stack : k # n => k \in DOMAIN r.stack
      BY <1>1, <1>3
    <3>2. \A k \in DOMAIN r.stack : r.stack[k] # id
      BY <1>4, <1>6, <1>9 DEF Distinct
    <3> QED  BY <1>3, <3>1, <3>2
  <2>2. \A i \in DOMAIN s.subgraphs : i # m + 1 /\ s.subgraphs[i].id # id
    BY <1>1, <1>4, <1>6, <1>9 DEF Distinct
  <2>3. \A i, j \in DOMAIN s.subgraphs : s.subgraphs[i].id = s.subgraphs[j].id => i = j
    BY <1>4, <1>9 DEF Distinct
  <2>4. \A i, j \in DOMAIN s.stack : s.stack[i] = s.stack[j] => i = j
    <3>1. s.stack[n] = id
      BY DEF id
    <3>2. \A i, j \in DOMAIN r.stack : s.stack[i] = s.stack[j] => i = j
      BY <1>3, <1>9 DEF Distinct
    <3> QED  BY <2>1, <3>1, <3>2
  <2>5. \A i \in DOMAIN s.subgraphs, j \in DOMAIN s.stack : s.subgraphs[i].id # s.stack[j]
    <3>1. s.stack[n] = id
      BY DEF id
    <3>2. \A i \in DOMAIN s.subgraphs, j \in DOMAIN r.stack : s.subgraphs[i].id # s.stack[j]
      BY <1>3, <1>4, <1>9 DEF Distinct
    <3> QED  BY <2>1, <2>2, <3>1, <3>2
  <2>6. Distinct(s)
    BY <2>3, <2>4, <2>5 DEF Distinct
  <2>7. ASSUME Tree(s) PROVE Tree(r)
    <3>1. \A i, c : ClosedBefore(s, i, c) => ClosedBefore(r, i, c)
      BY <1>4 DEF ClosedBefore
    <3>2. \A c \in g.children : ClosedBefore(s, m + 1, c)
      <4>1. n + 1 \notin DOMAIN s.stack
        BY <1>1
      <4>2. \A c \in s.children[s.stack[n]] : ClosedBefore(s, m + 1, c)
        BY <1>3, <2>7, <4>1 DEF Tree
      <4> QED  BY <1>6, <4>2 DEF id
    <3>3. \A i \in DOMAIN r.subgraphs : \A c \in r.subgraphs[i].children : ClosedBefore(r, i, c)
      BY <1>4, <2>7, <3>1, <3>2 DEF Tree
    <3>4. ASSUME NEW k \in DOMAIN r.stack, NEW c \in r.children[r.stack[k]]
          PROVE  ClosedBefore(r, Len(r.subgraphs) + 1, c) \/ (k + 1 \in DOMAIN r.stack /\ c = r.stack[k + 1])
      <4>1. k \in DOMAIN s.stack /\ c \in s.children[s.stack[k]]
        BY <1>2, <1>3, <3>4
      <4>2. ClosedBefore(s, m + 1, c) \/ (k + 1 \in DOMAIN s.stack /\ c = s.stack[k + 1])
        BY <2>7, <4>1 DEF Tree
      <4>3. CASE ClosedBefore(s, m + 1, c)
        <5>1. PICK j \in DOMAIN s.subgraphs : j < m + 1 /\ s.subgraphs[j].id = c
          BY <4>3 DEF ClosedBefore
        <5>2. j \in DOMAIN r.subgraphs /\ j < m + 2 /\ r.subgraphs[j].id = c
          BY <1>1, <1>4, <5>1
        <5>3. m + 2 = Len(r.subgraphs) + 1
          BY <1>1, <1>4
        <5> QED  BY <5>2, <5>3 DEF ClosedBefore
      <4>4. CASE k + 1 = n /\ c = s.stack[k + 1]
        <5>1. m + 1 \in DOMAIN r.subgraphs /\ r.subgraphs[m + 1].id = c
          BY <1>4, <1>6, <4>4 DEF id
        <5>2. m + 1 < Len(r.subgraphs) + 1
          BY <1>1, <1>4
        <5> QED  BY <5>1, <5>2 DEF ClosedBefore
      <4>5. CASE k + 1 # n /\ k + 1 \in DOMAIN s.stack /\ c = s.stack[k + 1]
        BY <1>3, <2>1, <4>5
      <4> QED  BY <4>2, <4>3, <4>4, <4>5
    <3> QED  BY <3>3, <3>4 DEF Tree
  <2> QED  BY <2>6, <2>7
<1> QED  BY <1>2, <1>8, <1>9 DEF Kept, r

(* A set of naturals that holds 0 and with each number below n the next    *)
(* one holds all up to n.                                                  *)
LEMMA UpTo ==
  ASSUME NEW S, NEW n \in Nat, 0 \in S, \A i \in 0..n : i + 1 \in 0..n /\ i \in S => i + 1 \in S
  PROVE  \A i \in 0..n : i \in S
<1> DEFINE Out == {i \in 0..n : i \notin S}
<1>1. SUFFICES ASSUME Out # {} PROVE FALSE
  OBVIOUS
<1>0. Out \in SUBSET Nat
  OBVIOUS
<1>2. PICK m \in Out : \A x \in Out : m =< x
  <2> HIDE DEF Out
  <2> QED  BY <1>0, <1>1, HasLeast
<1>3. m \in 0..n /\ m \notin S /\ m # 0
  BY <1>2
<1>4. m - 1 \in 0..n /\ (m - 1) + 1 = m /\ m - 1 \in Nat
  BY <1>3
<1>5. m - 1 \in S
  BY <1>2, <1>4
<1> QED  BY <1>3, <1>4, <1>5

(* A set of naturals that is bounded has a greatest element.               *)
LEMMA HasGreatest ==
  ASSUME NEW S \in SUBSET Nat, S # {}, NEW n \in Nat, \A x \in S : x =< n
  PROVE  \E m \in S : \A x \in S : x =< m
<1> DEFINE B == {b \in Nat : \A x \in S : x =< b}
<1>1. B \in SUBSET Nat /\ B # {}
  OBVIOUS
<1>2. PICK b \in B : \A c \in B : b =< c
  <2> HIDE DEF B
  <2> QED  BY <1>1, HasLeast
<1>3. b \in Nat /\ \A x \in S : x =< b
  BY <1>2
<1>4. ASSUME b \notin S PROVE FALSE
  <2>1. \A x \in S : x =< b /\ x # b /\ x \in Nat
    BY <1>3, <1>4
  <2>2. b # 0
    <3>1. PICK x \in S : TRUE
      OBVIOUS
    <3>2. x =< b /\ x # b /\ x \in Nat
      BY <2>1
    <3> QED  BY <1>3, <3>2
  <2>3. b - 1 \in Nat /\ \A x \in S : x =< b - 1
    BY <1>3, <2>1, <2>2
  <2>4. b - 1 \in B
    BY <2>3
  <2> QED  BY <1>2, <1>3, <2>3, <2>4
<1> QED  BY <1>3, <1>4

(* The nodes of a chain, one by one. *)
LEMMA RegisteredRun ==
  ASSUME NEW s, NEW nodes, IsList(nodes)
  PROVE  \E g : /\ g[0] = s /\ Registered(s, nodes) = g[Len(nodes)]
                /\ \A k \in 1..Len(nodes) : g[k] = RegisterNode(g[k - 1], nodes[k])
<1> DEFINE N == Len(nodes)
           one(g, k) == IF k = 0 THEN s ELSE RegisterNode(g[k - 1], nodes[k])
           M == {m \in 0..N : \E g : g = [k \in 0..m |-> one(g, k)]}
<1>0. N \in Nat
  BY ListIs
<1>1. 0 \in M
  <2> DEFINE g == [k \in 0..0 |-> s]
  <2>1. g = [k \in 0..0 |-> one(g, k)]
    OBVIOUS
  <2> HIDE DEF g
  <2> QED  BY <1>0, <2>1
<1>2. ASSUME NEW m \in 0..N, m + 1 \in 0..N, m \in M PROVE m + 1 \in M
  <2>1. PICK g : g = [k \in 0..m |-> one(g, k)]
    BY <1>2
  <2> DEFINE h == [k \in 0..(m + 1) |-> IF k = m + 1 THEN one(g, k) ELSE g[k]]
  <2>2. ASSUME NEW k \in 0..(m + 1) PROVE h[k] = one(h, k)
    <3>1. CASE k = m + 1
      <4>1. h[k] = RegisterNode(g[k - 1], nodes[k]) /\ k - 1 \in 0..m /\ k # 0
        BY <1>0, <3>1
      <4>2. h[k - 1] = g[k - 1]
        BY <1>0, <3>1, <4>1
      <4> HIDE DEF h
      <4> QED  BY <4>1, <4>2
    <3>2. CASE k # m + 1
      <4>1. k \in 0..m /\ h[k] = g[k] /\ (k # 0 => k - 1 \in 0..m /\ k - 1 \in 0..(m + 1) /\ k - 1 # m + 1)
        BY <1>0, <3>2
      <4>2. k # 0 => h[k - 1] = g[k - 1]
        BY <4>1
      <4> HIDE DEF h
      <4>3. g[k] = one(g, k)
        BY <2>1, <4>1
      <4> QED  BY <4>1, <4>2, <4>3
    <3> QED  BY <3>1, <3>2
  <2>3. DOMAIN h = 0..(m + 1) /\ h = [k \in 0..(m + 1) |-> h[k]]
    OBVIOUS
  <2> HIDE DEF h
  <2>4. h = [k \in 0..(m + 1) |-> one(h, k)]
    BY <2>2, <2>3
  <2> QED  BY <1>2, <2>4
<1>3. N \in M
  <2> HIDE DEF M, N
  <2> QED  BY <1>0, <1>1, <1>2, UpTo
<1> DEFINE after == CHOOSE g : g = [k \in 0..N |-> one(g, k)]
<1>4. after = [k \in 0..N |-> one(after, k)]
  BY <1>3
<1>5. Registered(s, nodes) = after[N]
  BY DEF Registered
<1> HIDE DEF after
<1>6. after[0] = s /\ \A k \in 1..N : after[k] = RegisterNode(after[k - 1], nodes[k])
  <2>1. 0 \in 0..N /\ \A k \in 1..N : k \in 0..N /\ k # 0
    BY <1>0
  <2> HIDE DEF N
  <2> QED  BY <1>4, <2>1
<1> QED  BY <1>5, <1>6

(* So does a line that changes nothing.                                    *)
LEMMA KeptSame == ASSUME NEW s, Good(s) PROVE Kept(s, s)
BY DEF Kept

(* The nodes of a chain, one after the other, keep the invariant.          *)
LEMMA RegisteredGood ==
  ASSUME NEW s, Good(s), NEW nodes, IsList(nodes)
  PROVE  Kept(s, Registered(s, nodes)) /\ Registered(s, nodes).edges = s.edges
<1>1. PICK g : /\ g[0] = s /\ Registered(s, nodes) = g[Len(nodes)]
               /\ \A k \in 1..Len(nodes) : g[k] = RegisterNode(g[k - 1], nodes[k])
  BY RegisteredRun
<1> DEFINE N == Len(nodes)
           M == {m \in 0..N : Kept(s, g[m]) /\ g[m].edges = s.edges}
<1>2. N \in Nat
  BY ListIs
<1>3. 0 \in M
  BY <1>1, <1>2, KeptSame
<1>4. ASSUME NEW m \in 0..N, m + 1 \in 0..N, m \in M PROVE m + 1 \in M
  <2> DEFINE a == g[m]
             b == g[m + 1]
  <2>1. Kept(s, a) /\ a.edges = s.edges /\ Good(a)
    BY <1>4 DEF Kept
  <2>2. b = RegisterNode(a, nodes[m + 1])
    <3>1. m + 1 \in 1..N /\ (m + 1) - 1 = m
      BY <1>2, <1>4
    <3> QED  BY <1>1, <3>1
  <2> HIDE DEF a, b
  <2>3. Kept(a, b)
    BY <2>1, <2>2, RegisterGood
  <2>4. b.edges = a.edges
    <3>1. WellFormed(a)
      BY <2>1 DEF Good
    <3> QED  BY <2>2, <3>1, RegisterIs
  <2>5. Kept(s, b)
    BY <2>1, <2>3, KeptKept
  <2> QED  BY <1>4, <2>1, <2>4, <2>5 DEF b
<1>5. N \in M
  <2> HIDE DEF M, N
  <2> QED  BY <1>2, <1>3, <1>4, UpTo
<1> QED  BY <1>1, <1>5

IsEdge(e) == e = Edge(e.source, e.target, e.bidirectional, e.label)

(* Edges that are appended keep the invariant.                             *)
LEMMA EdgesGood ==
  ASSUME NEW s, Good(s), NEW more, IsList(more), \A i \in DOMAIN more : IsEdge(more[i]),
         NEW r, r = [s EXCEPT !.edges = s.edges \o more]
  PROVE  Kept(s, r)
<1>0. WellFormed(s) /\ IsList(s.edges) /\ DOMAIN s = Fields
  BY DEF Good, WellFormed
<1>1. /\ DOMAIN r = Fields /\ r.nodes = s.nodes /\ r.subgraphs = s.subgraphs /\ r.auto = s.auto
      /\ r.stack = s.stack /\ r.children = s.children /\ r.members = s.members /\ r.edges = s.edges \o more
  BY <1>0 DEF Fields
<1>2. /\ IsList(r.edges) /\ Len(r.edges) = Len(s.edges) + Len(more)
      /\ \A i \in 1..Len(s.edges) : r.edges[i] = s.edges[i]
      /\ \A i \in 1..Len(more) : r.edges[Len(s.edges) + i] = more[i]
  <2> DEFINE e == s.edges
  <2>1. IsList(e)
    BY <1>0
  <2> HIDE DEF e
  <2>2. /\ IsList(e \o more) /\ Len(e \o more) = Len(e) + Len(more)
        /\ \A i \in 1..Len(e) : (e \o more)[i] = e[i]
        /\ \A i \in 1..Len(more) : (e \o more)[Len(e) + i] = more[i]
    BY <2>1, ListJoined
  <2>3. r.edges = e \o more
    BY <1>1 DEF e
  <2> QED  BY <2>2, <2>3 DEF e
<1>3. /\ Len(s.edges) \in Nat /\ DOMAIN s.edges = 1..Len(s.edges) /\ Len(more) \in Nat /\ DOMAIN more = 1..Len(more)
      /\ DOMAIN r.edges = 1..(Len(s.edges) + Len(more))
  BY <1>0, <1>2, ListIs
<1>4. ASSUME NEW i \in DOMAIN r.edges PROVE IsEdge(r.edges[i])
  <2>1. CASE i \in 1..Len(s.edges)
    BY <1>2, <1>3, <2>1 DEF Good, IsEdge
  <2>2. CASE i \notin 1..Len(s.edges)
    <3>1. i - Len(s.edges) \in 1..Len(more) /\ Len(s.edges) + (i - Len(s.edges)) = i
      BY <1>3, <2>2
    <3>2. r.edges[i] = more[i - Len(s.edges)]
      BY <1>2, <3>1
    <3> QED  BY <1>3, <3>1, <3>2
  <2> QED  BY <2>1, <2>2
<1>5. WellFormed(r)
  BY <1>0, <1>1, <1>2 DEF WellFormed
<1>6. Good(r)
  <2>1. \A i \in DOMAIN r.subgraphs : Closed(r, r.subgraphs[i])
    BY <1>1 DEF Good, Closed
  <2> QED  BY <1>1, <1>4, <1>5, <2>1 DEF Good, IsEdge
<1>7. Distinct(r) => Distinct(s)
  BY <1>1 DEF Distinct
<1>8. Tree(s) => Tree(r)
  BY <1>1 DEF Tree, ClosedBefore
<1> QED  BY <1>1, <1>6, <1>7, <1>8 DEF Kept

(* A chain keeps the invariant.                                            *)
LEMMA ChainGood ==
  ASSUME NEW s, Good(s), NEW nodes, IsList(nodes), NEW both, NEW label
  PROVE  Kept(s, Chain(s, nodes, both, label))
<1> DEFINE t == Registered(s, nodes)
           N == Len(nodes)
           more == [i \in 1..(N - 1) |-> Edge(nodes[i].id, nodes[i + 1].id, both, label)]
           r == [t EXCEPT !.edges = t.edges \o more]
<1>1. Kept(s, t) /\ t.edges = s.edges /\ Good(t)
  BY RegisteredGood DEF Kept
<1>2. Chain(s, nodes, both, label) = r
  BY <1>1 DEF Chain
<1>3. IsList(more)
  <2>1. N \in Nat
    BY ListIs
  <2>2. CASE N = 0
    <3>1. DOMAIN more = 1..0
      BY <2>2
    <3>2. more = [i \in 1..0 |-> more[i]]
      BY <2>2
    <3> HIDE DEF more
    <3> QED  BY <3>1, <3>2, ListOf
  <2>3. CASE N # 0
    <3>1. N - 1 \in Nat
      BY <2>1, <2>3, OneLess
    <3>2. DOMAIN more = 1..(N - 1) /\ more = [i \in 1..(N - 1) |-> more[i]]
      OBVIOUS
    <3> HIDE DEF more, N
    <3> QED  BY <3>1, <3>2, ListOf
  <2> QED  BY <2>2, <2>3
<1>4. \A i \in DOMAIN more : IsEdge(more[i])
  BY DEF IsEdge, Edge
<1> HIDE DEF t, more
<1>5. Kept(t, r)
  BY <1>1, <1>3, <1>4, EdgesGood
<1> HIDE DEF r
<1> QED  BY <1>1, <1>2, <1>5, KeptKept

(* The count of the subgraphs without a name is not part of the invariant. *)
LEMMA AutoGood ==
  ASSUME NEW s, Good(s), NEW n, NEW r, r = [s EXCEPT !.auto = n]
  PROVE  Good(r) /\ r.auto = n /\ (Distinct(r) => Distinct(s)) /\ (Tree(s) => Tree(r))
<1>0. WellFormed(s) /\ DOMAIN s = Fields
  BY DEF Good, WellFormed
<1>1. /\ DOMAIN r = Fields /\ r.nodes = s.nodes /\ r.subgraphs = s.subgraphs /\ r.auto = n /\ r.edges = s.edges
      /\ r.stack = s.stack /\ r.children = s.children /\ r.members = s.members
  BY <1>0 DEF Fields
<1>2. WellFormed(r)
  BY <1>0, <1>1 DEF WellFormed
<1>3. Good(r)
  <2>1. \A i \in DOMAIN r.subgraphs : Closed(r, r.subgraphs[i])
    BY <1>1 DEF Good, Closed
  <2> QED  BY <1>1, <1>2, <2>1 DEF Good
<1>4. (Distinct(r) => Distinct(s)) /\ (Tree(s) => Tree(r))
  BY <1>1 DEF Distinct, Tree, ClosedBefore
<1> QED  BY <1>1, <1>3, <1>4

(* What holds of a parser after a line that it accepts, of n lines before. *)
Sound(s) == Good(s) /\ (Distinct(s) => Tree(s))

(* A line that keeps the invariant leaves a sound parser.                  *)
LEMMA SoundKept == ASSUME NEW s, Sound(s), NEW r, Kept(s, r) PROVE Sound(r) /\ r.auto = s.auto
BY DEF Sound, Kept

(* Every line of a flowchart that is accepted keeps the parser sound.      *)
LEMMA FlowKeeps ==
  ASSUME NEW s, Sound(s), NEW n \in Nat, n < MaxLines, s.auto \in 0..n,
         NEW l \in FlowLines, FlowAccepts(s, l)
  PROVE  Sound(FlowLine(s, l)) /\ FlowLine(s, l).auto \in 0..(n + 1)
<1> DEFINE r == FlowLine(s, l)
<1>0. Good(s)
  BY DEF Sound
<1>1. CASE l.kind = "chain"
  <2>1. r = Chain(s, l.nodes, l.both, l.label)
    BY <1>1 DEF FlowLine
  <2>2. IsList(l.nodes)
    BY <1>1, StatementsAssumption DEF IsList
  <2>3. Kept(s, r)
    BY <1>0, <2>1, <2>2, ChainGood
  <2> HIDE DEF r
  <2>4. Sound(r) /\ r.auto = s.auto
    BY <2>3, SoundKept
  <2> QED  BY <2>4 DEF r
<1>2. CASE l.kind = "subgraph" /\ l.id # Unnamed
  <2>1. r = EnterSubgraph(s, l.id)
    BY <1>2 DEF FlowLine
  <2>2. Kept(s, r)
    BY <1>0, <1>2, <2>1, EnterGood
  <2> HIDE DEF r
  <2>3. Sound(r) /\ r.auto = s.auto
    BY <2>2, SoundKept
  <2> QED  BY <2>3 DEF r
<1>3. CASE l.kind = "subgraph" /\ l.id = Unnamed
  <2> DEFINE t == [s EXCEPT !.auto = s.auto + 1]
  <2>1. r = EnterSubgraph(t, AutoId(s))
    BY <1>3 DEF FlowLine
  <2>2. AutoId(s) # Unnamed
    <3>1. s.auto + 1 \in 1..MaxLines
      BY StatementsAssumption
    <3> QED  BY <3>1, StatementsAssumption DEF AutoId
  <2>3. Good(t) /\ t.auto = s.auto + 1 /\ (Distinct(t) => Distinct(s)) /\ (Tree(s) => Tree(t))
    BY <1>0, AutoGood
  <2> HIDE DEF t
  <2>4. Kept(t, EnterSubgraph(t, AutoId(s)))
    BY <2>2, <2>3, EnterGood
  <2>5. Sound(t)
    BY <2>3 DEF Sound
  <2> HIDE DEF r
  <2>6. Sound(r) /\ r.auto = s.auto + 1
    BY <2>1, <2>3, <2>4, <2>5, SoundKept
  <2>7. s.auto + 1 \in 0..(n + 1)
    OBVIOUS
  <2> QED  BY <2>6, <2>7 DEF r
<1>4. CASE l.kind = "end"
  <2>1. r = ExitSubgraph(s) /\ s.stack # <<>>
    BY <1>4 DEF FlowLine, FlowAccepts
  <2>2. Kept(s, r)
    BY <1>0, <2>1, ExitGood
  <2> HIDE DEF r
  <2>3. Sound(r) /\ r.auto = s.auto
    BY <2>2, SoundKept
  <2> QED  BY <2>3 DEF r
<1>5. CASE l.kind \notin {"chain", "subgraph", "end"}
  <2>1. r = s
    BY <1>5 DEF FlowLine
  <2> QED  BY <2>1
<1> QED  BY <1>1, <1>2, <1>3, <1>4, <1>5

(* Every line of a C4 diagram that is accepted keeps the parser sound.     *)
LEMMA C4Keeps ==
  ASSUME NEW s, Sound(s), NEW l \in C4Lines, C4Accepts(s, l)
  PROVE  Sound(C4Line(s, l)) /\ C4Line(s, l).auto = s.auto
<1> DEFINE r == C4Line(s, l)
<1>0. Good(s)
  BY DEF Sound
<1>1. Kept(s, r)
  <2>1. CASE l.kind = "element"
    <3>1. r = RegisterNode(s, [id |-> l.id, form |-> Default])
      BY <2>1 DEF C4Line
    <3> QED  BY <1>0, <3>1, RegisterGood
  <2>2. CASE l.kind = "boundary"
    <3>1. r = EnterSubgraph(s, l.id)
      BY <2>2 DEF C4Line
    <3> QED  BY <1>0, <2>2, <3>1, EnterGood, StatementsAssumption
  <2>3. CASE l.kind = "close"
    <3>1. r = ExitSubgraph(s) /\ s.stack # <<>>
      BY <2>3 DEF C4Line, C4Accepts
    <3> QED  BY <1>0, <3>1, ExitGood
  <2>4. CASE l.kind = "rel"
    <3> DEFINE e == IF l.macro = "Rel_Back" THEN Edge(l.target, l.source, FALSE, l.label)
                    ELSE Edge(l.source, l.target, l.macro = "BiRel", l.label)
               more == <<e>>
    <3>1. r = [s EXCEPT !.edges = Append(s.edges, e)]
      BY <2>4 DEF C4Line
    <3>2. IsEdge(e)
      BY DEF IsEdge, Edge
    <3> HIDE DEF e
    <3>3. IsList(more) /\ \A i \in DOMAIN more : IsEdge(more[i])
      <4>1. more \in Seq({e})
        OBVIOUS
      <4>2. IsList(more)
        BY <4>1, IsAList
      <4>3. Len(more) = 1 /\ more[1] = e
        OBVIOUS
      <4>4. DOMAIN more = 1..1
        BY <4>2, <4>3, ListIs
      <4>5. \A i \in DOMAIN more : i = 1
        BY <4>4
      <4> QED  BY <3>2, <4>2, <4>3, <4>5
    <3>4. Append(s.edges, e) = s.edges \o more
      <4>1. s.edges \in Seq(Range(s.edges) \cup {e})
        BY <1>0 DEF Good, WellFormed, IsList
      <4> QED  BY <4>1
    <3> HIDE DEF more
    <3>5. r = [s EXCEPT !.edges = s.edges \o more]
      BY <3>1, <3>4
    <3> HIDE DEF r
    <3> QED  BY <1>0, <3>3, <3>5, EdgesGood
  <2>5. CASE l.kind \notin {"element", "boundary", "close", "rel"}
    <3>1. r = s
      BY <2>5 DEF C4Line
    <3> QED  BY <1>0, <3>1, KeptSame
  <2> QED  BY <2>1, <2>2, <2>3, <2>4, <2>5
<1> HIDE DEF r
<1>2. Sound(r) /\ r.auto = s.auto
  BY <1>1, SoundKept
<1> QED  BY <1>2 DEF r

BlockSound == Sound(parser) /\ lines \in Nat /\ parser.auto \in 0..lines

(* The parser starts sound.                                                *)
LEMMA StartSound == Sound(Start0) /\ Start0.auto = 0 /\ Start0.stack = <<>>
<1> DEFINE s == Start0
<1>1. /\ DOMAIN s = Fields /\ s.nodes = <<>> /\ s.edges = <<>> /\ s.stack = <<>> /\ s.members = <<>>
      /\ s.children = <<>> /\ s.subgraphs = <<>> /\ s.auto = 0
  BY DEF Start0, Fields
<1> HIDE DEF s
<1>2. DOMAIN <<>> = {} /\ IsList(<<>>) /\ <<>> = [x \in DOMAIN <<>> |-> <<>>[x]]
  <2>1. <<>> \in Seq({})
    OBVIOUS
  <2>2. IsList(<<>>)
    BY <2>1, IsAList
  <2>3. DOMAIN <<>> = {}
    OBVIOUS
  <2>4. <<>> = [x \in {} |-> <<>>[x]]
    OBVIOUS
  <2> QED  BY <2>2, <2>3, <2>4
<1>3. WellFormed(s)
  BY <1>1, <1>2 DEF WellFormed
<1>4. Good(s)
  BY <1>1, <1>2, <1>3, FS_EmptySet DEF Good
<1>5. Tree(s)
  BY <1>1, <1>2 DEF Tree
<1> QED  BY <1>1, <1>4, <1>5 DEF Sound, s

(* The block starts with a sound parser.                                   *)
LEMMA BlockSoundInit == BlockInit => BlockSound
<1>1. BlockInit => parser = Start0 /\ lines = 0
  BY DEF BlockInit
<1> QED  BY <1>1, StartSound DEF BlockSound

(* Every step keeps the parser sound.                                      *)
LEMMA BlockSoundNext == BlockSound /\ [DiagramsNext]_<<blockVars, fenceVars>> => BlockSound'
<1> SUFFICES ASSUME BlockSound, [DiagramsNext]_<<blockVars, fenceVars>> PROVE BlockSound'
  OBVIOUS
<1>0. PICK s, n, r : s = parser /\ n = lines /\ r = parser'
  OBVIOUS
<1>1. Sound(s) /\ n \in Nat /\ s.auto \in 0..n
  BY <1>0 DEF BlockSound
<1>2. CASE UNCHANGED blockVars
  BY <1>2 DEF BlockSound, blockVars
<1>3. ASSUME NEW g, Header(g) PROVE BlockSound'
  BY <1>3 DEF Header, BlockSound
<1>4. ASSUME NEW l \in FlowLines, ReadFlowLine(l) PROVE BlockSound'
  <2>1. n < MaxLines /\ lines' = n + 1 /\ ((FlowAccepts(s, l) /\ r = FlowLine(s, l)) \/ r = s)
    BY <1>0, <1>4 DEF ReadFlowLine
  <2>2. Sound(r) /\ r.auto \in 0..(n + 1)
    <3>1. CASE FlowAccepts(s, l) /\ r = FlowLine(s, l)
      BY <1>1, <2>1, <3>1, FlowKeeps
    <3>2. CASE r = s
      BY <1>1, <3>2
    <3> QED  BY <2>1, <3>1, <3>2
  <2> QED  BY <1>0, <1>1, <2>1, <2>2 DEF BlockSound
<1>5. ASSUME NEW l \in C4Lines, ReadC4Line(l) PROVE BlockSound'
  <2>1. lines' = n + 1 /\ ((C4Accepts(s, l) /\ r = C4Line(s, l)) \/ r = s)
    BY <1>0, <1>5 DEF ReadC4Line
  <2>2. Sound(r) /\ r.auto = s.auto
    <3>1. CASE C4Accepts(s, l) /\ r = C4Line(s, l)
      BY <1>1, <3>1, C4Keeps
    <3>2. CASE r = s
      BY <1>1, <3>2
    <3> QED  BY <2>1, <3>1, <3>2
  <2>3. r.auto \in 0..(n + 1)
    BY <1>1, <2>2
  <2> QED  BY <1>0, <1>1, <2>1, <2>2, <2>3 DEF BlockSound
<1> QED  BY <1>2, <1>3, <1>4, <1>5 DEF DiagramsNext, BlockNext

-----------------------------------------------------------------------------
(* Reading a text.  Its states are given by a function on the number of    *)
(* lines read.                                                             *)

Goes(s, t, n, r) ==
  \E st : /\ st[0] = s /\ st[n] = r
          /\ \A k \in 1..n : FlowAccepts(st[k - 1], t[k]) /\ st[k] = FlowLine(st[k - 1], t[k])

Reads(s, t, r) == IsList(t) /\ Goes(s, t, Len(t), r)

(* A reading goes on by a line that is accepted.                           *)
LEMMA GoesOn ==
  ASSUME NEW s, NEW t, NEW n \in Nat, NEW r, Goes(s, t, n, r), FlowAccepts(r, t[n + 1])
  PROVE  Goes(s, t, n + 1, FlowLine(r, t[n + 1]))
<1> DEFINE goal == FlowLine(r, t[n + 1])
<1>1. PICK st : /\ st[0] = s /\ st[n] = r
                /\ \A k \in 1..n : FlowAccepts(st[k - 1], t[k]) /\ st[k] = FlowLine(st[k - 1], t[k])
  BY DEF Goes
<1> DEFINE q == [k \in 0..(n + 1) |-> IF k = n + 1 THEN goal ELSE st[k]]
<1>2. q[n + 1] = goal /\ \A k \in 0..n : q[k] = st[k]
  OBVIOUS
<1> HIDE DEF q
<1>3. ASSUME NEW k \in 1..(n + 1) PROVE FlowAccepts(q[k - 1], t[k]) /\ q[k] = FlowLine(q[k - 1], t[k])
  <2>1. CASE k = n + 1
    <3>1. k - 1 = n /\ n \in 0..n
      BY <2>1
    <3> QED  BY <1>1, <1>2, <2>1, <3>1
  <2>2. CASE k # n + 1
    <3>1. k \in 1..n /\ k \in 0..n /\ k - 1 \in 0..n
      BY <2>2
    <3> QED  BY <1>1, <1>2, <3>1
  <2> QED  BY <2>1, <2>2
<1>4. 0 \in 0..n
  OBVIOUS
<1>5. q[0] = s
  BY <1>1, <1>2, <1>4
<1> QED  BY <1>2, <1>3, <1>5 DEF Goes

(* The empty text changes nothing.                                         *)
LEMMA ReadsNone == ASSUME NEW s PROVE Reads(s, <<>>, s)
<1>1. IsList(<<>>) /\ Len(<<>>) = 0
  <2>1. <<>> \in Seq({})
    OBVIOUS
  <2> QED  BY <2>1, IsAList
<1>2. Goes(s, <<>>, 0, s)
  <2> DEFINE st == [k \in {0} |-> s]
  <2>1. st[0] = s
    OBVIOUS
  <2> HIDE DEF st
  <2>2. 1..0 = {}
    OBVIOUS
  <2> QED  BY <2>1, <2>2 DEF Goes
<1> QED  BY <1>1, <1>2 DEF Reads

(* A text of one line.                                                     *)
LEMMA ReadsOne ==
  ASSUME NEW s, NEW l, FlowAccepts(s, l)
  PROVE  Reads(s, <<l>>, FlowLine(s, l))
<1> DEFINE t == <<l>>
<1>1. t \in Seq({l}) /\ Len(t) = 1 /\ t[1] = l
  OBVIOUS
<1>2. IsList(t)
  BY <1>1, IsAList
<1> HIDE DEF t
<1> DEFINE st == [k \in 0..1 |-> IF k = 0 THEN s ELSE FlowLine(s, l)]
<1>3. st[0] = s /\ st[1] = FlowLine(s, l)
  OBVIOUS
<1> HIDE DEF st
<1>4. \A k \in 1..1 : FlowAccepts(st[k - 1], t[k]) /\ st[k] = FlowLine(st[k - 1], t[k])
  <2>1. \A k \in 1..1 : k = 1 /\ k - 1 = 0
    OBVIOUS
  <2> QED  BY <1>1, <1>3, <2>1
<1>5. Goes(s, t, 1, FlowLine(s, l))
  BY <1>3, <1>4 DEF Goes
<1> QED  BY <1>1, <1>2, <1>5 DEF Reads, t

(* A text after a text is read from where the first ended.                 *)
LEMMA ReadsJoined ==
  ASSUME NEW s, NEW t, NEW r, NEW u, NEW q, Reads(s, t, r), Reads(r, u, q)
  PROVE  Reads(s, t \o u, q)
<1> DEFINE m == Len(t)
           n == Len(u)
           v == t \o u
<1>1. IsList(t) /\ IsList(u) /\ m \in Nat /\ n \in Nat
  BY ListIs DEF Reads
<1>2. /\ IsList(v) /\ Len(v) = m + n
      /\ \A k \in 1..m : v[k] = t[k]
      /\ \A k \in 1..n : v[m + k] = u[k]
  BY <1>1, ListJoined
<1>3. PICK a : /\ a[0] = s /\ a[m] = r
               /\ \A k \in 1..m : FlowAccepts(a[k - 1], t[k]) /\ a[k] = FlowLine(a[k - 1], t[k])
  BY DEF Reads, Goes
<1>4. PICK b : /\ b[0] = r /\ b[n] = q
               /\ \A k \in 1..n : FlowAccepts(b[k - 1], u[k]) /\ b[k] = FlowLine(b[k - 1], u[k])
  BY DEF Reads, Goes
<1> HIDE DEF m, n, v
<1> DEFINE st == [k \in 0..(m + n) |-> IF k =< m THEN a[k] ELSE b[k - m]]
<1>5. /\ \A k \in 0..m : st[k] = a[k]
      /\ \A k \in 0..n : st[m + k] = b[k]
  <2>1. \A k \in 0..m : st[k] = a[k]
    BY <1>1
  <2>2. ASSUME NEW k \in 0..n PROVE st[m + k] = b[k]
    <3>1. m + k \in 0..(m + n) /\ (m + k =< m <=> k = 0) /\ (m + k) - m = k
      BY <1>1
    <3>2. CASE k = 0
      <4>1. st[m + k] = a[m + k] /\ m + k = m
        BY <1>1, <3>1, <3>2
      <4> HIDE DEF st
      <4> QED  BY <1>3, <1>4, <3>2, <4>1
    <3>3. CASE k # 0
      BY <3>1, <3>3
    <3> QED  BY <3>2, <3>3
  <2> HIDE DEF st
  <2> QED  BY <2>1, <2>2
<1> HIDE DEF st
<1>6. ASSUME NEW k \in 1..(m + n) PROVE FlowAccepts(st[k - 1], v[k]) /\ st[k] = FlowLine(st[k - 1], v[k])
  <2>1. CASE k =< m
    <3>1. k \in 1..m /\ k \in 0..m /\ k - 1 \in 0..m
      BY <1>1, <2>1
    <3> QED  BY <1>2, <1>3, <1>5, <3>1
  <2>2. CASE ~(k =< m)
    <3> DEFINE j == k - m
    <3>1. j \in 1..n /\ j \in 0..n /\ j - 1 \in 0..n /\ m + j = k /\ m + (j - 1) = k - 1
      BY <1>1, <2>2
    <3> HIDE DEF j
    <3>2. st[k] = b[j] /\ st[k - 1] = b[j - 1] /\ v[k] = u[j]
      BY <1>2, <1>5, <3>1
    <3> QED  BY <1>4, <3>1, <3>2
  <2> QED  BY <2>1, <2>2
<1>7. 0 \in 0..m /\ n \in 0..n
  BY <1>1
<1>8. st[0] = s /\ st[m + n] = q
  BY <1>3, <1>4, <1>5, <1>7
<1>9. Goes(s, v, m + n, q)
  BY <1>6, <1>8 DEF Goes
<1> QED  BY <1>2, <1>9 DEF Reads, v

(* The recursive function that reads a text has the states of the reading. *)
LEMMA ReadingIs ==
  ASSUME NEW t, NEW r, Reads(Start0, t, r)
  PROVE  Reading(t) = [ok |-> TRUE, state |-> r]
<1> DEFINE n == Len(t)
           one(g, k) == IF k = 0 THEN [ok |-> TRUE, state |-> Start0] ELSE ReadOn(g[k - 1], t[k])
           right(x) == [ok |-> TRUE, state |-> x]
<1>1. n \in Nat
  BY ListIs DEF Reads
<1>2. PICK st : /\ st[0] = Start0 /\ st[n] = r
                /\ \A k \in 1..n : FlowAccepts(st[k - 1], t[k]) /\ st[k] = FlowLine(st[k - 1], t[k])
  BY DEF Reads, Goes
<1> HIDE DEF n
<1>3. ASSUME NEW k \in 1..n PROVE ReadOn(right(st[k - 1]), t[k]) = right(st[k])
  BY <1>2, <1>3 DEF ReadOn
<1> DEFINE h == [k \in 0..n |-> right(st[k])]
<1>4. ASSUME NEW k \in 0..n PROVE h[k] = one(h, k)
  <2>1. CASE k = 0
    BY <1>2, <2>1
  <2>2. CASE k # 0
    <3>1. k \in 1..n /\ k - 1 \in 0..n
      BY <1>1, <2>2
    <3>2. h[k] = right(st[k]) /\ h[k - 1] = right(st[k - 1])
      BY <3>1
    <3> HIDE DEF h
    <3> QED  BY <1>3, <2>2, <3>1, <3>2
  <2> QED  BY <2>1, <2>2
<1>5. h = [k \in 0..n |-> h[k]]
  OBVIOUS
<1> HIDE DEF h
<1>6. h = [k \in 0..n |-> one(h, k)]
  BY <1>4, <1>5
<1> DEFINE after == CHOOSE g : g = [k \in 0..n |-> one(g, k)]
<1>7. after = [k \in 0..n |-> one(after, k)]
  BY <1>6
<1>8. Reading(t) = after[n]
  BY DEF Reading, n
<1> HIDE DEF after
<1> DEFINE M == {m \in 0..n : after[m] = right(st[m])}
<1>9. 0 \in M
  <2>1. 0 \in 0..n
    BY <1>1
  <2>2. after[0] = [ok |-> TRUE, state |-> Start0]
    BY <1>7, <2>1
  <2> QED  BY <1>2, <2>1, <2>2
<1>10. ASSUME NEW m \in 0..n, m + 1 \in 0..n, m \in M PROVE m + 1 \in M
  <2>1. after[m + 1] = ReadOn(after[m], t[m + 1])
    <3>1. m + 1 # 0 /\ (m + 1) - 1 = m
      BY <1>1
    <3> QED  BY <1>7, <1>10, <3>1
  <2>2. ReadOn(right(st[m]), t[m + 1]) = right(st[m + 1])
    <3>1. m + 1 \in 1..n /\ (m + 1) - 1 = m
      BY <1>1, <1>10
    <3> QED  BY <1>3, <3>1
  <2> QED  BY <1>10, <2>1, <2>2
<1>11. n \in M
  <2> HIDE DEF M
  <2> QED  BY <1>1, <1>9, <1>10, UpTo
<1> QED  BY <1>2, <1>8, <1>11

(* Texts that are joined, one by one. *)
LEMMA JoinedRun ==
  ASSUME NEW texts, IsList(texts)
  PROVE  \E g : /\ g[0] = <<>> /\ Joined(texts) = g[Len(texts)]
                /\ \A k \in 1..Len(texts) : g[k] = g[k - 1] \o texts[k]
<1> DEFINE N == Len(texts)
           one(g, k) == IF k = 0 THEN <<>> ELSE g[k - 1] \o texts[k]
           M == {m \in 0..N : \E g : g = [k \in 0..m |-> one(g, k)]}
<1>0. N \in Nat
  BY ListIs
<1>1. 0 \in M
  <2> DEFINE g == [k \in 0..0 |-> <<>>]
  <2>1. g = [k \in 0..0 |-> one(g, k)]
    OBVIOUS
  <2> HIDE DEF g
  <2>2. \E e : e = [k \in 0..0 |-> one(e, k)]
    BY <2>1
  <2>3. 0 \in 0..N
    BY <1>0
  <2> HIDE DEF one
  <2> QED  BY <2>2, <2>3
<1>2. ASSUME NEW m \in 0..N, m + 1 \in 0..N, m \in M PROVE m + 1 \in M
  <2>1. PICK g : g = [k \in 0..m |-> one(g, k)]
    BY <1>2
  <2> DEFINE h == [k \in 0..(m + 1) |-> IF k = m + 1 THEN one(g, k) ELSE g[k]]
  <2>2. ASSUME NEW k \in 0..(m + 1) PROVE h[k] = one(h, k)
    <3>1. CASE k = m + 1
      <4>0. k - 1 \in 0..m /\ k # 0 /\ k \in 0..(m + 1)
        BY <1>0, <3>1
      <4>1. h[k] = g[k - 1] \o texts[k] /\ k - 1 \in 0..m /\ k # 0
        BY <3>1, <4>0
      <4>2. h[k - 1] = g[k - 1]
        BY <1>0, <3>1, <4>1
      <4> HIDE DEF h
      <4> QED  BY <4>1, <4>2
    <3>2. CASE k # m + 1
      <4>1. k \in 0..m /\ h[k] = g[k] /\ (k # 0 => k - 1 \in 0..m /\ k - 1 \in 0..(m + 1) /\ k - 1 # m + 1)
        BY <1>0, <3>2
      <4>2. k # 0 => h[k - 1] = g[k - 1]
        BY <4>1
      <4> HIDE DEF h
      <4>3. g[k] = one(g, k)
        BY <2>1, <4>1
      <4> QED  BY <4>1, <4>2, <4>3
    <3> QED  BY <3>1, <3>2
  <2>3. DOMAIN h = 0..(m + 1) /\ h = [k \in 0..(m + 1) |-> h[k]]
    OBVIOUS
  <2> HIDE DEF h
  <2>4. h = [k \in 0..(m + 1) |-> one(h, k)]
    BY <2>2, <2>3
  <2> QED  BY <1>2, <2>4
<1>3. N \in M
  <2> HIDE DEF M, N
  <2> QED  BY <1>0, <1>1, <1>2, UpTo
<1> DEFINE upTo == CHOOSE g : g = [k \in 0..N |-> one(g, k)]
<1>4. upTo = [k \in 0..N |-> one(upTo, k)]
  BY <1>3
<1>5. Joined(texts) = upTo[N]
  BY DEF Joined
<1> HIDE DEF upTo
<1>6. upTo[0] = <<>> /\ \A k \in 1..N : upTo[k] = upTo[k - 1] \o texts[k]
  <2>1. 0 \in 0..N /\ \A k \in 1..N : k \in 0..N /\ k # 0
    BY <1>0
  <2> HIDE DEF N
  <2> QED  BY <1>4, <2>1
<1> QED  BY <1>5, <1>6

(* A finite set in some order. *)
LEMMA InSomeOrder ==
  ASSUME NEW S, IsFiniteSet(S)
  PROVE  IsList(SetToSeq(S)) /\ Range(SetToSeq(S)) = S
<1> DEFINE n == Cardinality(S)
           f == SetToSeq(S)
<1>1. n \in Nat /\ ExistsBijection(1..n, S)
  BY FS_CardinalityType
<1>2. PICK b : b \in Bijection(1..n, S)
  BY <1>1 DEF ExistsBijection
<1>3. b \in [1..n -> S] /\ IsInjective(b)
  BY <1>2 DEF Bijection, Injection, IsInjective
<1>4. f \in [1..n -> S] /\ IsInjective(f)
  BY <1>3 DEF SetToSeq
<1> HIDE DEF f
<1>5. f \in Injection(1..n, S)
  BY <1>4 DEF Injection, IsInjective
<1>6. Cardinality(1..n) = n
  <2>1. 1 \in Int /\ n \in Int
    BY <1>1
  <2>2. Cardinality(1..n) = IF 1 > n THEN 0 ELSE n - 1 + 1
    BY <2>1, FS_Interval
  <2> HIDE DEF n
  <2> QED  BY <1>1, <2>2
<1>7. f \in Surjection(1..n, S)
  BY <1>5, <1>6, FS_Injection
<1>8. Range(f) = S
  BY <1>4, <1>7 DEF Surjection, Range
<1>9. IsList(f)
  <2> HIDE DEF n
  <2>1. f \in Seq(S)
    BY <1>1, <1>4
  <2> QED  BY <2>1, IsAList
<1> QED  BY <1>8, <1>9 DEF f

-----------------------------------------------------------------------------
(* Rendering.  A subgraph's text is made of those of its children, and     *)
(* they have smaller positions; so there are such texts.                   *)

Diagram(d) == Good(d) /\ Distinct(d) /\ Tree(d) /\ Legible(d)

(* A child is at a smaller position than its parent, and found by its id.  *)
LEMMA ByIdIs ==
  ASSUME NEW d, Diagram(d), NEW i \in DOMAIN d.subgraphs, NEW c \in d.subgraphs[i].children
  PROVE  ById(d, c) \in DOMAIN d.subgraphs /\ ById(d, c) < i /\ d.subgraphs[ById(d, c)].id = c
<1> DEFINE b == ById(d, c)
           last(x) == d.subgraphs[x].id = c /\ \A j \in DOMAIN d.subgraphs : j > x => d.subgraphs[j].id # c
<1>0. IsList(d.subgraphs) /\ Len(d.subgraphs) \in Nat /\ DOMAIN d.subgraphs = 1..Len(d.subgraphs)
  BY ListIs DEF Diagram, Good, WellFormed
<1>1. PICK j \in DOMAIN d.subgraphs : j < i /\ d.subgraphs[j].id = c
  BY DEF Diagram, Tree, ClosedBefore
<1>2. \A x \in DOMAIN d.subgraphs : d.subgraphs[x].id = c => x = j
  BY <1>1 DEF Diagram, Distinct
<1>3. last(j)
  BY <1>0, <1>1, <1>2
<1>4. b = CHOOSE x \in DOMAIN d.subgraphs : last(x)
  BY DEF ById
<1> HIDE DEF b
<1>5. b \in DOMAIN d.subgraphs /\ last(b)
  BY <1>1, <1>3, <1>4
<1>6. b = j
  BY <1>2, <1>5
<1> QED  BY <1>1, <1>5, <1>6 DEF b

Inner(d, i) == SetToSeq(d.subgraphs[i].children)

(* The children of a subgraph in the order in which they are written.      *)
LEMMA InnerIs ==
  ASSUME NEW d, Diagram(d), NEW i \in DOMAIN d.subgraphs
  PROVE  IsList(Inner(d, i)) /\ Range(Inner(d, i)) = d.subgraphs[i].children
<1>1. IsFiniteSet(d.subgraphs[i].children)
  BY DEF Diagram, Good, Closed
<1> QED  BY <1>1, InSomeOrder DEF Inner

(* The text of a subgraph depends on the texts before its position only.   *)
LEMMA TextOfChildren ==
  ASSUME NEW d, Diagram(d), NEW i \in DOMAIN d.subgraphs, NEW g, NEW h,
         \A j \in DOMAIN d.subgraphs : j < i => g[j] = h[j]
  PROVE  SubgraphText(d, i, g) = SubgraphText(d, i, h)
<1> DEFINE inner == Inner(d, i)
<1>1. ASSUME NEW k \in DOMAIN inner PROVE g[ById(d, inner[k])] = h[ById(d, inner[k])]
  <2>1. inner[k] \in d.subgraphs[i].children
    BY InnerIs DEF Range
  <2> HIDE DEF inner
  <2>2. ById(d, inner[k]) \in DOMAIN d.subgraphs /\ ById(d, inner[k]) < i
    BY <2>1, ByIdIs
  <2> QED  BY <2>2
<1> HIDE DEF inner
<1>2. [k \in DOMAIN inner |-> g[ById(d, inner[k])]] = [k \in DOMAIN inner |-> h[ById(d, inner[k])]]
  BY <1>1
<1> QED  BY <1>2 DEF SubgraphText, inner, Inner

(* The recursive function of the renderer gives every subgraph its text.   *)
LEMMA RenderedIs ==
  ASSUME NEW d, Diagram(d)
  PROVE  \E g : \A i \in DOMAIN d.subgraphs : RenderSubgraph(d, i) = g[i] /\ g[i] = SubgraphText(d, i, g)
<1> DEFINE N == Len(d.subgraphs)
           M == {m \in 0..N : \E g : \A i \in 1..m : g[i] = SubgraphText(d, i, g)}
<1>0. N \in Nat /\ DOMAIN d.subgraphs = 1..N
  BY ListIs DEF Diagram, Good, WellFormed
<1>1. 0 \in M
  <2>1. 1..0 = {} /\ 0 \in 0..N
    BY <1>0
  <2> QED  BY <2>1
<1>2. ASSUME NEW m \in 0..N, m + 1 \in 0..N, m \in M PROVE m + 1 \in M
  <2>1. PICK g : \A i \in 1..m : g[i] = SubgraphText(d, i, g)
    BY <1>2
  <2> DEFINE more == SubgraphText(d, m + 1, g)
             h == [i \in 1..(m + 1) |-> IF i = m + 1 THEN more ELSE g[i]]
  <2>2. h[m + 1] = more /\ \A i \in 1..m : h[i] = g[i]
    OBVIOUS
  <2> HIDE DEF h
  <2>3. ASSUME NEW i \in 1..(m + 1) PROVE h[i] = SubgraphText(d, i, h)
    <3>1. i \in 1..N /\ \A j \in 1..N : j < i => j \in 1..m
      BY <1>0, <1>2
    <3>2. \A j \in DOMAIN d.subgraphs : j < i => g[j] = h[j]
      BY <1>0, <2>2, <3>1
    <3> HIDE DEF N
    <3>3. SubgraphText(d, i, g) = SubgraphText(d, i, h)
      BY <1>0, <3>1, <3>2, TextOfChildren
    <3>4. CASE i = m + 1
      BY <2>2, <3>3, <3>4
    <3>5. CASE i # m + 1
      <4>1. i \in 1..m
        BY <3>5
      <4> QED  BY <2>1, <2>2, <3>3, <4>1
    <3> QED  BY <3>4, <3>5
  <2> QED  BY <1>2, <2>3
<1>3. N \in M
  <2>0. N \in Nat
    BY <1>0
  <2> HIDE DEF M, N
  <2>1. \A i \in 0..N : i \in M
    BY <1>1, <1>2, <2>0, UpTo
  <2> QED  BY <2>0, <2>1
<1>4. PICK e : \A i \in DOMAIN d.subgraphs : e[i] = SubgraphText(d, i, e)
  BY <1>0, <1>3
<1> DEFINE f == [i \in DOMAIN d.subgraphs |-> e[i]]
<1>5. ASSUME NEW i \in DOMAIN d.subgraphs PROVE f[i] = SubgraphText(d, i, f)
  <2>1. \A j \in DOMAIN d.subgraphs : f[j] = e[j]
    OBVIOUS
  <2> HIDE DEF f
  <2>2. SubgraphText(d, i, e) = SubgraphText(d, i, f)
    BY <2>1, TextOfChildren
  <2> QED  BY <1>4, <2>1, <2>2
<1>6. f = [i \in DOMAIN d.subgraphs |-> f[i]]
  OBVIOUS
<1> HIDE DEF f
<1>7. f = [i \in DOMAIN d.subgraphs |-> SubgraphText(d, i, f)]
  BY <1>5, <1>6
<1> DEFINE textOf == CHOOSE g : g = [i \in DOMAIN d.subgraphs |-> SubgraphText(d, i, g)]
<1>8. textOf = [i \in DOMAIN d.subgraphs |-> SubgraphText(d, i, textOf)]
  BY <1>7
<1>9. \A i \in DOMAIN d.subgraphs : RenderSubgraph(d, i) = textOf[i]
  BY DEF RenderSubgraph
<1> HIDE DEF textOf
<1>10. \A i \in DOMAIN d.subgraphs : textOf[i] = SubgraphText(d, i, textOf)
  BY <1>8
<1> QED  BY <1>9, <1>10

-----------------------------------------------------------------------------
(* What has been read of the rendering of d: a part of its nodes, and      *)
(* subgraphs of d with all that is in them.                                *)

Has(s, g) == \E j \in DOMAIN s.subgraphs : s.subgraphs[j] = g

Part(d, s) ==
  /\ WellFormed(s)
  /\ DOMAIN s.nodes \subseteq DOMAIN d.nodes /\ \A x \in DOMAIN s.nodes : s.nodes[x] = d.nodes[x]
  /\ \A i \in DOMAIN s.subgraphs : \E k \in DOMAIN d.subgraphs : s.subgraphs[i] = d.subgraphs[k]
  /\ \A k \in DOMAIN d.subgraphs : Has(s, d.subgraphs[k]) =>
       /\ d.subgraphs[k].nodes \subseteq DOMAIN s.nodes
       /\ \A j \in DOMAIN d.subgraphs : d.subgraphs[j].id \in d.subgraphs[k].children => Has(s, d.subgraphs[j])

IsTop(s, x) == s.stack # <<>> /\ x = Last(s.stack)

Mentioned(d, s, r, ids) ==
  /\ Part(d, r) /\ r.stack = s.stack /\ r.edges = s.edges /\ r.children = s.children /\ r.subgraphs = s.subgraphs
  /\ DOMAIN r.nodes = DOMAIN s.nodes \cup ids
  /\ \A x \in DOMAIN s.members :
       x \in DOMAIN r.members /\ r.members[x] = IF IsTop(s, x) THEN s.members[x] \cup ids ELSE s.members[x]

(* What a node by itself changes, in the fields. *)
OneNode(s, n, r) ==
  /\ DOMAIN r = Fields /\ r.edges = s.edges /\ r.subgraphs = s.subgraphs
  /\ r.stack = s.stack /\ r.children = s.children /\ r.members = Filed(s, s.members, n.id)
  /\ r.nodes = IF n.id \notin DOMAIN s.nodes \/ (n.form # Default /\ s.nodes[n.id] = Default)
               THEN PutAt(s.nodes, n.id, n.form) ELSE s.nodes

(* A chain of one node registers it.                                       *)
LEMMA ChainOfOne ==
  ASSUME NEW s, WellFormed(s), NEW n, NEW r, r = Chain(s, <<n>>, FALSE, NoLabel)
  PROVE  OneNode(s, n, r)
<1> DEFINE nodes == <<n>>
           t == Registered(s, nodes)
           more == [i \in 1..(Len(nodes) - 1) |-> Edge(nodes[i].id, nodes[i + 1].id, FALSE, NoLabel)]
<1>1. nodes \in Seq({n}) /\ Len(nodes) = 1 /\ nodes[1] = n
  OBVIOUS
<1>2. IsList(nodes)
  BY <1>1, IsAList
<1> HIDE DEF nodes
<1>3. PICK g : /\ g[0] = s /\ t = g[Len(nodes)]
               /\ \A k \in 1..Len(nodes) : g[k] = RegisterNode(g[k - 1], nodes[k])
  BY <1>2, RegisteredRun
<1>4. t = RegisterNode(s, n)
  <2>1. 1 \in 1..Len(nodes) /\ 1 - 1 = 0
    BY <1>1
  <2> HIDE DEF t
  <2> QED  BY <1>1, <1>3, <2>1
<1>5. more = <<>>
  BY <1>1
<1>6. s.edges \o more = s.edges
  <2>1. s.edges \in Seq(Range(s.edges))
    BY DEF WellFormed, IsList
  <2> HIDE DEF more
  <2> QED  BY <1>5, <2>1
<1>7. r = [t EXCEPT !.edges = s.edges]
  BY <1>6 DEF Chain, nodes
<1> HIDE DEF t, more
<1>8. /\ DOMAIN t = Fields /\ t.subgraphs = s.subgraphs
      /\ t.stack = s.stack /\ t.children = s.children /\ t.members = Filed(s, s.members, n.id)
      /\ t.nodes = IF n.id \notin DOMAIN s.nodes \/ (n.form # Default /\ s.nodes[n.id] = Default)
                   THEN PutAt(s.nodes, n.id, n.form) ELSE s.nodes
  BY <1>4, RegisterIs
<1>9. /\ DOMAIN r = Fields /\ r.edges = s.edges /\ r.subgraphs = t.subgraphs /\ r.stack = t.stack
      /\ r.children = t.children /\ r.members = t.members /\ r.nodes = t.nodes
  BY <1>7, <1>8 DEF Fields
<1> QED  BY <1>8, <1>9 DEF OneNode

(* A line that mentions a node of d adds it to the part that has been read.*)
LEMMA MentionRead ==
  ASSUME NEW d, Legible(d), NEW s, Part(d, s), NEW id \in DOMAIN d.nodes, NEW r, r = FlowLine(s, Mention(d, id))
  PROVE  FlowAccepts(s, Mention(d, id)) /\ Mentioned(d, s, r, {id})
<1> DEFINE n == [id |-> id, form |-> d.nodes[id]]
           l == [kind |-> "chain", both |-> FALSE, label |-> NoLabel, nodes |-> <<n>>]
<1>0. WellFormed(s)
  BY DEF Part
<1>1. r = Chain(s, <<n>>, FALSE, NoLabel) /\ FlowAccepts(s, Mention(d, id))
  <2>1. ~Illegible(d.nodes[id]) /\ Reread(d.nodes[id]) = d.nodes[id]
    BY DEF Legible, Reread
  <2>2. Mention(d, id) = l
    BY <2>1 DEF Mention
  <2>3. l.kind = "chain" /\ l.both = FALSE /\ l.label = NoLabel /\ l.nodes = <<n>>
    OBVIOUS
  <2> HIDE DEF l, n
  <2> QED  BY <2>2, <2>3 DEF FlowLine, FlowAccepts
<1>2. n.id = id /\ n.form = d.nodes[id]
  OBVIOUS
<1> HIDE DEF n
<1>3. /\ DOMAIN r = Fields /\ r.edges = s.edges /\ r.subgraphs = s.subgraphs
      /\ r.stack = s.stack /\ r.children = s.children /\ r.members = Filed(s, s.members, id)
      /\ r.nodes = IF id \notin DOMAIN s.nodes \/ (d.nodes[id] # Default /\ s.nodes[id] = Default)
                   THEN PutAt(s.nodes, id, d.nodes[id]) ELSE s.nodes
  <2>1. OneNode(s, n, r)
    BY <1>0, <1>1, ChainOfOne
  <2> QED  BY <1>2, <2>1 DEF OneNode
<1>4. /\ DOMAIN s.members \subseteq DOMAIN r.members
      /\ \A x \in DOMAIN s.members : r.members[x] = IF IsTop(s, x) THEN s.members[x] \cup {id} ELSE s.members[x]
  <2>1. r.members = Filed(s, s.members, id)
    BY <1>3
  <2> QED  BY <2>1 DEF Filed, PutAt, IsTop
<1>5. DOMAIN r.nodes = DOMAIN s.nodes \cup {id} /\ \A x \in DOMAIN r.nodes : r.nodes[x] = d.nodes[x]
  BY <1>3 DEF Part, PutAt
<1>6. WellFormed(r)
  BY <1>0, <1>3, <1>4 DEF WellFormed
<1>7. \A g : Has(r, g) <=> Has(s, g)
  BY <1>3 DEF Has
<1>8. Part(d, r)
  BY <1>3, <1>5, <1>6, <1>7 DEF Part
<1> QED  BY <1>1, <1>3, <1>4, <1>5, <1>8 DEF Mentioned

(* Mentions after mentions.                                                *)
LEMMA MentionedTwice ==
  ASSUME NEW d, NEW s, NEW r, NEW q, NEW A, NEW B, Mentioned(d, s, r, A), Mentioned(d, r, q, B)
  PROVE  Mentioned(d, s, q, A \cup B)
<1>1. \A x : IsTop(r, x) <=> IsTop(s, x)
  BY DEF Mentioned, IsTop
<1>2. DOMAIN q.nodes = DOMAIN s.nodes \cup (A \cup B)
  BY DEF Mentioned
<1>3. ASSUME NEW x \in DOMAIN s.members
      PROVE  x \in DOMAIN q.members /\ q.members[x] = IF IsTop(s, x) THEN s.members[x] \cup (A \cup B) ELSE s.members[x]
  <2>1. x \in DOMAIN r.members /\ r.members[x] = IF IsTop(s, x) THEN s.members[x] \cup A ELSE s.members[x]
    BY DEF Mentioned
  <2>2. x \in DOMAIN q.members /\ q.members[x] = IF IsTop(s, x) THEN r.members[x] \cup B ELSE r.members[x]
    BY <1>1, <2>1 DEF Mentioned
  <2> QED  BY <2>1, <2>2
<1>4. /\ Part(d, q) /\ q.stack = s.stack /\ q.edges = s.edges /\ q.children = s.children /\ q.subgraphs = s.subgraphs
  BY DEF Mentioned
<1> QED  BY <1>2, <1>3, <1>4 DEF Mentioned

(* No mention changes nothing.                                             *)
LEMMA MentionedNone ==
  ASSUME NEW d, NEW s, Part(d, s) PROVE Mentioned(d, s, s, {})
BY DEF Mentioned

(* The lines that mention a set of nodes are read to the end.              *)
LEMMA MentionsRead ==
  ASSUME NEW d, Legible(d), NEW s, Part(d, s), NEW ids \in SUBSET DOMAIN d.nodes, IsFiniteSet(ids)
  PROVE  \E r : Reads(s, Mentions(d, ids), r) /\ Mentioned(d, s, r, ids)
<1> DEFINE each == SetToSeq(ids)
           t == [k \in DOMAIN each |-> Mention(d, each[k])]
           N == Len(each)
           some(m) == {each[k] : k \in 1..m}
           M == {m \in 0..N : \E r : Goes(s, t, m, r) /\ Mentioned(d, s, r, some(m))}
<1>1. IsList(each) /\ Range(each) = ids
  BY InSomeOrder
<1> HIDE DEF each
<1>2. N \in Nat /\ DOMAIN each = 1..N
  BY <1>1, ListIs
<1>3. some(N) = ids /\ some(0) = {} /\ \A k \in 1..N : each[k] \in ids
  BY <1>1, <1>2 DEF Range
<1>4. IsList(t) /\ Len(t) = N /\ \A k \in 1..N : t[k] = Mention(d, each[k])
  <2>1. DOMAIN t = 1..N /\ t = [k \in 1..N |-> t[k]] /\ \A k \in 1..N : t[k] = Mention(d, each[k])
    BY <1>2
  <2> HIDE DEF t
  <2> QED  BY <1>2, <2>1, ListOf
<1> HIDE DEF t
<1>5. 0 \in M
  <2>1. Reads(s, <<>>, s)
    BY ReadsNone
  <2>2. Goes(s, t, 0, s)
    <3>1. PICK st : st[0] = s
      <4> DEFINE st == [k \in {0} |-> s]
      <4>1. st[0] = s
        OBVIOUS
      <4> HIDE DEF st
      <4> QED  BY <4>1
    <3>2. 1..0 = {}
      OBVIOUS
    <3> QED  BY <3>1, <3>2 DEF Goes
  <2>3. Mentioned(d, s, s, some(0))
    BY <1>3, MentionedNone
  <2>4. 0 \in 0..N
    BY <1>2
  <2> HIDE DEF some
  <2> QED  BY <2>2, <2>3, <2>4
<1>6. ASSUME NEW m \in 0..N, m + 1 \in 0..N, m \in M PROVE m + 1 \in M
  <2>1. PICK r : Goes(s, t, m, r) /\ Mentioned(d, s, r, some(m))
    BY <1>6
  <2>2. m \in Nat /\ m + 1 \in 1..N
    BY <1>2, <1>6
  <2> DEFINE id == each[m + 1]
             q == FlowLine(r, Mention(d, id))
  <2>3. id \in DOMAIN d.nodes /\ t[m + 1] = Mention(d, id)
    BY <1>3, <1>4, <2>2
  <2>4. Part(d, r)
    BY <2>1 DEF Mentioned
  <2> HIDE DEF id
  <2>5. FlowAccepts(r, Mention(d, id)) /\ Mentioned(d, r, q, {id})
    BY <2>3, <2>4, MentionRead
  <2>6. Goes(s, t, m + 1, q)
    BY <2>1, <2>2, <2>3, <2>5, GoesOn
  <2> HIDE DEF q
  <2>7. Mentioned(d, s, q, some(m) \cup {id})
    <3> HIDE DEF some
    <3> QED  BY <2>1, <2>5, MentionedTwice
  <2>8. some(m) \cup {id} = some(m + 1)
    <3>1. 1..(m + 1) = 1..m \cup {m + 1}
      BY <2>2
    <3> QED  BY <3>1 DEF id
  <2> HIDE DEF some
  <2> QED  BY <1>6, <2>6, <2>7, <2>8
<1>7. N \in M
  <2>0. N \in Nat
    BY <1>2
  <2> HIDE DEF M, N
  <2>1. \A i \in 0..N : i \in M
    BY <1>5, <1>6, <2>0, UpTo
  <2> QED  BY <2>0, <2>1
<1>8. PICK r : Goes(s, t, N, r) /\ Mentioned(d, s, r, ids)
  BY <1>3, <1>7
<1>9. Mentions(d, ids) = t
  BY DEF Mentions, t, each
<1>10. Reads(s, t, r)
  BY <1>4, <1>8 DEF Reads
<1> QED  BY <1>8, <1>9, <1>10

-----------------------------------------------------------------------------
(* A text of the rendering writes the subgraphs at some positions of d:    *)
(* read where no subgraph before b is open, it adds them, and their ids to *)
(* the children of the innermost open subgraph.                            *)

Outside(d, b, s) == \A x \in Range(s.stack), j \in DOMAIN d.subgraphs : j < b => x # d.subgraphs[j].id

IdsOf(d, J) == {d.subgraphs[j].id : j \in J}

Grown(d, s, r, J) ==
  /\ Part(d, r) /\ r.stack = s.stack /\ r.edges = s.edges /\ DOMAIN s.nodes \subseteq DOMAIN r.nodes
  /\ \A g : Has(s, g) => Has(r, g)
  /\ \A j \in J : Has(r, d.subgraphs[j])
  /\ \A x \in Range(s.stack) :
       /\ r.members[x] = s.members[x]
       /\ r.children[x] = IF IsTop(s, x) THEN s.children[x] \cup IdsOf(d, J) ELSE s.children[x]

Writes(d, b, t, J) ==
  \A s : Part(d, s) /\ Outside(d, b, s) => \E r : Reads(s, t, r) /\ Grown(d, s, r, J)

(* A text that can be read where fewer subgraphs are open can be read where*)
(* more are excluded.                                                      *)
LEMMA WritesLater ==
  ASSUME NEW d, DOMAIN d.subgraphs \subseteq Nat, NEW b \in Nat, NEW c \in Nat, b =< c, NEW t, NEW J, Writes(d, b, t, J)
  PROVE  Writes(d, c, t, J)
<1>1. ASSUME NEW s, Outside(d, c, s) PROVE Outside(d, b, s)
  <2>1. \A j \in DOMAIN d.subgraphs : j < b => j < c
    OBVIOUS
  <2> QED  BY <1>1, <2>1 DEF Outside
<1> QED  BY <1>1 DEF Writes

(* No text adds nothing.                                                   *)
LEMMA GrownNone ==
  ASSUME NEW d, NEW s, Part(d, s) PROVE Grown(d, s, s, {})
<1>1. IdsOf(d, {}) = {}
  BY DEF IdsOf
<1> QED  BY <1>1 DEF Grown

(* A text after a text adds what both do.                                  *)
LEMMA GrownTwice ==
  ASSUME NEW d, NEW s, NEW r, NEW q, NEW A, NEW B, Grown(d, s, r, A), Grown(d, r, q, B)
  PROVE  Grown(d, s, q, A \cup B)
<1>1. IdsOf(d, A \cup B) = IdsOf(d, A) \cup IdsOf(d, B)
  BY DEF IdsOf
<1>2. r.stack = s.stack /\ \A x : IsTop(r, x) <=> IsTop(s, x)
  BY DEF Grown, IsTop
<1>3. ASSUME NEW x \in Range(s.stack)
      PROVE  /\ q.members[x] = s.members[x]
             /\ q.children[x] = IF IsTop(s, x) THEN s.children[x] \cup IdsOf(d, A \cup B) ELSE s.children[x]
  <2>1. /\ r.members[x] = s.members[x]
        /\ r.children[x] = IF IsTop(s, x) THEN s.children[x] \cup IdsOf(d, A) ELSE s.children[x]
    BY <1>3 DEF Grown
  <2>2. /\ q.members[x] = r.members[x]
        /\ q.children[x] = IF IsTop(s, x) THEN r.children[x] \cup IdsOf(d, B) ELSE r.children[x]
    BY <1>2, <1>3 DEF Grown
  <2> QED  BY <1>1, <2>1, <2>2
<1>4. /\ Part(d, q) /\ q.stack = s.stack /\ q.edges = s.edges /\ DOMAIN s.nodes \subseteq DOMAIN q.nodes
      /\ (\A g : Has(s, g) => Has(q, g)) /\ (\A j \in A \cup B : Has(q, d.subgraphs[j]))
  BY DEF Grown
<1> QED  BY <1>3, <1>4 DEF Grown

(* Texts that are joined write what each of them does. *)
LEMMA TextsWrite ==
  ASSUME NEW d, NEW b, NEW texts, IsList(texts), NEW J,
         \A k \in DOMAIN texts : Writes(d, b, texts[k], J[k])
  PROVE  Writes(d, b, Joined(texts), UNION {J[k] : k \in DOMAIN texts})
<1> DEFINE N == Len(texts)
           all(m) == UNION {J[k] : k \in 1..m}
<1>0. N \in Nat /\ DOMAIN texts = 1..N
  BY ListIs
<1>1. PICK g : /\ g[0] = <<>> /\ Joined(texts) = g[N]
               /\ \A k \in 1..N : g[k] = g[k - 1] \o texts[k]
  BY JoinedRun
<1> DEFINE M == {m \in 0..N : Writes(d, b, g[m], all(m))}
<1>2. 0 \in M
  <2>1. all(0) = {} /\ 0 \in 0..N
    BY <1>0
  <2> HIDE DEF all
  <2>2. ASSUME NEW s, Part(d, s) PROVE \E r : Reads(s, g[0], r) /\ Grown(d, s, r, {})
    BY <1>1, <2>2, ReadsNone, GrownNone
  <2>3. Writes(d, b, g[0], {})
    BY <2>2 DEF Writes
  <2> QED  BY <2>1, <2>3
<1>3. ASSUME NEW m \in 0..N, m + 1 \in 0..N, m \in M PROVE m + 1 \in M
  <2>1. m + 1 \in 1..N /\ (m + 1) - 1 = m /\ 1..(m + 1) = 1..m \cup {m + 1}
    BY <1>0, <1>3
  <2>2. all(m + 1) = all(m) \cup J[m + 1]
    BY <2>1
  <2>3. Writes(d, b, g[m], all(m)) /\ Writes(d, b, texts[m + 1], J[m + 1])
    BY <1>0, <1>3, <2>1
  <2>4. g[m + 1] = g[m] \o texts[m + 1]
    BY <1>1, <2>1
  <2> HIDE DEF all
  <2>5. ASSUME NEW s, Part(d, s), Outside(d, b, s)
        PROVE  \E r : Reads(s, g[m + 1], r) /\ Grown(d, s, r, all(m + 1))
    <3>1. PICK r : Reads(s, g[m], r) /\ Grown(d, s, r, all(m))
      BY <2>3, <2>5 DEF Writes
    <3>2. Part(d, r) /\ r.stack = s.stack
      BY <3>1 DEF Grown
    <3>3. Outside(d, b, r)
      BY <2>5, <3>2 DEF Outside
    <3>4. PICK q : Reads(r, texts[m + 1], q) /\ Grown(d, r, q, J[m + 1])
      BY <2>3, <3>2, <3>3 DEF Writes
    <3>5. Reads(s, g[m] \o texts[m + 1], q)
      BY <3>1, <3>4, ReadsJoined
    <3>6. Grown(d, s, q, all(m) \cup J[m + 1])
      BY <3>1, <3>4, GrownTwice
    <3> QED  BY <2>2, <2>4, <3>5, <3>6
  <2>6. Writes(d, b, g[m + 1], all(m + 1))
    BY <2>5 DEF Writes
  <2> QED  BY <1>3, <2>6
<1>4. N \in M
  <2>0. N \in Nat
    BY <1>0
  <2> HIDE DEF M, N
  <2>1. \A i \in 0..N : i \in M
    BY <1>2, <1>3, <2>0, UpTo
  <2> QED  BY <2>0, <2>1
<1>5. all(N) = UNION {J[k] : k \in DOMAIN texts}
  BY <1>0
<1> HIDE DEF all
<1> QED  BY <1>1, <1>4, <1>5

Opened(d, s, id, r) ==
  /\ Part(d, r) /\ r.edges = s.edges /\ r.stack = Append(s.stack, id) /\ r.nodes = s.nodes
  /\ r.subgraphs = s.subgraphs /\ id \notin Range(s.stack) /\ Range(r.stack) = Range(s.stack) \cup {id}
  /\ id \in DOMAIN r.members /\ r.members[id] = {} /\ r.children[id] = {}
  /\ \A x \in Range(s.stack) :
       /\ x \in DOMAIN r.members /\ r.members[x] = s.members[x]
       /\ r.children[x] = IF IsTop(s, x) THEN s.children[x] \cup {id} ELSE s.children[x]

(* The first line of the text of a subgraph opens it, empty, inside the    *)
(* innermost one.                                                          *)
LEMMA Entered ==
  ASSUME NEW d, Diagram(d), NEW i \in DOMAIN d.subgraphs, NEW s, Part(d, s), Outside(d, i + 1, s),
         NEW id, id = d.subgraphs[i].id, NEW r, r = EnterSubgraph(s, id)
  PROVE  Opened(d, s, id, r)
<1> DEFINE fresh == PutAt(s.children, id, {})
           n == Len(s.stack)
<1>1. WellFormed(s) /\ IsList(s.stack) /\ n \in Nat /\ DOMAIN s.stack = 1..n
  BY ListIs DEF Part, WellFormed
<1>2. /\ DOMAIN r = Fields /\ r.nodes = s.nodes /\ r.edges = s.edges /\ r.subgraphs = s.subgraphs /\ r.auto = s.auto
      /\ r.stack = Append(s.stack, id) /\ r.members = PutAt(s.members, id, {}) /\ r.children = Filed(s, fresh, id)
  BY <1>1, EnterIs
<1>3. i < i + 1
  BY ListIs DEF Diagram, Good, WellFormed
<1>4. id \notin Range(s.stack)
  BY <1>3 DEF Outside
<1>5. /\ DOMAIN fresh = DOMAIN s.children \cup {id} /\ fresh[id] = {}
      /\ \A x \in DOMAIN s.children : x # id => fresh[x] = s.children[x]
      /\ DOMAIN r.members = DOMAIN s.members \cup {id} /\ r.members[id] = {}
      /\ \A x \in DOMAIN s.members : x # id => r.members[x] = s.members[x]
  BY <1>2 DEF PutAt
<1> HIDE DEF fresh
<1>6. /\ IsList(r.stack) /\ DOMAIN r.stack = DOMAIN s.stack \cup {n + 1} /\ r.stack[n + 1] = id
      /\ \A k \in DOMAIN s.stack : r.stack[k] = s.stack[k]
  BY <1>1, <1>2, ListLonger
<1>7. Range(r.stack) = Range(s.stack) \cup {id}
  BY <1>6 DEF Range
<1>8. \A x \in Range(s.stack) : x # id /\ x \in DOMAIN s.members /\ x \in DOMAIN s.children
  BY <1>1, <1>4 DEF WellFormed, Range
<1>9. /\ DOMAIN fresh \subseteq DOMAIN r.children /\ r.children[id] = {}
      /\ \A x \in Range(s.stack) : r.children[x] = IF IsTop(s, x) THEN s.children[x] \cup {id} ELSE s.children[x]
  <2>1. CASE s.stack = <<>>
    <3>1. r.children = fresh
      BY <1>2, <2>1 DEF Filed
    <3> QED  BY <1>5, <1>8, <2>1, <3>1 DEF IsTop
  <2>2. CASE s.stack # <<>>
    <3> DEFINE top == Last(s.stack)
    <3>1. top \in Range(s.stack)
      <4>1. n \in DOMAIN s.stack
        BY <1>1, <2>2, ListFront
      <4> QED  BY <4>1 DEF Last, Range
    <3>2. r.children = PutAt(fresh, top, fresh[top] \cup {id})
      BY <1>2, <2>2 DEF Filed
    <3>3. \A x : IsTop(s, x) <=> x = top
      BY <2>2 DEF IsTop
    <3> HIDE DEF top
    <3>4. /\ DOMAIN r.children = DOMAIN fresh \cup {top} /\ r.children[top] = fresh[top] \cup {id}
          /\ \A x \in DOMAIN fresh : x # top => r.children[x] = fresh[x]
      BY <3>2 DEF PutAt
    <3> QED  BY <1>5, <1>8, <3>1, <3>3, <3>4
  <2> QED  BY <2>1, <2>2
<1>10. \A k \in DOMAIN r.stack : r.stack[k] \in DOMAIN r.members /\ r.stack[k] \in DOMAIN r.children
  <2>1. \A x \in Range(r.stack) : x \in DOMAIN r.members /\ x \in DOMAIN r.children
    BY <1>5, <1>7, <1>8, <1>9
  <2> QED  BY <2>1 DEF Range
<1>11. WellFormed(r)
  BY <1>1, <1>2, <1>6, <1>10 DEF WellFormed
<1>12. \A g : Has(r, g) <=> Has(s, g)
  BY <1>2 DEF Has
<1>13. Part(d, r)
  BY <1>2, <1>11, <1>12 DEF Part
<1> QED  BY <1>2, <1>4, <1>5, <1>7, <1>8, <1>9, <1>13 DEF Opened

(* The last line closes it with the nodes and children that it has in d.   *)
LEMMA Exited ==
  ASSUME NEW d, Diagram(d), NEW i \in DOMAIN d.subgraphs, NEW id, id = d.subgraphs[i].id,
         NEW s, Part(d, s), NEW outer, IsList(outer), s.stack = Append(outer, id),
         s.members[id] = d.subgraphs[i].nodes, s.children[id] = d.subgraphs[i].children,
         d.subgraphs[i].nodes \subseteq DOMAIN s.nodes,
         \A j \in DOMAIN d.subgraphs : d.subgraphs[j].id \in d.subgraphs[i].children => Has(s, d.subgraphs[j]),
         NEW r, r = ExitSubgraph(s)
  PROVE  /\ Part(d, r) /\ r.stack = outer /\ r.edges = s.edges /\ r.nodes = s.nodes
         /\ r.members = s.members /\ r.children = s.children
         /\ \A g : Has(s, g) => Has(r, g)
         /\ Has(r, d.subgraphs[i])
<1> DEFINE n == Len(s.stack)
           e == d.subgraphs[i]
<1>1. WellFormed(s) /\ IsList(s.subgraphs) /\ IsList(s.stack)
  BY DEF Part, WellFormed
<1>2. n = Len(outer) + 1 /\ s.stack[n] = id /\ Len(outer) \in Nat /\ s.stack # <<>>
      /\ DOMAIN s.stack = DOMAIN outer \cup {n}
  <2>1. Len(outer) \in Nat /\ DOMAIN outer = 1..Len(outer)
    BY ListIs
  <2>2. /\ Len(s.stack) = Len(outer) + 1 /\ s.stack[Len(outer) + 1] = id
        /\ DOMAIN s.stack = DOMAIN outer \cup {Len(outer) + 1}
    BY ListLonger
  <2>3. s.stack # <<>>
    BY <2>1, <2>2
  <2> QED  BY <2>1, <2>2, <2>3
<1>3. e = [id |-> id, nodes |-> s.members[id], children |-> s.children[id]]
  BY DEF Diagram, Good, Closed
<1>4. /\ DOMAIN r = Fields /\ r.nodes = s.nodes /\ r.edges = s.edges /\ r.auto = s.auto
      /\ r.stack = Front(s.stack) /\ r.members = s.members /\ r.children = s.children
      /\ r.subgraphs = Append(s.subgraphs, e)
  <2>1. /\ DOMAIN r = Fields /\ r.nodes = s.nodes /\ r.edges = s.edges /\ r.auto = s.auto
        /\ r.stack = Front(s.stack) /\ r.members = s.members /\ r.children = s.children
        /\ r.subgraphs = Append(s.subgraphs, [id |-> s.stack[Len(s.stack)], nodes |-> s.members[s.stack[Len(s.stack)]],
                                               children |-> s.children[s.stack[Len(s.stack)]]])
    BY <1>1, ExitIs
  <2>2. s.stack[Len(s.stack)] = id
    BY <1>2
  <2> HIDE DEF e
  <2> QED  BY <1>3, <2>1, <2>2
<1>5. r.stack = outer
  <2>1. outer \in Seq(Range(outer))
    BY DEF IsList
  <2>2. outer \in Seq(Range(outer) \cup {id})
    BY <2>1
  <2>3. SubSeq(Append(outer, id), 1, Len(outer)) = outer
    BY <2>2
  <2> QED  BY <1>2, <1>4, <2>3 DEF Front
<1> HIDE DEF e
<1>6. /\ IsList(r.subgraphs) /\ \A g : Has(r, g) <=> Has(s, g) \/ g = e
  <2>1. /\ IsList(r.subgraphs) /\ DOMAIN r.subgraphs = DOMAIN s.subgraphs \cup {Len(s.subgraphs) + 1}
        /\ r.subgraphs[Len(s.subgraphs) + 1] = e
        /\ \A k \in DOMAIN s.subgraphs : r.subgraphs[k] = s.subgraphs[k]
    BY <1>1, <1>4, ListLonger
  <2> QED  BY <2>1 DEF Has
<1>7. WellFormed(r)
  <2>1. \A k \in DOMAIN outer : k \in DOMAIN s.stack /\ s.stack[k] = outer[k]
    BY <1>2, ListLonger
  <2>2. \A k \in DOMAIN outer : outer[k] \in DOMAIN s.members /\ outer[k] \in DOMAIN s.children
    BY <1>1, <2>1 DEF WellFormed
  <2> QED  BY <1>1, <1>4, <1>5, <1>6, <2>2 DEF WellFormed
<1>8. \A k \in DOMAIN r.subgraphs : \E j \in DOMAIN d.subgraphs : r.subgraphs[k] = d.subgraphs[j]
  <2>1. ASSUME NEW k \in DOMAIN r.subgraphs PROVE \E j \in DOMAIN d.subgraphs : r.subgraphs[k] = d.subgraphs[j]
    <3>1. Has(r, r.subgraphs[k])
      BY DEF Has
    <3>2. Has(s, r.subgraphs[k]) \/ r.subgraphs[k] = e
      BY <1>6, <3>1
    <3> QED  BY <3>2 DEF Has, Part, e
  <2> QED  BY <2>1
<1>9. ASSUME NEW k \in DOMAIN d.subgraphs, Has(r, d.subgraphs[k])
      PROVE  /\ d.subgraphs[k].nodes \subseteq DOMAIN r.nodes
             /\ \A j \in DOMAIN d.subgraphs : d.subgraphs[j].id \in d.subgraphs[k].children => Has(r, d.subgraphs[j])
  <2>1. CASE Has(s, d.subgraphs[k])
    BY <1>4, <1>6, <2>1 DEF Part
  <2>2. CASE d.subgraphs[k] = e
    BY <1>4, <1>6, <2>2 DEF e
  <2> QED  BY <1>6, <1>9, <2>1, <2>2
<1>10. Part(d, r)
  BY <1>4, <1>7, <1>8, <1>9 DEF Part
<1> QED  BY <1>4, <1>5, <1>6, <1>10 DEF e

(* The text of a subgraph writes it, if those of its children do.          *)
LEMMA SubgraphWrites ==
  ASSUME NEW d, Diagram(d), NEW i \in DOMAIN d.subgraphs, NEW g, g[i] = SubgraphText(d, i, g),
         \A j \in DOMAIN d.subgraphs : j < i => Writes(d, j + 1, g[j], {j})
  PROVE  Writes(d, i + 1, g[i], {i})
<1> DEFINE e == d.subgraphs[i]
           id == d.subgraphs[i].id
           inner == Inner(d, i)
           texts == [k \in DOMAIN inner |-> g[ById(d, inner[k])]]
           J == [k \in DOMAIN inner |-> {ById(d, inner[k])}]
           N == Len(inner)
           all == UNION {J[k] : k \in DOMAIN texts}
           first == [kind |-> "subgraph", id |-> id]
           last == [kind |-> "end"]
           mine == e.nodes \cap DOMAIN d.nodes
<1>0. DOMAIN d.subgraphs \subseteq Nat /\ i \in Nat /\ Good(d)
  BY ListIs DEF Diagram, Good, WellFormed
<1>1. g[i] = <<first>> \o Mentions(d, mine) \o Joined(texts) \o <<last>>
  BY DEF SubgraphText, Inner
<1>2. IsList(inner) /\ Range(inner) = e.children /\ N \in Nat /\ DOMAIN inner = 1..N
  BY InnerIs, ListIs
<1> HIDE DEF inner
<1>3. /\ IsList(texts) /\ DOMAIN texts = DOMAIN inner
      /\ \A k \in DOMAIN inner : texts[k] = g[ById(d, inner[k])] /\ J[k] = {ById(d, inner[k])}
  <2>1. DOMAIN texts = 1..N /\ texts = [k \in 1..N |-> texts[k]]
    BY <1>2
  <2>2. \A k \in DOMAIN inner : texts[k] = g[ById(d, inner[k])] /\ J[k] = {ById(d, inner[k])}
    OBVIOUS
  <2> HIDE DEF texts, J
  <2>3. IsList(texts)
    BY <1>2, <2>1, ListOf
  <2> QED  BY <1>2, <2>1, <2>2, <2>3
<1> HIDE DEF texts, J
<1>4. \A k \in DOMAIN inner : /\ inner[k] \in e.children /\ ById(d, inner[k]) \in DOMAIN d.subgraphs
                              /\ ById(d, inner[k]) < i /\ d.subgraphs[ById(d, inner[k])].id = inner[k]
  <2>1. ASSUME NEW k \in DOMAIN inner PROVE inner[k] \in e.children
    BY <1>2 DEF Range
  <2> QED  BY <2>1, ByIdIs
<1>5. \A k \in DOMAIN texts : Writes(d, i, texts[k], J[k])
  <2>1. ASSUME NEW k \in DOMAIN texts PROVE Writes(d, i, texts[k], J[k])
    <3>1. PICK j \in DOMAIN d.subgraphs : j = ById(d, inner[k]) /\ j < i
      BY <1>3, <1>4
    <3>2. Writes(d, j + 1, g[j], {j}) /\ j + 1 \in Nat /\ j + 1 =< i
      BY <1>0, <3>1
    <3>3. Writes(d, i, g[j], {j})
      BY <1>0, <3>2, WritesLater
    <3> QED  BY <1>3, <3>1, <3>3
  <2> QED  BY <2>1
<1>6. Writes(d, i, Joined(texts), all)
  <2> HIDE DEF all
  <2> QED  BY <1>3, <1>5, TextsWrite DEF all
<1>7. IdsOf(d, all) = e.children
  <2>1. ASSUME NEW c \in e.children PROVE c \in IdsOf(d, all)
    <3>1. PICK k \in DOMAIN inner : inner[k] = c
      BY <1>2 DEF Range
    <3>2. ById(d, c) \in all /\ d.subgraphs[ById(d, c)].id = c
      BY <1>3, <1>4, <3>1
    <3> QED  BY <3>2 DEF IdsOf
  <2>2. ASSUME NEW c \in IdsOf(d, all) PROVE c \in e.children
    <3>1. PICK j \in all : c = d.subgraphs[j].id
      BY <2>2 DEF IdsOf
    <3>2. PICK k \in DOMAIN inner : j = ById(d, inner[k])
      BY <1>3, <3>1
    <3> QED  BY <1>4, <3>1, <3>2
  <2> QED  BY <2>1, <2>2
<1>8. \A j \in DOMAIN d.subgraphs : d.subgraphs[j].id \in e.children => j \in all
  <2>1. ASSUME NEW j \in DOMAIN d.subgraphs, d.subgraphs[j].id \in e.children PROVE j \in all
    <3>1. PICK k \in DOMAIN inner : inner[k] = d.subgraphs[j].id
      BY <1>2, <2>1 DEF Range
    <3>2. ById(d, inner[k]) = j
      BY <1>4, <3>1 DEF Diagram, Distinct
    <3> QED  BY <1>3, <3>1, <3>2
  <2> QED  BY <2>1
<1> HIDE DEF all
<1>9. IsFiniteSet(mine) /\ mine = e.nodes /\ mine \in SUBSET DOMAIN d.nodes
  <2>1. mine \subseteq DOMAIN d.nodes /\ mine = e.nodes
    BY <1>0 DEF Good, Closed
  <2>2. IsFiniteSet(DOMAIN d.nodes)
    BY <1>0 DEF Good
  <2> HIDE DEF mine
  <2>3. IsFiniteSet(mine)
    BY <2>1, <2>2, FS_Subset
  <2> QED  BY <2>1, <2>3
<1>10. id # Unnamed
  BY <1>0 DEF Good, Closed
<1>11. first.kind = "subgraph" /\ first.id = id /\ last.kind = "end"
  OBVIOUS
<1> HIDE DEF first, last, mine
<1>12. ASSUME NEW s, Part(d, s), Outside(d, i + 1, s)
       PROVE  \E r : Reads(s, g[i], r) /\ Grown(d, s, r, {i})
  <2> DEFINE s1 == EnterSubgraph(s, id)
  <2>1. Reads(s, <<first>>, s1)
    <3>1. FlowAccepts(s, first) /\ FlowLine(s, first) = s1
      BY <1>10, <1>11 DEF FlowAccepts, FlowLine
    <3> HIDE DEF s1
    <3> QED  BY <3>1, ReadsOne
  <2>2. /\ Part(d, s1) /\ s1.edges = s.edges /\ s1.stack = Append(s.stack, id) /\ s1.nodes = s.nodes
        /\ s1.subgraphs = s.subgraphs /\ id \notin Range(s.stack) /\ Range(s1.stack) = Range(s.stack) \cup {id}
        /\ id \in DOMAIN s1.members /\ s1.members[id] = {} /\ s1.children[id] = {}
        /\ \A x \in Range(s.stack) :
             /\ x \in DOMAIN s1.members /\ s1.members[x] = s.members[x]
             /\ s1.children[x] = IF IsTop(s, x) THEN s.children[x] \cup {id} ELSE s.children[x]
    <3>1. Opened(d, s, id, s1)
      BY <1>12, Entered
    <3> HIDE DEF s1
    <3> QED  BY <3>1 DEF Opened
  <2>3. IsList(s.stack) /\ IsList(s1.stack)
    BY <1>12, <2>2 DEF Part, WellFormed
  <2> HIDE DEF s1
  <2>4. PICK s2 : Reads(s1, Mentions(d, mine), s2) /\ Mentioned(d, s1, s2, mine)
    BY <1>9, <2>2, MentionsRead DEF Diagram
  <2>5. Part(d, s2) /\ s2.stack = s1.stack
    BY <2>4 DEF Mentioned
  <2>6. \A x : IsTop(s2, x) <=> x = id
    <3>1. s1.stack # <<>> /\ Last(s1.stack) = id
      <4>1. Len(s1.stack) = Len(s.stack) + 1 /\ s1.stack[Len(s.stack) + 1] = id /\ Len(s.stack) \in Nat
        BY <2>2, <2>3, ListLonger, ListIs
      <4> QED  BY <4>1 DEF Last
    <3> QED  BY <2>5, <3>1 DEF IsTop
  <2>7. \A x : IsTop(s1, x) <=> x = id
    BY <2>5, <2>6 DEF IsTop
  <2>8. Outside(d, i, s2)
    <3>1. \A j \in DOMAIN d.subgraphs : j < i => id # d.subgraphs[j].id
      BY <1>0 DEF Diagram, Distinct
    <3>2. \A x \in Range(s.stack), j \in DOMAIN d.subgraphs : j < i => x # d.subgraphs[j].id
      <4>1. \A j \in DOMAIN d.subgraphs : j < i => j < i + 1
        BY <1>0
      <4> QED  BY <1>12, <4>1 DEF Outside
    <3> QED  BY <2>2, <2>5, <3>1, <3>2 DEF Outside
  <2>9. PICK s3 : Reads(s2, Joined(texts), s3) /\ Grown(d, s2, s3, all)
    BY <1>6, <2>5, <2>8 DEF Writes
  <2>10. s3.members[id] = e.nodes /\ s3.children[id] = e.children
    <3>1. s2.members[id] = mine /\ s2.children = s1.children
      <4>1. s2.members[id] = s1.members[id] \cup mine /\ s2.children = s1.children
        <5>1. id \in DOMAIN s1.members /\ IsTop(s1, id)
          BY <2>2, <2>7
        <5> HIDE DEF id
        <5> QED  BY <2>4, <5>1 DEF Mentioned
      <4> QED  BY <2>2, <4>1
    <3>2. id \in Range(s2.stack)
      BY <2>2, <2>5
    <3>3. s3.members[id] = s2.members[id] /\ s3.children[id] = s2.children[id] \cup IdsOf(d, all)
      BY <2>6, <2>9, <3>2 DEF Grown
    <3> QED  BY <1>7, <1>9, <2>2, <3>1, <3>3
  <2>11. ASSUME NEW x \in Range(s.stack)
         PROVE  /\ s3.members[x] = s.members[x]
                /\ s3.children[x] = IF IsTop(s, x) THEN s.children[x] \cup {id} ELSE s.children[x]
    <3>1. x # id /\ x \in Range(s2.stack) /\ x \in DOMAIN s1.members
      BY <2>2, <2>5, <2>11
    <3>2. s2.members[x] = s1.members[x] /\ s2.children = s1.children
      BY <2>4, <2>7, <3>1 DEF Mentioned
    <3>3. s3.members[x] = s2.members[x] /\ s3.children[x] = s2.children[x]
      BY <2>6, <2>9, <3>1 DEF Grown
    <3> QED  BY <2>2, <2>11, <3>2, <3>3
  <2>12. /\ Part(d, s3) /\ s3.stack = Append(s.stack, id) /\ s3.edges = s.edges
         /\ DOMAIN s.nodes \subseteq DOMAIN s3.nodes /\ e.nodes \subseteq DOMAIN s3.nodes
         /\ (\A h : Has(s, h) => Has(s3, h))
         /\ \A j \in DOMAIN d.subgraphs : d.subgraphs[j].id \in e.children => Has(s3, d.subgraphs[j])
    <3>1. /\ s2.edges = s1.edges /\ DOMAIN s2.nodes = DOMAIN s1.nodes \cup mine /\ s2.subgraphs = s1.subgraphs
      BY <2>4 DEF Mentioned
    <3>2. \A h : Has(s2, h) <=> Has(s, h)
      BY <2>2, <3>1 DEF Has
    <3>3. /\ Part(d, s3) /\ s3.stack = s2.stack /\ s3.edges = s2.edges /\ DOMAIN s2.nodes \subseteq DOMAIN s3.nodes
          /\ (\A h : Has(s2, h) => Has(s3, h)) /\ \A j \in all : Has(s3, d.subgraphs[j])
      BY <2>9 DEF Grown
    <3> QED  BY <1>8, <1>9, <2>2, <2>5, <3>1, <3>2, <3>3
  <2> DEFINE r == ExitSubgraph(s3)
  <2>13. Reads(s3, <<last>>, r)
    <3>1. s3.stack # <<>>
      <4>1. Len(s3.stack) = Len(s.stack) + 1 /\ Len(s.stack) \in Nat
        BY <2>3, <2>12, ListLonger, ListIs
      <4> QED  BY <4>1
    <3>2. FlowAccepts(s3, last) /\ FlowLine(s3, last) = r
      BY <1>11, <3>1 DEF FlowAccepts, FlowLine
    <3> HIDE DEF r
    <3> QED  BY <3>2, ReadsOne
  <2>14. /\ Part(d, r) /\ r.stack = s.stack /\ r.edges = s3.edges /\ r.nodes = s3.nodes
         /\ r.members = s3.members /\ r.children = s3.children
         /\ (\A h : Has(s3, h) => Has(r, h)) /\ Has(r, e)
    BY <2>3, <2>10, <2>12, Exited
  <2> HIDE DEF r
  <2>15. IdsOf(d, {i}) = {id}
    BY DEF IdsOf
  <2>16. Grown(d, s, r, {i})
    BY <2>11, <2>12, <2>14, <2>15 DEF Grown
  <2>17. Reads(s, g[i], r)
    <3>1. Reads(s, <<first>> \o Mentions(d, mine), s2)
      BY <2>1, <2>4, ReadsJoined
    <3>2. Reads(s, <<first>> \o Mentions(d, mine) \o Joined(texts), s3)
      BY <2>9, <3>1, ReadsJoined
    <3>3. Reads(s, <<first>> \o Mentions(d, mine) \o Joined(texts) \o <<last>>, r)
      BY <2>13, <3>2, ReadsJoined
    <3> QED  BY <1>1, <3>3
  <2> QED  BY <2>16, <2>17
<1> QED  BY <1>12 DEF Writes

(* Every subgraph is written at its position. *)
LEMMA SubgraphsWrite ==
  ASSUME NEW d, Diagram(d), NEW g, \A i \in DOMAIN d.subgraphs : g[i] = SubgraphText(d, i, g)
  PROVE  \A i \in DOMAIN d.subgraphs : Writes(d, i + 1, g[i], {i})
<1> DEFINE N == Len(d.subgraphs)
           M == {m \in 0..N : \A i \in 1..m : Writes(d, i + 1, g[i], {i})}
<1>0. N \in Nat /\ DOMAIN d.subgraphs = 1..N
  BY ListIs DEF Diagram, Good, WellFormed
<1>1. 0 \in M
  <2>1. 1..0 = {} /\ 0 \in 0..N
    BY <1>0
  <2> QED  BY <2>1
<1>2. ASSUME NEW m \in 0..N, m + 1 \in 0..N, m \in M PROVE m + 1 \in M
  <2>1. m + 1 \in DOMAIN d.subgraphs /\ \A j \in DOMAIN d.subgraphs : j < m + 1 => j \in 1..m
    BY <1>0, <1>2
  <2>2. \A j \in DOMAIN d.subgraphs : j < m + 1 => Writes(d, j + 1, g[j], {j})
    BY <1>2, <2>1
  <2>3. Writes(d, (m + 1) + 1, g[m + 1], {m + 1})
    BY <2>1, <2>2, SubgraphWrites
  <2>4. 1..(m + 1) = 1..m \cup {m + 1}
    BY <1>0, <1>2
  <2> QED  BY <1>2, <2>3, <2>4
<1>3. N \in M
  <2>0. N \in Nat
    BY <1>0
  <2> HIDE DEF M, N
  <2>1. \A i \in 0..N : i \in M
    BY <1>1, <1>2, <2>0, UpTo
  <2> QED  BY <2>0, <2>1
<1> QED  BY <1>0, <1>3

(* The texts of the subgraphs that are in no other write these.            *)
LEMMA RootsWrite ==
  ASSUME NEW d, Diagram(d),
         NEW t, t = Joined([i \in DOMAIN d.subgraphs |->
                             IF d.subgraphs[i].id \in Children(d) THEN <<>> ELSE RenderSubgraph(d, i)]),
         NEW roots, roots = {i \in DOMAIN d.subgraphs : d.subgraphs[i].id \notin Children(d)}
  PROVE  Writes(d, Len(d.subgraphs) + 1, t, roots)
<1> DEFINE N == Len(d.subgraphs)
           texts == [i \in DOMAIN d.subgraphs |-> IF d.subgraphs[i].id \in Children(d) THEN <<>> ELSE RenderSubgraph(d, i)]
           J == [i \in DOMAIN d.subgraphs |-> IF d.subgraphs[i].id \in Children(d) THEN {} ELSE {i}]
<1>0. N \in Nat /\ DOMAIN d.subgraphs = 1..N
  BY ListIs DEF Diagram, Good, WellFormed
<1>1. PICK g : \A i \in DOMAIN d.subgraphs : RenderSubgraph(d, i) = g[i] /\ g[i] = SubgraphText(d, i, g)
  BY RenderedIs
<1>2. \A i \in DOMAIN d.subgraphs : Writes(d, i + 1, g[i], {i})
  BY <1>1, SubgraphsWrite
<1>3. IsList(texts) /\ DOMAIN texts = DOMAIN d.subgraphs
  <2>1. DOMAIN texts = 1..N /\ texts = [i \in 1..N |-> texts[i]]
    BY <1>0
  <2> HIDE DEF texts, N
  <2>2. IsList(texts)
    BY <1>0, <2>1, ListOf
  <2> QED  BY <1>0, <2>1, <2>2
<1>4. ASSUME NEW i \in DOMAIN texts PROVE Writes(d, N + 1, texts[i], J[i])
  <2>1. CASE d.subgraphs[i].id \in Children(d)
    <3>1. texts[i] = <<>> /\ J[i] = {}
      BY <1>3, <2>1
    <3>2. ASSUME NEW s, Part(d, s) PROVE \E r : Reads(s, <<>>, r) /\ Grown(d, s, r, {})
      BY <3>2, ReadsNone, GrownNone
    <3> HIDE DEF texts, J
    <3> QED  BY <3>1, <3>2 DEF Writes
  <2>2. CASE d.subgraphs[i].id \notin Children(d)
    <3>1. texts[i] = g[i] /\ J[i] = {i} /\ i \in DOMAIN d.subgraphs
      BY <1>1, <1>3, <2>2
    <3> HIDE DEF texts, J
    <3>2. Writes(d, i + 1, g[i], {i})
      BY <1>2, <3>1
    <3>3. i + 1 \in Nat /\ N + 1 \in Nat /\ i + 1 =< N + 1 /\ DOMAIN d.subgraphs \subseteq Nat
      BY <1>0, <3>1
    <3> HIDE DEF N
    <3>4. Writes(d, N + 1, g[i], {i})
      BY <3>2, <3>3, WritesLater
    <3> QED  BY <3>1, <3>4
  <2> QED  BY <2>1, <2>2
<1>5. UNION {J[i] : i \in DOMAIN texts} = roots
  <2>1. UNION {J[i] : i \in DOMAIN d.subgraphs} = roots
    OBVIOUS
  <2> HIDE DEF J
  <2> QED  BY <1>3, <2>1
<1>6. t = Joined(texts)
  OBVIOUS
<1> HIDE DEF texts, J, N
<1>7. Writes(d, N + 1, Joined(texts), UNION {J[i] : i \in DOMAIN texts})
  BY <1>3, <1>4, TextsWrite
<1> QED  BY <1>5, <1>6, <1>7 DEF N

(* Every subgraph is a root or inside one. *)
LEMMA AllInRoots ==
  ASSUME NEW d, Diagram(d), NEW s, Part(d, s),
         \A i \in DOMAIN d.subgraphs : d.subgraphs[i].id \notin Children(d) => Has(s, d.subgraphs[i])
  PROVE  \A i \in DOMAIN d.subgraphs : Has(s, d.subgraphs[i])
<1> DEFINE N == Len(d.subgraphs)
           Out == {i \in DOMAIN d.subgraphs : ~Has(s, d.subgraphs[i])}
<1>0. N \in Nat /\ DOMAIN d.subgraphs = 1..N
  BY ListIs DEF Diagram, Good, WellFormed
<1>1. SUFFICES ASSUME Out # {} PROVE FALSE
  OBVIOUS
<1>2. Out \in SUBSET Nat /\ \A x \in Out : x =< N
  BY <1>0
<1>3. PICK m \in Out : \A x \in Out : x =< m
  <2> HIDE DEF Out, N
  <2> QED  BY <1>0, <1>1, <1>2, HasGreatest
<1>4. m \in DOMAIN d.subgraphs /\ ~Has(s, d.subgraphs[m])
  OBVIOUS
<1>5. PICK k \in DOMAIN d.subgraphs : d.subgraphs[m].id \in d.subgraphs[k].children
  BY <1>4 DEF Children, Range
<1>6. m < k
  <2>1. PICK j \in DOMAIN d.subgraphs : j < k /\ d.subgraphs[j].id = d.subgraphs[m].id
    BY <1>5 DEF Diagram, Tree, ClosedBefore
  <2>2. j = m
    BY <1>4, <2>1 DEF Diagram, Distinct
  <2> QED  BY <2>1, <2>2
<1>7. Has(s, d.subgraphs[k])
  <2>1. k \in Nat /\ m \in Nat
    BY <1>0, <1>4
  <2>2. k \notin Out
    BY <1>3, <1>6, <2>1
  <2> QED  BY <2>2
<1> HIDE DEF Out
<1> QED  BY <1>4, <1>5, <1>7 DEF Part

(* The reading starts with an empty part of d.                             *)
LEMMA StartPart ==
  ASSUME NEW d PROVE Part(d, Start0) /\ Start0.stack = <<>> /\ Start0.edges = <<>>
<1>1. WellFormed(Start0) /\ Start0.stack = <<>>
  BY StartSound DEF Sound, Good
<1>2. Start0.nodes = <<>> /\ Start0.edges = <<>> /\ Start0.subgraphs = <<>>
  BY DEF Start0
<1>3. DOMAIN Start0.nodes = {} /\ DOMAIN Start0.subgraphs = {}
  <2>1. DOMAIN <<>> = {}
    OBVIOUS
  <2> QED  BY <1>2, <2>1
<1> QED  BY <1>1, <1>2, <1>3 DEF Part, Has

(* The subgraphs and then the nodes that are in none of them. *)
LEMMA NodesWritten ==
  ASSUME NEW d, Diagram(d),
         NEW t, t = Joined([i \in DOMAIN d.subgraphs |->
                             IF d.subgraphs[i].id \in Children(d) THEN <<>> ELSE RenderSubgraph(d, i)])
  PROVE  \E r : /\ Reads(Start0, t \o Mentions(d, DOMAIN d.nodes \ Grouped(d)), r)
                /\ Part(d, r) /\ r.stack = <<>> /\ r.edges = <<>> /\ DOMAIN r.nodes = DOMAIN d.nodes
                /\ \A i \in DOMAIN d.subgraphs : Has(r, d.subgraphs[i])
<1> DEFINE b == Len(d.subgraphs) + 1
           others == DOMAIN d.nodes \ Grouped(d)
<1>1. PICK roots : roots = {i \in DOMAIN d.subgraphs : d.subgraphs[i].id \notin Children(d)}
  OBVIOUS
<1>2. Writes(d, b, t, roots)
  BY <1>1, RootsWrite
<1>3. Part(d, Start0) /\ Start0.stack = <<>> /\ Start0.edges = <<>>
  BY StartPart
<1>4. Outside(d, b, Start0)
  <2>1. Range(<<>>) = {}
    BY DEF Range
  <2> QED  BY <1>3, <2>1 DEF Outside
<1> HIDE DEF b
<1>5. PICK s : Reads(Start0, t, s) /\ Grown(d, Start0, s, roots)
  BY <1>2, <1>3, <1>4 DEF Writes
<1>6. Part(d, s) /\ s.stack = <<>> /\ s.edges = <<>> /\ \A i \in roots : Has(s, d.subgraphs[i])
  BY <1>3, <1>5 DEF Grown
<1>7. \A i \in DOMAIN d.subgraphs : Has(s, d.subgraphs[i])
  <2>1. \A i \in DOMAIN d.subgraphs : d.subgraphs[i].id \notin Children(d) => Has(s, d.subgraphs[i])
    BY <1>1, <1>6
  <2> QED  BY <1>6, <2>1, AllInRoots
<1>8. others \in SUBSET DOMAIN d.nodes /\ IsFiniteSet(others)
  <2>1. IsFiniteSet(DOMAIN d.nodes)
    BY DEF Diagram, Good
  <2>2. others \in SUBSET DOMAIN d.nodes
    OBVIOUS
  <2> HIDE DEF others
  <2> QED  BY <2>1, <2>2, FS_Subset
<1>9. DOMAIN s.nodes \cup others = DOMAIN d.nodes
  <2>1. \A i \in DOMAIN d.subgraphs : d.subgraphs[i].nodes \subseteq DOMAIN s.nodes
    BY <1>6, <1>7 DEF Part
  <2>2. Grouped(d) \subseteq DOMAIN s.nodes
    BY <2>1 DEF Grouped, Range
  <2>3. DOMAIN s.nodes \subseteq DOMAIN d.nodes
    BY <1>6 DEF Part
  <2> QED  BY <2>2, <2>3
<1> HIDE DEF others
<1>10. PICK r : Reads(s, Mentions(d, others), r) /\ Mentioned(d, s, r, others)
  BY <1>6, <1>8, MentionsRead DEF Diagram
<1>11. /\ Part(d, r) /\ r.stack = <<>> /\ r.edges = <<>> /\ r.subgraphs = s.subgraphs
       /\ DOMAIN r.nodes = DOMAIN d.nodes
  BY <1>6, <1>9, <1>10 DEF Mentioned
<1>12. \A i \in DOMAIN d.subgraphs : Has(r, d.subgraphs[i])
  BY <1>7, <1>11 DEF Has
<1>13. Reads(Start0, t \o Mentions(d, others), r)
  BY <1>5, <1>10, ReadsJoined
<1> QED  BY <1>11, <1>12, <1>13 DEF others

Bare(x) == [id |-> x, form |-> Default]

(* An end of an edge, outside of every subgraph, is a node afterwards and  *)
(* keeps the shape that it has.                                            *)
Added(s, r, ids) ==
  /\ WellFormed(r) /\ r.stack = s.stack /\ r.subgraphs = s.subgraphs /\ DOMAIN r.nodes = DOMAIN s.nodes \cup ids
  /\ \A x \in DOMAIN s.nodes : r.nodes[x] = s.nodes[x]

(* The mention of an end adds it.                                          *)
LEMMA BareAdded ==
  ASSUME NEW s, WellFormed(s), s.stack = <<>>, NEW x, NEW r, r = RegisterNode(s, Bare(x))
  PROVE  Added(s, r, {x}) /\ r.edges = s.edges
<1> DEFINE n == Bare(x)
<1>1. n.id = x /\ n.form = Default
  BY DEF Bare
<1> HIDE DEF n
<1>2. /\ DOMAIN r = Fields /\ r.edges = s.edges /\ r.subgraphs = s.subgraphs /\ r.auto = s.auto
      /\ r.stack = s.stack /\ r.children = s.children /\ r.members = Filed(s, s.members, n.id)
      /\ r.nodes = IF n.id \notin DOMAIN s.nodes \/ (n.form # Default /\ s.nodes[n.id] = Default)
                   THEN PutAt(s.nodes, n.id, n.form) ELSE s.nodes
  BY RegisterIs DEF n
<1>3. r.members = s.members
  BY <1>2 DEF Filed
<1>4. WellFormed(r)
  BY <1>2, <1>3 DEF WellFormed
<1>5. DOMAIN r.nodes = DOMAIN s.nodes \cup {x} /\ \A y \in DOMAIN s.nodes : r.nodes[y] = s.nodes[y]
  BY <1>1, <1>2 DEF PutAt
<1> QED  BY <1>2, <1>4, <1>5 DEF Added

OneEdge(s, r, x, y, e) ==
  /\ Added(s, r, {x, y}) /\ Len(r.edges) = Len(s.edges) + 1 /\ r.edges[Len(s.edges) + 1] = e
  /\ \A i \in 1..Len(s.edges) : r.edges[i] = s.edges[i]

(* The line of an edge adds it after the edges before, and its ends.       *)
LEMMA ChainOfTwo ==
  ASSUME NEW s, WellFormed(s), s.stack = <<>>, NEW x, NEW y, NEW both, NEW label,
         NEW r, r = Chain(s, <<Bare(x), Bare(y)>>, both, label)
  PROVE  OneEdge(s, r, x, y, Edge(x, y, both, label))
<1> DEFINE nodes == <<Bare(x), Bare(y)>>
           t == Registered(s, nodes)
           more == [i \in 1..(Len(nodes) - 1) |-> Edge(nodes[i].id, nodes[i + 1].id, both, label)]
           e == Edge(x, y, both, label)
<1>1. Len(nodes) = 2 /\ nodes[1] = Bare(x) /\ nodes[2] = Bare(y) /\ nodes \in Seq({Bare(x), Bare(y)})
  OBVIOUS
<1>2. IsList(nodes)
  BY <1>1, IsAList
<1> HIDE DEF nodes
<1>3. PICK g : /\ g[0] = s /\ t = g[Len(nodes)]
               /\ \A k \in 1..Len(nodes) : g[k] = RegisterNode(g[k - 1], nodes[k])
  BY <1>2, RegisteredRun
<1>4. g[1] = RegisterNode(s, Bare(x)) /\ g[2] = RegisterNode(g[1], Bare(y)) /\ t = g[2]
  <2>1. 1 \in 1..Len(nodes) /\ 2 \in 1..Len(nodes) /\ 1 - 1 = 0 /\ 2 - 1 = 1
    BY <1>1
  <2> HIDE DEF t
  <2>2. g[1] = RegisterNode(g[1 - 1], nodes[1]) /\ g[2] = RegisterNode(g[2 - 1], nodes[2])
    BY <1>3, <2>1
  <2> QED  BY <1>1, <1>3, <2>1, <2>2
<1> HIDE DEF t, more, e
<1>5. Added(s, g[1], {x}) /\ g[1].edges = s.edges
  BY <1>4, BareAdded
<1>6. Added(g[1], t, {y}) /\ t.edges = g[1].edges
  <2>1. PICK h : h = g[1]
    OBVIOUS
  <2>2. WellFormed(h) /\ h.stack = <<>> /\ t = RegisterNode(h, Bare(y))
    BY <1>4, <1>5, <2>1 DEF Added
  <2>3. Added(h, t, {y}) /\ t.edges = h.edges
    BY <2>2, BareAdded
  <2> QED  BY <2>1, <2>3
<1>7. Added(s, t, {x, y})
  BY <1>5, <1>6 DEF Added
<1>8. IsList(more) /\ Len(more) = 1 /\ more[1] = e
  <2>1. DOMAIN more = 1..1 /\ more = [i \in 1..1 |-> more[i]]
    BY <1>1 DEF more
  <2>2. more[1] = e
    <3>1. 1 \in 1..(Len(nodes) - 1) /\ nodes[1].id = x /\ nodes[1 + 1].id = y
      BY <1>1 DEF Bare
    <3> QED  BY <3>1 DEF more, e
  <2> QED  BY <2>1, <2>2, ListOf
<1>9. r = [t EXCEPT !.edges = s.edges \o more]
  BY DEF Chain, nodes, t, more
<1>10. IsList(s.edges) /\ Len(s.edges) \in Nat
  BY ListIs DEF WellFormed
<1> DEFINE edges == s.edges \o more
<1>11. /\ IsList(edges) /\ Len(edges) = Len(s.edges) + 1 /\ edges[Len(s.edges) + 1] = e
       /\ \A i \in 1..Len(s.edges) : edges[i] = s.edges[i]
  <2>1. /\ IsList(edges) /\ Len(edges) = Len(s.edges) + Len(more)
        /\ (\A i \in 1..Len(s.edges) : edges[i] = s.edges[i])
        /\ \A i \in 1..Len(more) : edges[Len(s.edges) + i] = more[i]
    <3>1. PICK a, b : a = s.edges /\ b = more
      OBVIOUS
    <3>2. IsList(a) /\ IsList(b)
      BY <1>8, <1>10, <3>1
    <3>3. /\ IsList(a \o b) /\ Len(a \o b) = Len(a) + Len(b)
          /\ \A i \in 1..Len(a) : (a \o b)[i] = a[i]
          /\ \A i \in 1..Len(b) : (a \o b)[Len(a) + i] = b[i]
      BY <3>2, ListJoined
    <3> QED  BY <3>1, <3>3
  <2> HIDE DEF edges
  <2>2. 1 \in 1..Len(more)
    BY <1>8
  <2> QED  BY <1>8, <2>1, <2>2
<1> HIDE DEF edges
<1>12. DOMAIN t = Fields
  BY <1>7 DEF Added, WellFormed
<1>13. /\ DOMAIN r = Fields /\ r.edges = edges /\ r.subgraphs = t.subgraphs /\ r.stack = t.stack
       /\ r.children = t.children /\ r.members = t.members /\ r.nodes = t.nodes
  BY <1>9, <1>12 DEF Fields, edges
<1>14. WellFormed(r)
  BY <1>7, <1>11, <1>13 DEF Added, WellFormed
<1>15. Added(s, r, {x, y})
  BY <1>7, <1>13, <1>14 DEF Added
<1> QED  BY <1>11, <1>13, <1>15 DEF OneEdge, e

EndsOf(d, m) == UNION {{d.edges[i].source, d.edges[i].target} : i \in 1..m}

(* The first m edges of d are read after its nodes. *)
Drawn(d, q, m, r) ==
  /\ WellFormed(r) /\ r.stack = <<>> /\ r.subgraphs = q.subgraphs
  /\ Len(r.edges) = m /\ \A i \in 1..m : r.edges[i] = d.edges[i]
  /\ DOMAIN r.nodes = DOMAIN d.nodes \cup EndsOf(d, m) /\ \A x \in DOMAIN d.nodes : r.nodes[x] = d.nodes[x]

(* The lines of the edges are read to the end.                             *)
LEMMA EdgesWritten ==
  ASSUME NEW d, Good(d), Legible(d), NEW q, Part(d, q), q.stack = <<>>, q.edges = <<>>, DOMAIN q.nodes = DOMAIN d.nodes,
         NEW t, t = [i \in DOMAIN d.edges |-> EdgeText(d.edges[i])]
  PROVE  \E r : Reads(q, t, r) /\ Drawn(d, q, Len(d.edges), r)
<1> DEFINE N == Len(d.edges)
           M == {m \in 0..N : \E r : Goes(q, t, m, r) /\ Drawn(d, q, m, r)}
<1>0. N \in Nat /\ DOMAIN d.edges = 1..N
  BY ListIs DEF Good, WellFormed
<1>1. /\ IsList(t) /\ Len(t) = N
      /\ \A i \in 1..N : t[i].kind = "chain" /\ t[i].both = d.edges[i].bidirectional /\ t[i].label = d.edges[i].label
                         /\ t[i].nodes = <<Bare(d.edges[i].source), Bare(d.edges[i].target)>>
  <2>1. DOMAIN t = 1..N /\ t = [i \in 1..N |-> t[i]]
    BY <1>0
  <2>2. IsList(t) /\ Len(t) = N
    <3> HIDE DEF N
    <3> QED  BY <1>0, <2>1, ListOf
  <2>3. ASSUME NEW i \in 1..N
        PROVE  /\ t[i].kind = "chain" /\ t[i].both = d.edges[i].bidirectional /\ t[i].label = d.edges[i].label
               /\ t[i].nodes = <<Bare(d.edges[i].source), Bare(d.edges[i].target)>>
    <3>1. t[i] = EdgeText(d.edges[i]) /\ d.edges[i] \in Range(d.edges)
      BY <1>0 DEF Range
    <3>2. d.edges[i].label \notin {"bar", "ampersand"}
      BY <3>1 DEF Legible
    <3> QED  BY <3>1, <3>2 DEF EdgeText, Bare
  <2> QED  BY <2>2, <2>3
<1>2. 0 \in M
  <2>1. EndsOf(d, 0) = {} /\ 0 \in 0..N /\ 1..0 = {}
    BY <1>0 DEF EndsOf
  <2>2. Drawn(d, q, 0, q)
    BY <2>1 DEF Drawn, Part
  <2>3. Goes(q, t, 0, q)
    <3> DEFINE st == [k \in {0} |-> q]
    <3>1. st[0] = q
      OBVIOUS
    <3> HIDE DEF st
    <3> QED  BY <2>1, <3>1 DEF Goes
  <2> QED  BY <2>1, <2>2, <2>3
<1>3. ASSUME NEW m \in 0..N, m + 1 \in 0..N, m \in M PROVE m + 1 \in M
  <2>1. PICK r : Goes(q, t, m, r) /\ Drawn(d, q, m, r)
    BY <1>3
  <2>2. m \in Nat /\ m + 1 \in 1..N /\ 1..(m + 1) = 1..m \cup {m + 1}
    BY <1>0, <1>3
  <2> DEFINE l == t[m + 1]
             x == d.edges[m + 1].source
             y == d.edges[m + 1].target
             both == d.edges[m + 1].bidirectional
             label == d.edges[m + 1].label
             s == FlowLine(r, l)
  <2>3. l.kind = "chain" /\ l.both = both /\ l.label = label /\ l.nodes = <<Bare(x), Bare(y)>>
    BY <1>1, <2>2
  <2> HIDE DEF l
  <2>4. s = Chain(r, <<Bare(x), Bare(y)>>, both, label) /\ FlowAccepts(r, l)
    BY <2>3 DEF FlowLine, FlowAccepts
  <2>5. d.edges[m + 1] = Edge(x, y, both, label)
    BY <1>0, <2>2 DEF Good
  <2>6. Goes(q, t, m + 1, s)
    BY <2>1, <2>2, <2>4, GoesOn DEF l
  <2> HIDE DEF s, x, y, both, label
  <2>7. WellFormed(r) /\ r.stack = <<>> /\ Len(r.edges) = m
    BY <2>1 DEF Drawn
  <2>8. /\ Added(r, s, {x, y}) /\ Len(s.edges) = m + 1 /\ s.edges[m + 1] = Edge(x, y, both, label)
        /\ \A i \in 1..m : s.edges[i] = r.edges[i]
    <3>1. OneEdge(r, s, x, y, Edge(x, y, both, label))
      BY <2>4, <2>7, ChainOfTwo
    <3> QED  BY <2>7, <3>1 DEF OneEdge
  <2>9. EndsOf(d, m + 1) = EndsOf(d, m) \cup {x, y}
    BY <2>2 DEF EndsOf, x, y
  <2>10. \A i \in 1..(m + 1) : s.edges[i] = d.edges[i]
    BY <2>1, <2>2, <2>5, <2>8 DEF Drawn
  <2>11. WellFormed(s) /\ s.stack = r.stack /\ s.subgraphs = r.subgraphs
         /\ DOMAIN s.nodes = DOMAIN r.nodes \cup {x, y} /\ \A z \in DOMAIN r.nodes : s.nodes[z] = r.nodes[z]
    BY <2>8 DEF Added
  <2>12. Drawn(d, q, m + 1, s)
    BY <2>1, <2>8, <2>9, <2>10, <2>11 DEF Drawn
  <2> QED  BY <1>3, <2>6, <2>12
<1>4. N \in M
  <2>0. N \in Nat
    BY <1>0
  <2> HIDE DEF M, N
  <2>1. \A i \in 0..N : i \in M
    BY <1>2, <1>3, <2>0, UpTo
  <2> QED  BY <2>0, <2>1
<1>5. PICK r : Goes(q, t, N, r) /\ Drawn(d, q, N, r)
  BY <1>4
<1> QED  BY <1>1, <1>5 DEF Reads

(* The rendering of a diagram is read to the end. *)
LEMMA RenderingRead ==
  ASSUME NEW d, Diagram(d)
  PROVE  \E r : /\ Reading(Render(d)) = [ok |-> TRUE, state |-> r]
                /\ DOMAIN r = Fields /\ r.stack = <<>> /\ r.edges = d.edges /\ Range(r.subgraphs) = Range(d.subgraphs)
                /\ DOMAIN r.nodes = DOMAIN d.nodes \cup Undeclared(d)
                /\ \A x \in DOMAIN d.nodes : r.nodes[x] = d.nodes[x]
<1> DEFINE N == Len(d.edges)
<1>0. Good(d) /\ Legible(d) /\ IsList(d.edges) /\ N \in Nat /\ DOMAIN d.edges = 1..N
  BY ListIs DEF Diagram, Good, WellFormed
<1>1. PICK t : t = Joined([i \in DOMAIN d.subgraphs |->
                            IF d.subgraphs[i].id \in Children(d) THEN <<>> ELSE RenderSubgraph(d, i)])
  OBVIOUS
<1>2. PICK u : u = [i \in DOMAIN d.edges |-> EdgeText(d.edges[i])]
  OBVIOUS
<1>3. Render(d) = t \o Mentions(d, DOMAIN d.nodes \ Grouped(d)) \o u
  BY <1>1, <1>2 DEF Render
<1>4. PICK q : /\ Reads(Start0, t \o Mentions(d, DOMAIN d.nodes \ Grouped(d)), q)
               /\ Part(d, q) /\ q.stack = <<>> /\ q.edges = <<>> /\ DOMAIN q.nodes = DOMAIN d.nodes
               /\ \A i \in DOMAIN d.subgraphs : Has(q, d.subgraphs[i])
  BY <1>1, NodesWritten
<1> HIDE DEF N
<1>5. PICK r : Reads(q, u, r) /\ Drawn(d, q, Len(d.edges), r)
  BY <1>0, <1>2, <1>4, EdgesWritten
<1>6. Reads(Start0, Render(d), r)
  BY <1>3, <1>4, <1>5, ReadsJoined
<1>7. Reading(Render(d)) = [ok |-> TRUE, state |-> r]
  BY <1>6, ReadingIs
<1>8. r.edges = d.edges
  <2>1. IsList(r.edges) /\ Len(r.edges) = N /\ \A i \in 1..N : r.edges[i] = d.edges[i]
    BY <1>5 DEF Drawn, WellFormed, N
  <2>2. PICK a, b : a = r.edges /\ b = d.edges
    OBVIOUS
  <2>3. a \in Seq(Range(a)) /\ b \in Seq(Range(b)) /\ Len(a) = N /\ Len(b) = N /\ \A i \in 1..N : a[i] = b[i]
    BY <1>0, <2>1, <2>2 DEF IsList, N
  <2>4. a = b
    BY <1>0, <2>3
  <2> QED  BY <2>2, <2>4
<1>9. Range(r.subgraphs) = Range(d.subgraphs)
  <2>1. \A i \in DOMAIN d.subgraphs : d.subgraphs[i] \in Range(q.subgraphs)
    BY <1>4 DEF Has, Range
  <2>2. \A i \in DOMAIN q.subgraphs : q.subgraphs[i] \in Range(d.subgraphs)
    BY <1>4 DEF Part, Range
  <2>3. Range(q.subgraphs) = Range(d.subgraphs)
    BY <2>1, <2>2 DEF Range
  <2> QED  BY <1>5, <2>3 DEF Drawn
<1>10. DOMAIN d.nodes \cup EndsOf(d, N) = DOMAIN d.nodes \cup Undeclared(d)
  <2>1. EndsOf(d, N) = UNION {{e.source, e.target} : e \in Range(d.edges)}
    BY <1>0 DEF EndsOf, Range
  <2>2. Undeclared(d) = EndsOf(d, N) \ DOMAIN d.nodes
    BY <2>1 DEF Undeclared
  <2> QED  BY <2>2
<1>11. /\ DOMAIN r = Fields /\ r.stack = <<>> /\ DOMAIN r.nodes = DOMAIN d.nodes \cup EndsOf(d, N)
       /\ \A x \in DOMAIN d.nodes : r.nodes[x] = d.nodes[x]
  BY <1>5 DEF Drawn, WellFormed, N
<1> QED  BY <1>7, <1>8, <1>9, <1>10, <1>11

MeansTheSame(d, reading, again, known) ==
  /\ reading.ok /\ again.stack = <<>>
  /\ Topology(known) = Topology(d)
  /\ DOMAIN again.nodes = DOMAIN d.nodes \cup Undeclared(d)

(* So the rendering means what the diagram does.                           *)
LEMMA DiagramBack ==
  ASSUME NEW d, Diagram(d), NEW reading, reading = Reading(Render(d)), NEW again, again = reading.state,
         NEW known, known = [again EXCEPT !.nodes = Restrict(again.nodes, DOMAIN again.nodes \ Undeclared(d))]
  PROVE  MeansTheSame(d, reading, again, known)
<1>1. PICK r : /\ reading = [ok |-> TRUE, state |-> r]
               /\ DOMAIN r = Fields /\ r.stack = <<>> /\ r.edges = d.edges /\ Range(r.subgraphs) = Range(d.subgraphs)
               /\ DOMAIN r.nodes = DOMAIN d.nodes \cup Undeclared(d)
               /\ \A x \in DOMAIN d.nodes : r.nodes[x] = d.nodes[x]
  BY RenderingRead
<1>2. reading.ok /\ again = r
  BY <1>1
<1>3. known.nodes = Restrict(r.nodes, DOMAIN r.nodes \ Undeclared(d)) /\ known.edges = r.edges
      /\ known.subgraphs = r.subgraphs
  BY <1>1, <1>2 DEF Fields
<1>4. known.nodes = d.nodes
  <2>1. DOMAIN r.nodes \ Undeclared(d) = DOMAIN d.nodes
    <3>1. PICK ends : Undeclared(d) = ends \ DOMAIN d.nodes
      BY DEF Undeclared
    <3> QED  BY <1>1, <3>1
  <2>2. known.nodes = [x \in DOMAIN d.nodes |-> r.nodes[x]]
    BY <1>3, <2>1 DEF Restrict
  <2>3. d.nodes = [x \in DOMAIN d.nodes |-> d.nodes[x]]
    BY DEF Diagram, Good
  <2> QED  BY <1>1, <2>2, <2>3
<1>5. known.edges = d.edges /\ Range(known.subgraphs) = Range(d.subgraphs)
  BY <1>1, <1>3
<1>6. Topology(known) = Topology(d)
  <2>1. \A x \in {known, d} : x.nodes = d.nodes /\ x.edges = d.edges /\ Range(x.subgraphs) = Range(d.subgraphs)
    BY <1>4, <1>5
  <2>2. PICK nodes, edges, groups : \A x \in {known, d} : x.nodes = nodes /\ x.edges = edges /\ Range(x.subgraphs) = groups
    BY <2>1
  <2>3. \A x \in {known, d} :
          Topology(x) = [nodes |-> [id \in DOMAIN nodes |-> nodes[id].shape],
                         edges |-> [i \in DOMAIN edges |-> [edges[i] EXCEPT !.label = NoLabel]],
                         subgraphs |-> {[id |-> g.id, nodes |-> g.nodes \cap DOMAIN nodes, children |-> g.children] : g \in groups}]
    BY <2>2 DEF Topology
  <2> QED  BY <2>3
<1> QED  BY <1>1, <1>2, <1>6 DEF MeansTheSame

(* A sound parser whose block ends, with distinct ids, has a diagram that  *)
(* renders back.                                                           *)
LEMMA BlockSoundHolds == BlockSound => RendersBack
<1> SUFFICES ASSUME BlockSound, Parsed, IsInjective(SubgraphIds(parser)), Legible(parser)
             PROVE  RendersBack
  BY DEF RendersBack
<1>1. PICK d : d = parser
  OBVIOUS
<1>2. Sound(d) /\ d.stack = <<>> /\ IsInjective(SubgraphIds(d)) /\ Legible(d)
  BY <1>1 DEF BlockSound, Parsed
<1>3. Distinct(d)
  <2>1. \A i, j \in DOMAIN d.subgraphs : d.subgraphs[i].id = d.subgraphs[j].id => i = j
    BY <1>2 DEF IsInjective, SubgraphIds
  <2>2. DOMAIN d.stack = {}
    BY <1>2
  <2> QED  BY <2>1, <2>2 DEF Distinct
<1>4. Diagram(d)
  BY <1>2, <1>3 DEF Sound, Diagram
<1>5. PICK reading : reading = Reading(Render(d))
  OBVIOUS
<1>6. PICK again : again = reading.state
  OBVIOUS
<1>7. PICK known : known = [again EXCEPT !.nodes = Restrict(again.nodes, DOMAIN again.nodes \ Undeclared(d))]
  OBVIOUS
<1>8. MeansTheSame(d, reading, again, known)
  BY <1>4, <1>5, <1>6, <1>7, DiagramBack
<1> QED  BY <1>1, <1>5, <1>6, <1>7, <1>8 DEF RendersBack, MeansTheSame

(* What is read from a design document is what it says.  The code takes    *)
(* the Mermaid blocks and the prose from a document in two functions that  *)
(* follow the fences on their own, and writes a diagram of either grammar  *)
(* as a flowchart: every line goes to one side; and when that flowchart    *)
(* has no label that its grammar takes for something else (Legible), it    *)
(* parses to the same nodes, shapes, edges and subgraphs, for documents    *)
(* and blocks of any length.                                               *)
THEOREM DiagramsAreFaithful == DiagramsSpec => []DiagramsFaithful
<1>1. DiagramsInit => BlockSound /\ FencesInv
  BY BlockSoundInit, FencesInvInit DEF DiagramsInit
<1>2. (BlockSound /\ FencesInv) /\ [DiagramsNext]_<<blockVars, fenceVars>> => (BlockSound /\ FencesInv)'
  BY BlockSoundNext, FencesInvNext
<1>3. BlockSound /\ FencesInv => DiagramsFaithful
  BY BlockSoundHolds, FencesInvHolds DEF DiagramsFaithful
<1> QED  BY <1>1, <1>2, <1>3, PTL DEF DiagramsSpec
=============================================================================
