------------------------------ MODULE Articles ------------------------------
(***************************************************************************)
(* Threat-intel articles (api/intel.py, services/intel).  An article is    *)
(* stored once under the hash of its text; what the agent extracts from it *)
(* is a second file written after, in place.  Everything up to the audit   *)
(* entries is one stretch of the event loop without an await: fetching     *)
(* blocks the loop, and only a stop comes in between.                      *)
(***************************************************************************)
EXTENDS Naturals, FiniteSets, Sequences

CONSTANTS
  Posts,         \* requests to ingest an article
  Texts,
  TextOf,        \* the text each request brings, pasted or behind its URL
  UrlOf,         \* its URL, NoUrl when the text is pasted
  NoUrl,
  Extractions,   \* what the agent may extract and its gate accepts
  Truncated,          \* a file that was truncated and not yet written
  MaxRedirects,  \* MAX_REDIRECTS
  MaxStarts      \* bound: starts of the process

ASSUME ArticlesAssumption ==
  /\ TextOf \in [Posts -> Texts] /\ DOMAIN UrlOf = Posts
  /\ Truncated \notin Extractions /\ MaxRedirects \in Nat /\ MaxStarts \in Nat

VARIABLES
  post,          \* where each request is
  hops,          \* how many URLs it has asked
  articles,      \* manifest.json of each stored text: source and time
  extraction,    \* extraction.json of each text that has one
  told,          \* what clients were told of a text
  intelLog,      \* "intel.ingested" entries of the audit log
  now,           \* the last fetched_at that was stored
  starts

articleVars == <<post, hops, articles, extraction, told, intelLog, now, starts>>

OnLoop == {"fetch", "read", "extract", "write", "read_again"}
NobodyElse(p) == \A q \in Posts \ {p} : post[q] \notin OnLoop
To(p, s) == post' = [post EXCEPT ![p] = s]
Set(file, t, v) == [x \in DOMAIN file \cup {t} |-> IF x = t THEN v ELSE file[x]]

ArticlesInit ==
  /\ post = [p \in Posts |-> "idle"] /\ hops = [p \in Posts |-> 0]
  /\ articles = <<>> /\ extraction = <<>>
  /\ told = {} /\ intelLog = {}
  /\ now = 0 /\ starts = 1

-----------------------------------------------------------------------------

SendPost(p) ==
  /\ post[p] \in {"idle", "failed"} /\ NobodyElse(p)
  /\ To(p, IF UrlOf[p] = NoUrl THEN "fetched" ELSE "fetch")
  /\ hops' = [hops EXCEPT ![p] = 0]
  /\ UNCHANGED <<articles, extraction, told, intelLog, now, starts>>

(* One turn of fetch_article's loop: each URL is validated before it is    *)
(* asked, the first one as well as those it is redirected to.              *)
Hop(p) ==
  /\ post[p] = "fetch" /\ hops[p] =< MaxRedirects
  /\ hops' = [hops EXCEPT ![p] = @ + 1]
  /\ \/ UNCHANGED post                    \* a redirect
     \/ To(p, "fetched")                  \* a body that is not too large
     \/ To(p, "failed")                   \* refused, no Location, error or too large
  /\ UNCHANGED <<articles, extraction, told, intelLog, now, starts>>

TooManyRedirects(p) ==
  /\ post[p] = "fetch" /\ hops[p] > MaxRedirects
  /\ To(p, "failed")
  /\ UNCHANGED <<hops, articles, extraction, told, intelLog, now, starts>>

(* write_article: a temporary directory and a rename, or nothing at all    *)
(* when the text is stored, whatever URL it came from.                     *)
WriteArticle(p) ==
  LET t == TextOf[p] IN
  /\ post[p] = "fetched" /\ NobodyElse(p)
  /\ IF t \in DOMAIN articles THEN UNCHANGED <<articles, now>>
     ELSE /\ now' = now + 1
          /\ articles' = Set(articles, t, [url |-> UrlOf[p], at |-> now'])
  /\ To(p, "read")
  /\ UNCHANGED <<hops, extraction, told, intelLog, starts>>

(* A programming error: what is stored is not looked at. *)
BugExtractsAgain(p) ==
  /\ post[p] = "read" /\ To(p, "extract")
  /\ UNCHANGED <<hops, articles, extraction, told, intelLog, now, starts>>

(* read_extraction: a torn file cannot be parsed, and nothing repairs it. *)
ReadExtraction(p) ==
  LET t == TextOf[p] IN
  /\ post[p] = "read"
  /\ To(p, IF t \notin DOMAIN extraction THEN "extract"
           ELSE IF extraction[t] = Truncated THEN "failed" ELSE "read_again")
  /\ UNCHANGED <<hops, articles, extraction, told, intelLog, now, starts>>

(* The provider fails or the gate refuses the output: the article stays    *)
(* without an extraction, and the same request may be sent again.          *)
ExtractFails(p) ==
  /\ post[p] = "extract" /\ To(p, "failed")
  /\ UNCHANGED <<hops, articles, extraction, told, intelLog, now, starts>>

(* write_extraction opens the file, which truncates it ... *)
Extract(p) ==
  /\ post[p] = "extract" /\ To(p, "write")
  /\ extraction' = Set(extraction, TextOf[p], Truncated)
  /\ UNCHANGED <<hops, articles, told, intelLog, now, starts>>

(* ... and writes what the agent extracted. *)
WriteExtraction(p) ==
  /\ post[p] = "write"
  /\ \E e \in Extractions : extraction' = Set(extraction, TextOf[p], e)
  /\ To(p, "invoked")
  /\ UNCHANGED <<hops, articles, told, intelLog, now, starts>>

(* The entry "agent.invoked" is an await; read_article comes after it. *)
RecordInvoked(p) ==
  /\ post[p] = "invoked" /\ NobodyElse(p) /\ To(p, "read_again")
  /\ UNCHANGED <<hops, articles, extraction, told, intelLog, now, starts>>

RecordIngested(p) ==
  LET t == TextOf[p] IN
  /\ post[p] = "read_again" /\ NobodyElse(p)
  /\ intelLog' = intelLog \cup {[post |-> p, text |-> t, of |-> extraction[t]]}
  /\ To(p, "logged")
  /\ UNCHANGED <<hops, articles, extraction, told, now, starts>>

Answer(t) == [text |-> t, of |-> extraction[t], source |-> articles[t]]

AnswerPost(p) ==
  /\ post[p] = "logged" /\ NobodyElse(p)
  /\ told' = told \cup {Answer(TextOf[p])}
  /\ To(p, "done")
  /\ UNCHANGED <<hops, articles, extraction, intelLog, now, starts>>

(* get_article: 404 without an article or without an extraction. *)
GetArticle(t) ==
  /\ \A p \in Posts : post[p] \notin OnLoop
  /\ t \in DOMAIN articles /\ t \in DOMAIN extraction /\ extraction[t] # Truncated
  /\ told' = told \cup {Answer(t)}
  /\ UNCHANGED <<post, hops, articles, extraction, intelLog, now, starts>>

Restart ==
  /\ starts < MaxStarts
  /\ starts' = starts + 1
  /\ post' = [p \in Posts |-> IF post[p] \in {"idle", "done"} THEN post[p] ELSE "failed"]
  /\ UNCHANGED <<hops, articles, extraction, told, intelLog, now>>

ArticlesNext ==
  \/ \E p \in Posts :
       \/ SendPost(p) \/ Hop(p) \/ TooManyRedirects(p)
       \/ WriteArticle(p) \/ ReadExtraction(p) \/ ExtractFails(p) \/ Extract(p)
       \/ WriteExtraction(p) \/ RecordInvoked(p) \/ RecordIngested(p) \/ AnswerPost(p)
  \/ \E t \in Texts : GetArticle(t)
  \/ Restart
ArticlesSpec == ArticlesInit /\ [][ArticlesNext]_articleVars

-----------------------------------------------------------------------------

(* Whoever asks for a text is told the same, whichever request brought it  *)
(* first, across failures, retries and restarts: one extraction, one       *)
(* source, one time.  What the audit log says was ingested is what is      *)
(* stored, and a request is answered only after its entry.  A torn         *)
(* extraction is the trace of a stop and of nothing else, and was never    *)
(* told.                                                                   *)
ArticlesAnswersAgree ==
  /\ \A x, y \in told : x.text = y.text => x = y
  /\ \A x \in told : x = Answer(x.text) /\ x.of # Truncated
  /\ \A e \in intelLog : e.of = extraction[e.text]
  /\ \A p \in Posts : post[p] = "done" => \E e \in intelLog : e.post = p
  /\ \A t \in DOMAIN extraction :
       extraction[t] = Truncated => starts > 1 \/ \E p \in Posts : TextOf[p] = t /\ post[p] = "write"
=============================================================================
