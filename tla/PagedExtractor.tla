---------------------------- MODULE PagedExtractor ----------------------------
(***************************************************************************)
(* paged_https_extractor (hpda/src/extractor/paged_https_extractor.cpp),   *)
(* which reads a collection page by page, and json_to_data_batch           *)
(* (hpda/processor/transform/json_to_data_batch.h) above it, which takes   *)
(* the pages apart, as the engine drives the two for an output below.  A   *)
(* request can fail, and a page can be without its members.                *)
(***************************************************************************)
EXTENDS Integers, Sequences, FiniteSets

CONSTANTS
  Collections,   \* sizes of the collection a server has
  Limit,         \* m_page_limit
  MaxGiven       \* bound: rows that the history keeps

VARIABLES
  total,     \* the rows the server has
  invalid,   \* those the item_transformer throws on
  at,        \* whom the engine processes: "json", "pages", then "end" or "undefined"
  ended,     \* the extractor has status_end
  page,      \* m_response, while the extractor has a value; None otherwise
  m_index, m_reach_end,           \* of the extractor
  m_all_data, m_next_data_index,  \* of json_to_data_batch
  given,   \* history: the first rows the output took
  parity   \* history: the parity of the calls of process() of json_to_data_batch

pages == <<ended, m_index, m_reach_end>>
json  == <<m_all_data, m_next_data_index>>
vars  == <<total, invalid, at, pages, page, json, given, parity>>

None == [kind |-> "none"]

\* What a request for the page at index brings: nothing that can be parsed; a
\* page; one without its "start" or "end"; one without its "data".
End(index) == IF total < index + Limit THEN total ELSE index + Limit

Responses(index) ==
  {None, [kind |-> "unplaced"]}
    \cup {[kind |-> k, start |-> index, end |-> End(index)] : k \in {"page", "no data"}}

Placed(r) == r.kind \in {"page", "no data"}

Init ==
  /\ total \in Collections /\ invalid \in SUBSET (1 .. total)
  /\ at = "json" /\ ended = FALSE /\ page = None
  /\ m_index = 0 /\ m_reach_end = FALSE
  /\ m_all_data = <<>> /\ m_next_data_index = 0
  /\ given = <<>> /\ parity = 0

-----------------------------------------------------------------------------
\* process() of the extractor: FALSE when the end was reached, and on any
\* exception, which for the engine is the end as well.
ProcessPages ==
  /\ at = "pages"
  /\ IF m_reach_end
     THEN ended' = TRUE /\ UNCHANGED <<page, m_index, m_reach_end>>
     ELSE \E r \in Responses(m_index) :
            IF Placed(r)
            THEN /\ page' = r /\ m_index' = r.end
                 /\ m_reach_end' = (r.end - r.start < Limit) /\ UNCHANGED ended
            ELSE /\ ended' = TRUE /\ UNCHANGED <<page, m_index, m_reach_end>>
  /\ at' = "json"
  /\ UNCHANGED <<total, invalid, json, given, parity>>

\* parse_data, on the page at hand: items that cannot be transformed are left out.
Ascending(S) ==
  CHOOSE s \in [1 .. Cardinality(S) -> S] : \A i, j \in DOMAIN s : i < j => s[i] < s[j]

Parsed == Ascending({r \in page.start + 1 .. page.end : r \notin invalid})

\* output_value() after a successful process(): the element of an empty vector
\* is not defined.
Output(all, index) ==
  IF all = <<>> THEN at' = "undefined" /\ UNCHANGED given
                ELSE /\ given' = IF Len(given) < MaxGiven THEN Append(given, all[index + 1]) ELSE given
                     /\ UNCHANGED at

\* process() of json_to_data_batch.  A page it has parsed stays its input; one
\* it cannot parse is consumed, and the engine asks the extractor for the next.
ProcessJson ==
  /\ at = "json" /\ parity' = 1 - parity
  /\ IF m_next_data_index + 1 < Len(m_all_data)
     THEN /\ m_next_data_index' = m_next_data_index + 1
          /\ Output(m_all_data, m_next_data_index')
          /\ UNCHANGED <<m_all_data, page>>
     ELSE /\ m_next_data_index' = 0
          /\ IF page.kind = "page"
             THEN m_all_data' = Parsed /\ Output(Parsed, 0) /\ UNCHANGED page
             ELSE /\ m_all_data' = <<>> /\ page' = None
                  /\ at' = (IF ended THEN "end" ELSE "pages") /\ UNCHANGED given
  /\ UNCHANGED <<total, invalid, pages>>

Next == ProcessPages \/ ProcessJson

Spec == Init /\ [][Next]_vars /\ WF_vars(Next)

-----------------------------------------------------------------------------
\* "engine.run() end" (test_kmeans_iris.cpp:121): a collection has finitely many pages,
\* so an output that reads it through json_to_data_batch comes to its end, or asks for a
\* value of a page that has none.
Ends == <>(at \in {"end", "undefined"})

\* Why it does not: process() consumes its input only when it fails, so a page that gave
\* a row is parsed again when its rows are used up (json_to_data_batch.h, ll. 32-41).  The
\* output gets the rows of the first such page over and over, whatever the server has,
\* and there is an end only if no page gave a row.
FirstPageForEver ==
  /\ given # <<>> => /\ page.kind = "page" /\ Parsed # <<>>
                     /\ \A i \in DOMAIN given : given[i] = Parsed[1 + ((i - 1) % Len(Parsed))]
  /\ at = "end" => given = <<>>
=============================================================================
