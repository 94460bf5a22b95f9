---------------------------- MODULE StatusOutput ----------------------------
(***************************************************************************)
(* The answer to a status request whose snapshots are complete: the        *)
(* formatters of healthcheck_status (ngx_healthcheck_status.c) and         *)
(* check_status (status/ngx_healthcheck_legacy.c), and the writer          *)
(* (ngx_healthcheck_status_writer.c) that splits what they print into      *)
(* blocks of fixed size before anything is sent.                           *)
(*                                                                         *)
(* Text is a sequence of units: a number with its label, a status, a       *)
(* bracket or a comma.  Of a row its source, index and status are kept,    *)
(* the columns copied from the record and the markup are left out.  A      *)
(* printf call is the sequence of its units; a block may end between any   *)
(* two of them.                                                            *)
(***************************************************************************)
EXTENDS Naturals, Sequences

CONSTANTS BlockSize,  \* NGX_HEALTHCHECK_STATUS_BLOCK_SIZE, in units
          MaxShown    \* bound: peers of one source

ASSUME OutputAssumption == BlockSize \in Nat \ {0} /\ MaxShown \in Nat

VARIABLE output

Names == <<"http", "stream">>
StatusFormats == {"html", "csv", "json", "prometheus"}
LegacyFormats == {"legacy html", "legacy csv", "legacy json"}
Flags == {"all", "down", "up"}

\* What was collected of one source: its generation, and the verdicts of all
\* its peers.  Without a stream block the second source is missing.
Collected(s) ==
    [generation : {s}, verdicts : UNION {[1..n -> BOOLEAN] : n \in 0..MaxShown}]
NoSource == [generation |-> 0, verdicts |-> <<>>]

Unit(text) == [text |-> text, n |-> 0]
Number(text, n) == [text |-> text, n |-> n]

\* The items that are taken, in order.
Picked(items, taken) ==
    LET picked[n \in 0..Len(items)] ==
            IF n = 0 THEN <<>>
            ELSE IF taken[n] THEN Append(picked[n - 1], items[n]) ELSE picked[n - 1]
    IN  picked[Len(items)]

\* One text after the other.
Joined(texts) ==
    LET joined[n \in 0..Len(texts)] ==
            IF n = 0 THEN <<>> ELSE joined[n - 1] \o texts[n]
    IN  joined[Len(texts)]

----------------------------------------------------------------------------
(***************************************************************************)
(* The snapshots                                                           *)
(***************************************************************************)
Passes(flag, row) ==
    flag = "all" \/ (flag = "down" /\ row.down) \/ (flag = "up" /\ ~row.down)

Kept(flag, rows) == Picked(rows, [i \in DOMAIN rows |-> Passes(flag, rows[i])])

\* The peers of a source, as they were seen.
Peers(verdicts) ==
    [i \in DOMAIN verdicts |-> [index |-> i - 1, down |-> verdicts[i]]]

\* The counts are of all peers, the rows are the selected ones.
Snapshot(c, flag) ==
    [generation |-> c.generation,
     total |-> Len(c.verdicts),
     up |-> Len(Kept("up", Peers(c.verdicts))),
     rows |-> Kept(flag, Peers(c.verdicts))]

----------------------------------------------------------------------------
(***************************************************************************)
(* The formatters: each is the sequence of its printf calls.               *)
(***************************************************************************)
Row(name, row) == <<Number(name, row.index), Unit(IF row.down THEN "down" ELSE "up")>>

Rows(name, rows) == [i \in DOMAIN rows |-> Row(name, rows[i])]

\* The rows of both sources, filtered once more.
BothRows(snaps, flag) ==
    Rows("http", Kept(flag, snaps[1].rows)) \o Rows("stream", Kept(flag, snaps[2].rows))

Generation(snaps) ==
    Number("generation", IF snaps[2].generation # 0 THEN snaps[2].generation
                                                    ELSE snaps[1].generation)

HtmlTable(name, snap, flag) ==
    << <<Number("count up", snap.up), Number("count down", snap.total - snap.up),
         Number("count", snap.total)>> >>
        \o Rows(name, Kept(flag, snap.rows)) \o << <<Unit("end")>> >>

Html(snaps, flag) ==
    << <<Unit("head")>> >>
        \o HtmlTable("http", snaps[1], flag) \o HtmlTable("stream", snaps[2], flag)
        \o << <<Number("servers", snaps[1].total + snaps[2].total)>> >>

Csv(snaps, flag) == << <<Unit("head")>> >> \o BothRows(snaps, flag)

\* A plausible bug: the comma is decided by the number of rows of both arrays.
SeparatorOfTotal(rows, i, total) == IF i = total THEN <<>> ELSE <<Unit(",")>>

Separator(rows, i, total) == IF i = Len(rows) THEN <<>> ELSE <<Unit(",")>>

JsonRows(name, rows, total) ==
    [i \in DOMAIN rows |-> Row(name, rows[i]) \o Separator(rows, i, total)]

Json(snaps) ==
    LET total == Len(snaps[1].rows) + Len(snaps[2].rows)
    IN  << <<Number("count", total), Generation(snaps), Unit("[")>> >>
            \o JsonRows("http", snaps[1].rows, total)
            \o << <<Unit("]"), Unit("[")>> >>
            \o JsonRows("stream", snaps[2].rows, total)
            \o << <<Unit("]")>>, <<Unit("end")>> >>

\* One family of metrics.
Family(metric, snaps, flag) == << <<Unit(metric)>> >> \o BothRows(snaps, flag)

Prometheus(snaps, flag) ==
    LET both == Kept(flag, snaps[1].rows) \o Kept(flag, snaps[2].rows)
        down == Len(Kept("down", both))
    IN  << <<Number("count", Len(both)), Number("count up", Len(both) - down),
             Number("count down", down), Generation(snaps)>> >>
            \o Family("rise", snaps, flag) \o Family("fall", snaps, flag)
            \o Family("active", snaps, flag)

LegacyHead(snap) == <<Number("count", Len(snap.rows)), Number("generation", snap.generation)>>

Legacy(format, snap) ==
    CASE format = "legacy html" ->
            <<LegacyHead(snap)>> \o Rows("http", snap.rows) \o << <<Unit("end")>> >>
      [] format = "legacy csv" -> Rows("http", snap.rows)
      [] format = "legacy json" ->
            <<LegacyHead(snap) \o <<Unit("[")>> >>
                \o JsonRows("http", snap.rows, Len(snap.rows))
                \o << <<Unit("]"), Unit("end")>> >>

Calls(format, snaps, flag) ==
    CASE format = "html" -> Html(snaps, flag)
      [] format = "csv" -> Csv(snaps, flag)
      [] format = "json" -> Json(snaps)
      [] format = "prometheus" -> Prometheus(snaps, flag)
      [] OTHER -> Legacy(format, snaps[1])

----------------------------------------------------------------------------
(***************************************************************************)
(* The writer                                                              *)
(***************************************************************************)
NoOutput ==
    [pc |-> "collected", format |-> "html", flag |-> "all", sources |-> <<>>,
     calls |-> <<>>, blocks |-> <<>>, length |-> 0, body |-> <<>>]

OutputInit == output = NoOutput

\* ngx_healthcheck_request_output, for any format and filter the location and
\* the arguments of the request can choose.
Format ==
    /\ output.pc = "collected"
    /\ \E http \in Collected(1), stream \in Collected(2) \cup {NoSource},
          format \in StatusFormats \cup LegacyFormats, flag \in Flags :
         LET sources == IF format \in LegacyFormats THEN <<http>> ELSE <<http, stream>>
             snaps == [s \in DOMAIN sources |-> Snapshot(sources[s], flag)]
         IN  output' = [NoOutput EXCEPT !.pc = "write", !.format = format,
                            !.flag = flag, !.sources = sources,
                            !.calls = Calls(format, snaps, flag)]

Room(blocks) == IF blocks = <<>> THEN 0 ELSE BlockSize - Len(blocks[Len(blocks)])

Fewer(m, n) == IF m <= n THEN m ELSE n

\* One turn of the loop that appends the text of a printf call.
Write ==
    /\ output.pc = "write" /\ output.calls # <<>>
    /\ LET text == Head(output.calls)
           blocks == IF Room(output.blocks) = 0 THEN Append(output.blocks, <<>>)
                                                ELSE output.blocks
           copy == Fewer(Room(blocks), Len(text))
           left == SubSeq(text, copy + 1, Len(text))
       IN  output' = [output EXCEPT
                !.blocks = [blocks EXCEPT ![Len(blocks)] = @ \o SubSeq(text, 1, copy)],
                !.length = @ + copy,
                !.calls = (IF left = <<>> THEN <<>> ELSE <<left>>) \o Tail(@)]

\* No memory for another block: the request fails (500), nothing was sent.
WriteFails ==
    /\ output.pc = "write" /\ output.calls # <<>> /\ Room(output.blocks) = 0
    /\ output' = [output EXCEPT !.pc = "failed"]

\* The header with the length, and for GET the blocks, if there are any and the
\* header went out.
Send ==
    /\ output.pc = "write" /\ output.calls = <<>>
    /\ \E body \in {<<>>, Joined(output.blocks)} :
         output' = [output EXCEPT !.pc = "sent", !.body = body]

OutputNext == Format \/ Write \/ WriteFails \/ Send

OutputSpec == OutputInit /\ [][OutputNext]_output

----------------------------------------------------------------------------
(***************************************************************************)
(* Properties                                                              *)
(***************************************************************************)
Labelled(text, label) == [i \in DOMAIN text |-> text[i].text = label]

ReadNumbers(text, label) ==
    Picked([i \in DOMAIN text |-> text[i].n], Labelled(text, label))

\* The rows of a source as a reader finds them in the answer.
ReadRows(text, name) ==
    Picked([i \in DOMAIN text |->
               [index |-> text[i].n,
                down |-> i < Len(text) /\ text[i + 1].text = "down"]],
           Labelled(text, name))

\* The peers the client asked for.
Expected(s) == Kept(output.flag, Peers(output.sources[s].verdicts))

\* The length that is announced is that of the blocks, of which only the last
\* one may have room left.
BlocksWhole(text) ==
    /\ output.length = Len(text)
    /\ \A b \in DOMAIN output.blocks :
          Len(output.blocks[b]) = BlockSize
             \/ (b = Len(output.blocks) /\ output.blocks[b] # <<>>)

\* Every format shows the selected peers, each source's in order; prometheus
\* does in each of its three families.
RowsShown(text) ==
    \A s \in DOMAIN output.sources :
        LET rows == Expected(s)
        IN  ReadRows(text, Names[s]) =
                IF output.format = "prometheus" THEN rows \o rows \o rows ELSE rows

\* The totals belong to the rows, but those of html, which are of all peers;
\* the generation is that of a zone there is.
TotalsMatch(text) ==
    LET count == ReadNumbers(text, "count")
        up == ReadNumbers(text, "count up")
        down == ReadNumbers(text, "count down")
        sources == DOMAIN output.sources
        rows == Joined([s \in sources |-> Expected(s)])
    IN  /\ output.format \in {"json", "prometheus", "legacy html", "legacy json"} =>
              /\ count = <<Len(rows)>>
              /\ ReadNumbers(text, "generation")[1]
                    \in {output.sources[s].generation : s \in sources} \ {0}
        /\ output.format = "html" =>
              count = [s \in sources |-> Len(output.sources[s].verdicts)]
        /\ \A k \in DOMAIN up : up[k] + down[k] = count[k]
        /\ output.format = "prometheus" => up = <<Len(Kept("up", rows))>>

\* A comma between two rows of an array, and nowhere else.
CommasBetweenRows(text) ==
    output.format \in {"json", "legacy json"} =>
        \A i \in DOMAIN text :
            /\ text[i].text \in {"up", "down"} => text[i + 1].text \in {",", "]"}
            /\ text[i].text = "," => /\ text[i - 1].text \in {"up", "down"}
                                     /\ text[i + 1].text \in {"http", "stream"}

\* README: "JSON total matches the emitted array length", whatever was
\* selected and however the text falls into blocks, and "allocation failures
\* return HTTP 500": an answer that is sent is complete, its length, totals,
\* rows and separators agree with what was seen of the peers, and one that
\* fails has sent nothing.
AnswerSound ==
    /\ output.pc = "sent" =>
          LET text == Joined(output.blocks)
          IN  /\ BlocksWhole(text) /\ RowsShown(text)
              /\ TotalsMatch(text) /\ CommasBetweenRows(text)
              /\ output.body \in {<<>>, text}
    /\ output.pc = "failed" => output.body = <<>>
=============================================================================
