---------------------------- MODULE KibanaContent ----------------------------
(***************************************************************************)
(* Who logs which line (the C++ services), which index Logstash puts it    *)
(* into, and which lines a panel of the Kibana dashboard counts: the       *)
(* agreement of three languages that nothing checks at build time.         *)
(*                                                                         *)
(* A line is its event, the process and the consumer it names, and the     *)
(* fields the panels use.  Wording and layout of the panels are left out.  *)
(***************************************************************************)
EXTENDS Naturals, Sequences, FiniteSets

Processes == {"api", "consumers"}

Line(process, event, consumer, fields) ==
    [process |-> process, event |-> event, consumer |-> consumer,
     fields |-> fields \union {"level"}]

(* What a load worker logs of a request, and the handler of the same       *)
(* request in the same process.                                            *)
LoadGeneratorLines ==
    {Line("api", e, "none", {"method", "status_code", "latency_ms"}) :
        e \in {"request_sent", "request_failed"}}

(* Mutant of HandlerLines: the handlers log the method, too. *)
HandlerLinesWithMethod ==
    {Line("api", e, "none", {"latency_ms", "method"}) :
        e \in {"api_order_created", "api_order_status_updated"}}
    \union {Line("api", e, "none", {}) :
        e \in {"api_cache_hit", "api_cache_miss", "api_bad_request",
               "api_server_error", "api_redis_fallback", "api_db_hit"}}

HandlerLines ==
    {Line("api", e, "none", {"latency_ms"}) :
        e \in {"api_order_created", "api_order_status_updated"}}
    \union {Line("api", e, "none", {}) :
        e \in {"api_cache_hit", "api_cache_miss", "api_bad_request",
               "api_server_error", "api_redis_fallback", "api_db_hit"}}

Consumers == {"RedisUpdater", "ESIndexer", "Notifier"}

(* The loop all consumers share. *)
LoopLines ==
    {Line("consumers", "record_processed", c, {"processing_latency_ms"}) :
        c \in Consumers}
    \union {Line("consumers", e, c, {}) :
        e \in {"unparseable_payload_routing_dlq", "record_processing_failed",
               "retries_exhausted_routing_dlq", "kafka_consumer_warning"},
        c \in Consumers}

DlqLines ==
    {Line("consumers", e, c, {}) :
        e \in {"dlq_producer_unavailable", "dlq_produce_failed",
               "routed_to_dlq"},
        c \in Consumers}

RedisUpdaterLines ==
    {Line("consumers", "redis_updated", "RedisUpdater", {"sink_latency_ms"}),
     Line("consumers", "redis_stale_event_ignored", "none", {})}

NotifierLines ==
    {Line("consumers", e, "Notifier", {}) :
        e \in {"email_notification_sent",
               "email_notification_skipped_duplicate"}}

ESIndexerLines ==
    {Line("consumers", "es_indexed", "ESIndexer",
          {"status_code", "sink_latency_ms"})}

(* An error text with a quote in it: not JSON, so no fields at all. *)
Garbled == [process |-> "consumers", event |-> "none", consumer |-> "none",
            fields |-> {}]

Lines == LoadGeneratorLines \union HandlerLines \union LoopLines
         \union DlqLines \union RedisUpdaterLines \union NotifierLines
         \union ESIndexerLines \union {Garbled}

(* Mutant of LogType: es_indexed is not listed. *)
LogTypeWithoutES(event) ==
    CASE event \in {"request_sent", "request_failed", "api_order_created",
                    "api_order_status_updated", "api_cache_hit",
                    "api_cache_miss"} -> "api"
      [] event \in {"redis_updated", "email_notification_sent",
                    "record_processed", "routed_to_dlq",
                    "record_processing_failed", "redis_stale_event_ignored"}
           -> "consumer"
      [] OTHER -> "system"

(* Logstash: the filter and the three outputs. *)
LogType(event) ==
    CASE event \in {"request_sent", "request_failed", "api_order_created",
                    "api_order_status_updated", "api_cache_hit",
                    "api_cache_miss"} -> "api"
      [] event \in {"redis_updated", "es_indexed", "email_notification_sent",
                    "record_processed", "routed_to_dlq",
                    "record_processing_failed", "redis_stale_event_ignored"}
           -> "consumer"
      [] OTHER -> "system"

Index(line) == CASE LogType(line.event) = "api" -> "cdc-api-logs"
                 [] LogType(line.event) = "consumer" -> "cdc-consumer-logs"
                 [] OTHER -> "cdc-system-logs"

----------------------------------------------------------------------------
(* Panels *)

(* index: the documents it reads; view: through a data view, or by the     *)
(* name of the index; key, values: its query; per: the fields a document   *)
(* needs to be counted, because it is grouped or aggregated by them.       *)
Panel(id, index, view, key, values, per) ==
    [id |-> id, index |-> index, view |-> view, key |-> key,
     values |-> values, per |-> per]

Text(id) == Panel(id, "none", FALSE, "none", {}, {})
IsText(panel) == panel.index = "none"

(* A saved visualization without a query, and one with a query. *)
All(id, index, per) == Panel(id, index, TRUE, "none", {}, per)
Some(id, index, key, values, per) == Panel(id, index, TRUE, key, values, per)

ApiCards ==
    {All("vis-total-orders", "cdc-api-logs", {}),
     All("vis-p50-latency", "cdc-api-logs", {"latency_ms"}),
     All("vis-p95-latency", "cdc-api-logs", {"latency_ms"}),
     Some("vis-redis-sink-latency", "cdc-consumer-logs",
          "consumer", {"RedisUpdater"}, {"sink_latency_ms"})}

ConsumerCards ==
    {All("vis-total-consumer-events", "cdc-consumer-logs", {}),
     Some("vis-es-sink-latency", "cdc-consumer-logs",
          "consumer", {"ESIndexer"}, {"sink_latency_ms"}),
     Some("vis-idempotency-dedup", "cdc-system-logs",
          "event", {"email_notification_skipped_duplicate"}, {}),
     Some("vis-dlq-count", "cdc-system-logs", "event", {"routed_to_dlq"}, {})}

Figure1 == Panel("vis-figure1-throughput", "cdc-api-logs", FALSE,
                 "none", {}, {})

Figure4 == Panel("vis-figure4-consumer-throughput", "cdc-consumer-logs", FALSE,
                 "none", {}, {})

Figure2 == Panel("vis-figure2-percentiles", "cdc-api-logs", FALSE,
                 "none", {}, {"latency_ms"})

(* Beside the average, the tooltip shows all the bucket's documents as the  *)
(* number of operations.                                                   *)
Figure3 == Panel("vis-figure3-dual-store", "cdc-consumer-logs", FALSE,
                 "consumer", {"RedisUpdater", "ESIndexer"}, {})

Donuts ==
    {All("vis-api-status-pie", "cdc-api-logs", {"status_code"}),
     All("vis-api-method-pie", "cdc-api-logs", {"method"}),
     Some("vis-events-pie", "cdc-consumer-logs",
          "consumer", Consumers, {"event"}),
     All("vis-system-severity-pie", "cdc-system-logs", {"level"})}

Tables ==
    {All("vis-api-summary-table", "cdc-api-logs", {"method"}),
     Some("vis-consumer-summary-table", "cdc-consumer-logs",
          "consumer", Consumers, {}),
     All("vis-api-detailed-table", "cdc-api-logs", {"status_code", "method"}),
     Some("vis-consumer-detailed-table", "cdc-consumer-logs",
          "consumer", Consumers, {"event"})}

Banner == Text("vis-header-banner")
SlaSummary == Text("vis-architecture-summary")

Panels == {Banner, Figure1, Figure2, Figure3, Figure4, SlaSummary}
          \union ApiCards \union ConsumerCards \union Donuts \union Tables

(* check_soak_status.py, which reads the index itself. *)
SoakRate == Panel("none", "cdc-api-logs", FALSE, "none", {}, {})

(* The order in which main() saves the visualizations. *)
BuildOrder ==
    <<"vis-header-banner", "vis-total-orders", "vis-p50-latency",
      "vis-p95-latency", "vis-redis-sink-latency", "vis-total-consumer-events",
      "vis-es-sink-latency", "vis-idempotency-dedup", "vis-dlq-count",
      "vis-figure1-throughput", "vis-figure4-consumer-throughput",
      "vis-figure2-percentiles", "vis-figure3-dual-store",
      "vis-api-status-pie", "vis-api-method-pie", "vis-events-pie",
      "vis-system-severity-pie", "vis-api-summary-table",
      "vis-consumer-summary-table", "vis-api-detailed-table",
      "vis-consumer-detailed-table", "vis-architecture-summary">>

(* What the panels of the dashboard refer to. *)
References ==
    {"vis-header-banner", "vis-architecture-summary"}
    \union {"vis-total-orders", "vis-p50-latency", "vis-p95-latency",
            "vis-redis-sink-latency", "vis-total-consumer-events",
            "vis-es-sink-latency", "vis-idempotency-dedup", "vis-dlq-count"}
    \union {"vis-figure1-throughput", "vis-figure4-consumer-throughput",
            "vis-figure2-percentiles", "vis-figure3-dual-store"}
    \union {"vis-api-status-pie", "vis-api-method-pie", "vis-events-pie",
            "vis-system-severity-pie"}
    \union {"vis-api-summary-table", "vis-consumer-summary-table",
            "vis-api-detailed-table", "vis-consumer-detailed-table"}

(* The series of the first two charts of generate_benchmark_charts.py:     *)
(* index, and the event they filter by.                                    *)
ThroughputSeries == {<<"cdc-api-logs", "request_sent">>,
                     <<"cdc-consumer-logs", "redis_updated">>,
                     <<"cdc-consumer-logs", "es_indexed">>}

PercentileSeries == {<<"cdc-api-logs", "request_sent">>,
                     <<"cdc-consumer-logs", "redis_updated">>,
                     <<"cdc-consumer-logs", "es_indexed">>,
                     <<"cdc-consumer-logs", "record_processed">>}

(* The data views of setup_kibana.py, in its order. *)
DataViews == <<"cdc-api-logs", "cdc-consumer-logs", "cdc-system-logs", "orders">>

----------------------------------------------------------------------------
(* Queries *)

Matches(panel, line) ==
    \/ panel.key = "none"
    \/ panel.key = "consumer" /\ line.consumer \in panel.values
    \/ panel.key = "event" /\ line.event \in panel.values

Counts(panel, line) ==
    /\ Index(line) = panel.index
    /\ Matches(panel, line)
    /\ panel.per \ {"event"} \subseteq line.fields

(* What one piece of work logs: a POST, a PATCH, a record in each consumer. *)
Work ==
    LET line(e) == CHOOSE l \in Lines : l.event = e
        looped(c) == CHOOSE l \in Lines : /\ l.event = "record_processed"
                                          /\ l.consumer = c
    IN  {{line("request_sent"), line("api_order_created")},
         {line("request_sent"), line("api_order_status_updated")},
         {line("redis_updated"), looped("RedisUpdater")},
         {line("es_indexed"), looped("ESIndexer")},
         {line("email_notification_sent"), looped("Notifier")}}

(* Two lines of one piece of work, in the same group. *)
CountsTwice(panel) ==
    \E work \in Work : \E l, m \in work :
        /\ l # m
        /\ Counts(panel, l) /\ Counts(panel, m)
        /\ "event" \in panel.per => l.event = m.event
=============================================================================
