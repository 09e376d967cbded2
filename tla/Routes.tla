------------------------------- MODULE Routes -------------------------------
(***************************************************************************)
(* The HTTP operations of the server.  A handler is what it demands of a   *)
(* request, in the order in which it looks (an id in the path, an           *)
(* Idempotency-Key, a JSON body), the service method it calls, and whether  *)
(* it wakes the reminder coordinator itself.  A service method is a         *)
(* mutation, which goes through JunbanService::commit, a control-plane      *)
(* write, which does not, or a read.  The analysis pages and the revision   *)
(* stream have modules of their own (Reads, LiveEvents).                    *)
(***************************************************************************)
EXTENDS Sequences

Handler(needs, method) ==
    [needs |-> needs, method |-> method, safe |-> FALSE, notifies |-> FALSE]

Creates(method) == Handler(<<"operation", "body">>, method)
Changes(method) == Handler(<<"path", "operation", "body">>, method)
Acts(method) == Handler(<<"path", "operation">>, method)
Reads(needs, method) == [Handler(needs, method) EXCEPT !.safe = TRUE]
Controls(method) == [Handler(<<"body">>, method) EXCEPT !.notifies = TRUE]

-----------------------------------------------------------------------------
(* Tasks *)

TaskRoutes ==
    [create_task |-> Creates("create_task"),
     get_task    |-> Reads(<<"path">>, "get_task"),
     patch_task  |-> Changes("patch_task")]

StatusRoutes ==
    [complete_task   |-> Acts("complete_task"),
     uncomplete_task |-> Acts("uncomplete_task"),
     cancel_task     |-> Acts("cancel_task"),
     reopen_task     |-> Acts("reopen_task"),
     delete_task     |-> Acts("delete_task")]

PlacingRoutes ==
    [move_task     |-> Changes("move_task"),
     reorder_tasks |-> Creates("reorder_tasks"),
     bulk_tasks    |-> Creates("bulk_tasks")]

TaskMethods ==
    {"create_task", "patch_task", "complete_task", "uncomplete_task"}
    \X {"commit"} \union {<<"get_task", "read">>}

PlacingMethods ==
    {"cancel_task", "reopen_task", "delete_task", "move_task", "reorder_tasks", "bulk_tasks"}
    \X {"commit"}

-----------------------------------------------------------------------------
(* The catalog: the handlers are the instances of three macros. *)

CatalogReads == [get_catalog |-> Reads(<<>>, "list_catalog")]

CatalogCreates ==
    [m \in {"create_project", "create_section", "create_tag", "create_template",
            "create_saved_filter", "apply_template"} |-> Creates(m)]

CatalogPatches ==
    [m \in {"patch_project", "patch_section", "patch_tag", "patch_template",
            "patch_saved_filter"} |-> Changes(m)]

CatalogDeletes ==
    [m \in {"delete_project", "delete_section", "delete_tag", "delete_template",
            "delete_saved_filter"} |-> Acts(m)]

ProjectMethods ==
    {"create_project", "patch_project", "delete_project",
     "create_section", "patch_section", "delete_section",
     "create_tag", "patch_tag", "delete_tag"} \X {"commit"}
    \union {<<"list_catalog", "read">>}

TemplateMethods ==
    {"create_template", "patch_template", "delete_template", "apply_template",
     "create_saved_filter", "patch_saved_filter", "delete_saved_filter"} \X {"commit"}

-----------------------------------------------------------------------------
(* Comments, relations, history, parsers *)

CommentRoutes ==
    [list_comments  |-> Reads(<<"path">>, "list_comments"),
     create_comment |-> Changes("create_comment"),
     patch_comment  |-> Changes("patch_comment"),
     delete_comment |-> Acts("delete_comment")]

\* removing checks the kind in the query after the key, adding checks it in the body
RelationRoutes ==
    [list_relations  |-> Reads(<<"path">>, "list_relations"),
     add_relation    |-> Changes("add_blocks_relation"),
     remove_relation |-> Handler(<<"path", "operation", "query">>, "remove_blocks_relation")]

HistoryRoutes ==
    [list_task_activity |-> Reads(<<"path", "query">>, "list_task_activity"),
     undo_operation     |-> Acts("undo")]

\* the parsers answer from the request alone
ParserRoutes ==
    [m \in {"parse_quick_entry", "parse_filter", "parse_text_import"}
       |-> Handler(<<"body">>, "pure")]

DetailMethods ==
    {"create_comment", "patch_comment", "delete_comment",
     "add_blocks_relation", "remove_blocks_relation"} \X {"commit"}
    \union {"list_comments", "list_relations", "list_task_activity"} \X {"read"}

-----------------------------------------------------------------------------
(* Reminders *)

ReminderRoutes ==
    [list_task_reminders |-> Reads(<<"path">>, "list_task_reminders"),
     reschedule_reminder |-> Changes("reschedule_reminder"),
     dismiss_reminder    |-> Acts("dismiss_reminder")]

LeaseRoutes ==
    [m \in {"acquire_reminder_lease", "renew_reminder_lease", "release_reminder_lease"}
       |-> Controls(m)]

DeliveryRoutes ==
    [m \in {"claim_due_reminders", "settle_reminder_delivered", "settle_reminder_failed",
            "mark_owner_lost_reminders"} |-> Controls(m)]

ScheduleMethods ==
    {"undo", "reschedule_reminder", "dismiss_reminder"} \X {"commit"}
    \union {<<"list_task_reminders", "read">>}

LeaseMethods ==
    {"acquire_reminder_lease", "renew_reminder_lease", "release_reminder_lease",
     "claim_due_reminders", "settle_reminder_delivered", "settle_reminder_failed",
     "mark_owner_lost_reminders"} \X {"control"}

-----------------------------------------------------------------------------
(* Time blocks and slots *)

BlockRoutes ==
    [create_time_block |-> Creates("create_time_block"),
     patch_time_block  |-> Changes("patch_time_block"),
     delete_time_block |-> Acts("delete_time_block"),
     move_time_block   |-> Changes("move_time_block")]

ReplanRoutes ==
    [resize_time_block          |-> Changes("resize_time_block"),
     preview_replan_time_blocks |-> Reads(<<>>, "preview_replan_past_blocks"),
     replan_time_blocks         |-> Creates("replan_past_blocks")]

SlotRoutes ==
    [create_time_slot |-> Creates("create_time_slot"),
     patch_time_slot  |-> Changes("patch_time_slot"),
     delete_time_slot |-> Acts("delete_time_slot")]

SlotTaskRoutes ==
    [append_time_slot_task   |-> Changes("append_slot_task"),
     replace_time_slot_tasks |-> Changes("reorder_slot_tasks"),
     remove_time_slot_task   |-> Acts("remove_slot_task")]

BlockMethods ==
    {"create_time_block", "patch_time_block", "delete_time_block", "create_time_slot",
     "patch_time_slot", "delete_time_slot"} \X {"commit"}

RangeMethods ==
    {"append_slot_task", "remove_slot_task", "reorder_slot_tasks", "move_time_block",
     "resize_time_block", "replan_past_blocks"} \X {"commit"}
    \union {<<"preview_replan_past_blocks", "read">>}

-----------------------------------------------------------------------------
\* the router: one table of handlers per group of routes
Routes ==
    {TaskRoutes, StatusRoutes, PlacingRoutes, CatalogReads, CatalogCreates, CatalogPatches,
     CatalogDeletes, CommentRoutes, RelationRoutes, HistoryRoutes, ParserRoutes,
     ReminderRoutes, LeaseRoutes, DeliveryRoutes, BlockRoutes, ReplanRoutes, SlotRoutes,
     SlotTaskRoutes}

Methods ==
    TaskMethods \union PlacingMethods \union ProjectMethods \union TemplateMethods
    \union DetailMethods \union ScheduleMethods \union LeaseMethods
    \union BlockMethods \union RangeMethods \union {<<"pure", "pure">>}

Classes == {"pure", "read", "commit", "control"}
ClassOf(method) == CHOOSE class \in Classes : <<method, class>> \in Methods

\* what the rest of the model tells apart of a handler
Shape(h) ==
    [needs |-> h.needs, safe |-> h.safe, notifies |-> h.notifies, class |-> ClassOf(h.method)]

Shapes == UNION {{Shape(group[name]) : name \in DOMAIN group} : group \in Routes}
=============================================================================
