-------------------------------- MODULE Operations -----------------------------
(***************************************************************************)
(* client/contree_client/operations.py: what each operation of the API     *)
(* sends for its arguments "a" and what it reads in a response "r".  An    *)
(* argument that was left out is Null or Unset, as its default says.       *)
(***************************************************************************)
EXTENDS Models

Digits(n) == [digits |-> n]
Bytes(b) == [bytes |-> b]
Nothing == [p \in {} |-> Null]
NoBody == Null

\* str(), format_time_param() and the values of a str-enum.
Str(v) ==
    CASE Is("number", v) -> Digits(v.number)
      [] Is("datetime", v) -> isoformat(v)
      [] Is("status", v) -> Text(v.status)
      [] OTHER -> v

quote_path(v) == [quoted |-> Str(v)]

Path(template, a, params) ==
    [template |-> template, params |-> [p \in params |-> quote_path(a[p])]]
Fixed(template) == [template |-> template, params |-> Nothing]

\* Seeded fault: "if limit:" for "if limit is not None:".
AskedTruthy(a, names) ==
    [p \in {n \in names : ~ Is("null", a[n]) /\ a[n] # Number(0)} |-> Str(a[p])]

\* Query parameters: unless None, always, and the flags that are true.
Asked(a, names) == [p \in {n \in names : ~ Is("null", a[n])} |-> Str(a[p])]
Needed(a, names) == [p \in names |-> Str(a[p])]
Flags(a, names) == [p \in {n \in names : a[n] = Number(1)} |-> Text("1")]

LastEventId(a) == Asked(a, {"last_event_id"})

JsonDict(a, required, optional) ==
    Object([p \in required \cup {n \in optional : ~ Is("unset", a[n])} |-> a[p]])
JsonModel(C, a) == to_dict(Instance(C.name, [p \in Names(C) |-> a[p]]))

RequestSpec(method, idempotent, path, query, headers, body) ==
    [method |-> method, idempotent |-> idempotent, path |-> path, query |-> query,
     headers |-> headers, body |-> body]
Request(method, idempotent, path, query) ==
    RequestSpec(method, idempotent, path, query, Nothing, NoBody)
Sending(method, idempotent, path, body) ==
    RequestSpec(method, idempotent, path, Nothing, Nothing, body)
Streaming(method, idempotent, path, query, headers) ==
    RequestSpec(method, idempotent, path, query, headers, NoBody)

-----------------------------------------------------------------------------

Successful(r) == r.status \in 200 .. 299

OnSuccess(r, value) == IF Successful(r) THEN value ELSE Raise("ValueError")
OnFound(r, value) == IF r.status = 302 THEN value ELSE Raise("ValueError")

\* json_object and json_array over a body that may not be JSON.
json_object(r) ==
    IF Is("bytes", r.body) THEN Raise("ValueError")
    ELSE IF Is("object", r.body) THEN r.body ELSE Raise("TypeError")
json_array(r) ==
    IF Is("bytes", r.body) THEN Raise("ValueError")
    ELSE IF Is("array", r.body) THEN r.body ELSE Raise("TypeError")

ReadModel(C, r) ==
    LET data == json_object(r) IN IF Is("raises", data) THEN data ELSE from_dict(C, data)
ReadModels(C, r) ==
    LET data == json_array(r) IN IF Is("raises", data) THEN data ELSE FromList(C, data)
ReadUuid(r) ==
    LET data == json_object(r) IN
    IF Is("raises", data) THEN data
    ELSE IF "uuid" \in DOMAIN data.object THEN Str(data.object["uuid"]) ELSE Raise("KeyError")
ReadSpid(r) ==
    LET data == json_object(r) IN
    IF Is("raises", data) THEN data
    ELSE IF "spid" \notin DOMAIN data.object THEN Raise("KeyError")
    ELSE IF Is("number", data.object["spid"]) THEN data.object["spid"]
    ELSE Raise(IF Is("text", data.object["spid"]) THEN "ValueError" ELSE "TypeError")

\* The last segment of the Location, with or without a slash behind it.
LocationTail(r) ==
    IF Is("unset", r.location) THEN Raise("KeyError") ELSE Text(r.location.tail)

Existence(r) ==
    IF Successful(r) THEN Number(1)
    ELSE IF r.status = 404 THEN Number(0) ELSE Raise("ValueError")

-----------------------------------------------------------------------------

build_list_network_policies(a) ==
    Request("GET", TRUE, Fixed("/network/policies"),
            Asked(a, {"search", "limit", "offset"}))
parse_list_network_policies(r) == OnSuccess(r, ReadModel(NetworkPolicyListResponse, r))

build_create_network_policy(a) ==
    Sending("POST", FALSE, Fixed("/network/policies"),
            JsonModel(NetworkPolicyCreateRequest, a))
parse_create_network_policy(r) == OnSuccess(r, ReadModel(NetworkPolicy, r))

build_get_network_policy(a) ==
    Request("GET", TRUE, Path("/network/policies/{uuid}", a, {"uuid"}), Nothing)
parse_get_network_policy(r) == OnSuccess(r, ReadModel(NetworkPolicy, r))

build_delete_network_policy(a) ==
    Request("DELETE", TRUE, Path("/network/policies/{uuid}", a, {"uuid"}), Nothing)
parse_delete_network_policy(r) == OnSuccess(r, Null)

build_list_network_policy_tags(a) ==
    Request("GET", TRUE, Fixed("/network/tags"), Asked(a, {"limit", "offset"}))
parse_list_network_policy_tags(r) == OnSuccess(r, ReadModel(ListNetworkPolicyTagsResponse, r))

build_get_network_policy_tag(a) ==
    Request("GET", TRUE, Path("/network/tags/{tag}", a, {"tag"}), Nothing)
parse_get_network_policy_tag(r) == OnFound(r, ReadModel(NetworkPolicyTag, r))

build_set_network_policy_tag(a) ==
    Sending("PUT", TRUE, Path("/network/tags/{tag}", a, {"tag"}),
            JsonDict(a, {"uuid"}, {}))
parse_set_network_policy_tag(r) == OnSuccess(r, ReadModel(NetworkPolicyTag, r))

build_delete_network_policy_tag(a) ==
    Request("DELETE", TRUE, Path("/network/tags/{tag}", a, {"tag"}), Nothing)
parse_delete_network_policy_tag(r) == OnSuccess(r, Null)

build_list_images(a) ==
    Request("GET", TRUE, Fixed("/images"),
            Asked(a, {"limit", "offset", "tag", "uuid", "since", "until"}) @@ Flags(a, {"tagged"}))
parse_list_images(r) == OnSuccess(r, ReadModel(ImageListResponse, r))

build_delete_image_tag(a) ==
    Request("DELETE", TRUE, Path("/images/{image_uuid}/tag", a, {"image_uuid"}),
            Asked(a, {"tag"}))
parse_delete_image_tag(r) == OnSuccess(r, Null)

build_update_image_tag(a) ==
    Sending("PATCH", FALSE, Path("/images/{image_uuid}/tag", a, {"image_uuid"}),
            JsonDict(a, {"tag"}, {}))
parse_update_image_tag(r) == OnSuccess(r, ReadModel(Image, r))

build_import_image(a) ==
    Sending("POST", FALSE, Fixed("/images/import"), JsonModel(ImageImportRequest, a))
parse_import_image(r) == OnSuccess(r, ReadUuid(r))

build_list_files(a) ==
    Request("GET", TRUE, Fixed("/files"),
            Asked(a, {"limit", "offset", "since", "until"}))
parse_list_files(r) == OnSuccess(r, ReadModel(FilesListResponse, r))

build_upload_file(a) == Sending("POST", FALSE, Fixed("/files"), a.content)
parse_upload_file(r) == OnSuccess(r, ReadModel(FileResponse, r))

build_get_file(a) ==
    Request("GET", TRUE, Path("/files/{sha256}", a, {"sha256"}), Nothing)
parse_get_file(r) == OnSuccess(r, ReadModel(File, r))

build_check_file_exists(a) ==
    Request("HEAD", TRUE, Path("/files/{sha256}", a, {"sha256"}), Nothing)
parse_check_file_exists(r) == Existence(r)

build_spawn_instance(a) ==
    Sending("POST", FALSE, Fixed("/instances"), JsonModel(InstanceSpawnRequest, a))
parse_spawn_instance(r) == OnSuccess(r, ReadModel(InstanceSpawnResponse, r))

build_list_operations(a) ==
    Request("GET", TRUE, Fixed("/operations"),
            Asked(a, {"limit", "offset", "status", "kind", "since", "until"}))
parse_list_operations(r) == OnSuccess(r, ReadModels(OperationSummary, r))

build_get_operation_status(a) ==
    Request("GET", TRUE, Path("/operations/{operation_id}", a, {"operation_id"}),
            Flags(a, {"inflight"}))
parse_get_operation_status(r) == OnSuccess(r, ReadModel(OperationResponse, r))

build_cancel_operation(a) ==
    Request("DELETE", TRUE, Path("/operations/{operation_id}", a, {"operation_id"}),
            Nothing)
parse_cancel_operation(r) == OnSuccess(r, Null)

build_iter_operation_events(a) ==
    Streaming("GET", TRUE,
              Path("/operations/{operation_id}/events", a, {"operation_id"}),
              Asked(a, {"spid", "since"}) @@ Flags(a, {"follow"}), LastEventId(a))
build_operation_subprocess_create(a) ==
    Sending("POST", FALSE,
            Path("/operations/{operation_id}/subprocesses", a, {"operation_id"}),
            JsonModel(ExecSpec, a))
parse_operation_subprocess_create(r) == OnSuccess(r, ReadSpid(r))

build_operation_subprocess(a) ==
    Request("GET", TRUE,
            Path("/operations/{operation_id}/subprocesses/{spid}", a, {"operation_id", "spid"}),
            Nothing)
parse_operation_subprocess(r) == OnSuccess(r, ReadModel(InstanceResult, r))

build_operation_subprocess_kill(a) ==
    Request("DELETE", TRUE,
            Path("/operations/{operation_id}/subprocesses/{spid}", a, {"operation_id", "spid"}),
            Asked(a, {"signal"}))
parse_operation_subprocess_kill(r) == OnSuccess(r, Null)

build_operation_subprocess_stdin(a) ==
    Sending("POST", FALSE,
            Path("/operations/{operation_id}/subprocesses/{spid}/stdin", a, {"operation_id", "spid"}),
            JsonModel(ClosableStreamRepr, a))
parse_operation_subprocess_stdin(r) == OnSuccess(r, Null)

build_apply_instance_file(a) ==
    Sending("POST", FALSE,
            Path("/operations/{operation_uuid}/files", a, {"operation_uuid"}),
            JsonDict(a, {"file_uuid", "path"}, {"unpack", "replace", "merge"}))
parse_apply_instance_file(r) == OnSuccess(r, Null)

build_inspect_instance_download(a) ==
    Request("GET", TRUE,
            Path("/operations/{operation_uuid}/inspect/download", a, {"operation_uuid"}),
            Needed(a, {"path"}))
parse_inspect_instance_download(r) == OnSuccess(r, r.body)

build_check_instance_file(a) ==
    Request("HEAD", TRUE,
            Path("/operations/{operation_uuid}/inspect/download", a, {"operation_uuid"}),
            Needed(a, {"path"}))
parse_check_instance_file(r) == Existence(r)

build_inspect_instance_list(a) ==
    Request("GET", TRUE,
            Path("/operations/{operation_uuid}/inspect/list", a, {"operation_uuid"}),
            Needed(a, {"path"}))
parse_inspect_instance_list(r) == OnSuccess(r, ReadModel(DirectoryList, r))

build_inspect_instance_archive(a) ==
    Request("GET", TRUE,
            Path("/operations/{operation_uuid}/inspect/archive", a, {"operation_uuid"}),
            Needed(a, {"path"}))
build_check_instance_archive(a) ==
    Request("HEAD", TRUE,
            Path("/operations/{operation_uuid}/inspect/archive", a, {"operation_uuid"}),
            Needed(a, {"path"}))
parse_check_instance_archive(r) == Existence(r)

build_inspect_find_image_by_tag(a) ==
    Request("GET", TRUE, Fixed("/inspect/"), Needed(a, {"tag"}))
parse_inspect_find_image_by_tag(r) == OnFound(r, LocationTail(r))

build_inspect_image(a) ==
    Request("GET", TRUE, Path("/inspect/{image_uuid}/", a, {"image_uuid"}), Nothing)
parse_inspect_image(r) == OnSuccess(r, ReadModel(Image, r))

build_inspect_image_download(a) ==
    Request("GET", TRUE, Path("/inspect/{image_uuid}/download", a, {"image_uuid"}),
            Needed(a, {"path"}))
parse_inspect_image_download(r) == OnSuccess(r, r.body)

build_check_image_file(a) ==
    Request("HEAD", TRUE, Path("/inspect/{image_uuid}/download", a, {"image_uuid"}),
            Needed(a, {"path"}))
parse_check_image_file(r) == Existence(r)

build_inspect_image_archive(a) ==
    Request("GET", TRUE, Path("/inspect/{image_uuid}/archive", a, {"image_uuid"}),
            Needed(a, {"path"}))
build_check_image_archive(a) ==
    Request("HEAD", TRUE, Path("/inspect/{image_uuid}/archive", a, {"image_uuid"}),
            Needed(a, {"path"}))
parse_check_image_archive(r) == Existence(r)

build_inspect_image_list(a) ==
    Request("GET", TRUE, Path("/inspect/{image_uuid}/list", a, {"image_uuid"}),
            Needed(a, {"path"}))
parse_inspect_image_list(r) == OnSuccess(r, ReadModel(DirectoryList, r))

build_inspect_instance_grep(a) ==
    Request("GET", TRUE,
            Path("/operations/{operation_uuid}/inspect/grep", a, {"operation_uuid"}),
            Needed(a, {"pattern"}) @@ Asked(a, {"path", "glob", "max_count", "max_total", "case", "before", "after"}))
parse_inspect_instance_grep(r) == OnSuccess(r, ReadModel(GrepResult, r))

build_inspect_image_grep(a) ==
    Request("GET", TRUE, Path("/inspect/{image_uuid}/grep", a, {"image_uuid"}),
            Needed(a, {"pattern"}) @@ Asked(a, {"path", "glob", "max_count", "max_total", "case", "before", "after"}))
parse_inspect_image_grep(r) == OnSuccess(r, ReadModel(GrepResult, r))

build_whoami(a) == Request("GET", TRUE, Fixed("/whoami"), Nothing)
parse_whoami(r) == OnSuccess(r, ReadModel(WhoAmIResponse, r))

==============================================================================
