---------------------------------- MODULE Models --------------------------------
(***************************************************************************)
(* The model classes of client/contree_client/models.py: the fields in the *)
(* order of the class, which are required, which may be null, and what     *)
(* parse_fields converts.                                                  *)
(***************************************************************************)
EXTENDS Wire

OperationEventType ==
    {"init", "spawn", "stdin", "stdout", "stderr", "exit", "truncated", "size_cap",
     "network", "shutdown", "inspect", "file_upload", "completion"}

FileItem == Model("FileItem",
    Req(<<"size", "path", "owner", "group", "uid", "gid", "mode",
          "mtime", "nlink", "is_dir", "is_regular", "is_symlink", "is_socket",
          "is_fifo", "symlink_to">>))

DirectoryList == ParsedModel("DirectoryList",
    Req(<<"path">>) \o ReqAs("files", Many(FileItem)))

GrepSubmatch == Model("GrepSubmatch",
    Req(<<"text", "start", "end">>))

GrepMatch == ParsedModel("GrepMatch",
    Req(<<"path", "line_number", "absolute_offset", "line_text",
          "line_bytes">>)
    \o ReqAs("submatches", Many(GrepSubmatch))
    \o ReqAs("type", OneOf({"match", "context"})))

GrepResult == ParsedModel("GrepResult",
    Req(<<"path", "patterns">>) \o ReqAs("matches", Many(GrepMatch))
    \o Req(<<"truncated">>))

ImageImportRegistryCredentials == Model("ImageImportRegistryCredentials",
    Opt(<<"username", "password">>))

ImageImportRegistry == ParsedModel("ImageImportRegistry",
    Req(<<"url">>)
    \o OptAs("credentials", One(ImageImportRegistryCredentials)))

ImageImportRequest == ParsedModel("ImageImportRequest",
    ReqAs("registry", One(ImageImportRegistry)) \o OptNull(<<"tag">>)
    \o Opt(<<"timeout">>))

Image == Model("Image",
    Opt(<<"uuid">>) \o OptNull(<<"tag">>) \o Opt(<<"created_at">>)
    \o OptNull(<<"operation_uuid">>))

ImageListResponse == ParsedModel("ImageListResponse",
    OptAs("images", Many(Image)))

ImageImportMetadataRegistryCredentials == Model("ImageImportMetadataRegistryCredentials",
    Opt(<<"username", "password">>))

ImageImportMetadataRegistry == ParsedModel("ImageImportMetadataRegistry",
    Opt(<<"url">>)
    \o OptAs("credentials", One(ImageImportMetadataRegistryCredentials)))

ImageImportMetadata == ParsedModel("ImageImportMetadata",
    OptAs("registry", One(ImageImportMetadataRegistry)) \o OptNull(<<"tag">>)
    \o Opt(<<"timeout">>))

StreamRepr == Model("StreamRepr",
    Req(<<"value">>) \o ReqAs("encoding", OneOf({"ascii", "base64"}))
    \o Opt(<<"truncated">>))

ClosableStreamRepr == Model("ClosableStreamRepr",
    Req(<<"value">>) \o OptAs("encoding", OneOf({"ascii", "base64"}))
    \o Opt(<<"close">>))

InstanceResourcesLimits == Model("InstanceResourcesLimits",
    Opt(<<"cpu", "memory_mib", "max_layer_bytes">>))

ProcessResourcesLimits == Model("ProcessResourcesLimits",
    OptNull(<<"cpu", "memory_mib">>))

InstanceNetworking == Model("InstanceNetworking",
    Opt(<<"enabled", "policy">>))

NetworkPolicyCIDRRule == Model("NetworkPolicyCIDRRule",
    Req(<<"cidr">>) \o ReqAs("proto", OneOf({"tcp", "udp"}))
    \o Opt(<<"ports">>))

NetworkPolicyCreateRequest == ParsedModel("NetworkPolicyCreateRequest",
    ReqAs("cidrs", Many(NetworkPolicyCIDRRule)))

InstanceNetworkingResponse == ParsedModel("InstanceNetworkingResponse",
    Opt(<<"enabled", "policy">>)
    \o OptNullAs("effective_policy", One(NetworkPolicyCreateRequest)))

NetworkPolicyTag == Model("NetworkPolicyTag",
    Req(<<"tag", "uuid">>))

NetworkPolicy == ParsedModel("NetworkPolicy",
    Req(<<"uuid">>) \o ReqAs("cidrs", Many(NetworkPolicyCIDRRule)))

NetworkPolicyListItemSummary == Model("NetworkPolicyListItemSummary",
    Req(<<"cidrs">>))

NetworkPolicyListItem == ParsedModel("NetworkPolicyListItem",
    Req(<<"uuid">>) \o ReqAs("created_at", Moment) \o Req(<<"tags">>)
    \o ReqAs("summary", One(NetworkPolicyListItemSummary)))

NetworkPolicyListResponse == ParsedModel("NetworkPolicyListResponse",
    ReqAs("policies", Many(NetworkPolicyListItem)))

ExecSpec == ParsedModel("ExecSpec",
    Req(<<"command">>)
    \o OptAs("resources_limits", One(ProcessResourcesLimits))
    \o Opt(<<"args", "shell">>) \o OptNull(<<"env">>)
    \o Opt(<<"cwd", "uid", "gid">>) \o OptAs("stdin", One(ClosableStreamRepr))
    \o Opt(<<"truncate_output_at">>))

FileSpec == Model("FileSpec",
    Opt(<<"uuid", "uid", "gid">>) \o OptAs("mode", OctalMode))

InstanceSpawnRequest == ParsedModel("InstanceSpawnRequest",
    Req(<<"command", "image">>)
    \o Opt(<<"disposable", "hostname", "args", "shell">>)
    \o OptNull(<<"env">>)
    \o Opt(<<"preserve_env", "preserve_cwd", "cwd", "uid", "gid">>)
    \o OptAs("resources_limits", One(InstanceResourcesLimits))
    \o OptAs("networking", One(InstanceNetworking))
    \o OptAs("stdin", One(ClosableStreamRepr))
    \o Opt(<<"timeout", "truncate_output_at">>)
    \o OptAs("files", Named(FileSpec)))

InstanceResultResources == Model("InstanceResultResources",
    Opt(<<"block_input", "block_output", "cost", "elapsed_time",
          "involuntary_switches", "max_rss", "monotonic_time", "page_faults",
          "page_faults_io", "shared_memory", "signals", "swaps",
          "system_cpu_time", "unshared_memory", "user_cpu_time",
          "voluntary_switches">>))

InstanceResultState == Model("InstanceResultState",
    Opt(<<"continued", "core_dump", "exit_code", "pid", "signal",
          "stopped", "timed_out", "oom_killed">>))

InstanceResult == ParsedModel("InstanceResult",
    OptAs("resources", One(InstanceResultResources))
    \o OptAs("state", One(InstanceResultState))
    \o OptAs("stdout", One(StreamRepr)) \o OptAs("stderr", One(StreamRepr)))

InstanceSpawnResponse == ParsedModel("InstanceSpawnResponse",
    Opt(<<"uuid", "command", "image", "hostname", "args", "shell">>)
    \o OptNull(<<"env">>) \o Opt(<<"preserve_env", "cwd", "uid", "gid">>)
    \o OptAs("resources_limits", One(InstanceResourcesLimits))
    \o OptAs("networking", One(InstanceNetworkingResponse))
    \o OptAs("stdin", One(ClosableStreamRepr))
    \o Opt(<<"timeout", "truncate_output_at", "disposable">>)
    \o OptAs("files", Named(FileSpec))
    \o OptNullAs("result", One(InstanceResult)))

OperationSummary == ParsedModel("OperationSummary",
    Opt(<<"uuid">>) \o OptAs("kind", OneOf({"image_import", "instance"}))
    \o OptAs("status", StatusWord) \o OptNull(<<"error">>)
    \o Opt(<<"created_at">>)
    \o OptNull(<<"duration", "image_size", "consumed_cpu",
             "consumed_memory", "image_uuid", "result_image_uuid">>))

OperationInstanceMetadata == ParsedModel("OperationInstanceMetadata",
    Req(<<"command", "image">>)
    \o Opt(<<"disposable", "hostname", "args", "shell">>)
    \o OptNull(<<"env">>)
    \o Opt(<<"preserve_env", "preserve_cwd", "cwd", "uid", "gid">>)
    \o OptAs("resources_limits", One(InstanceResourcesLimits))
    \o OptAs("networking", One(InstanceNetworkingResponse))
    \o OptAs("stdin", One(ClosableStreamRepr))
    \o Opt(<<"timeout", "truncate_output_at">>)
    \o OptAs("files", Named(FileSpec)) \o OptAs("result", One(InstanceResult)))

OperationResult == Model("OperationResult",
    OptNull(<<"image", "tag">>))

OperationResponse == ParsedModel("OperationResponse",
    Opt(<<"uuid">>) \o OptAs("kind", OneOf({"image_import", "instance"}))
    \o OptAs("status", StatusWord) \o OptNull(<<"error">>)
    \o Opt(<<"created_at">>)
    \o OptNull(<<"duration", "image_size", "consumed_cpu",
             "consumed_memory", "image_uuid", "result_image_uuid">>)
    \o OptAs("metadata", ByKind(OperationInstanceMetadata,
           ImageImportMetadata))
    \o OptAs("result", One(OperationResult)))

Error == Model("Error",
    Req(<<"error">>) \o Opt(<<"status", "traceback">>))

FileResponse == Model("FileResponse",
    Req(<<"uuid", "sha256", "size">>))

File == ParsedModel("File",
    Req(<<"uuid", "sha256", "size">>) \o ReqAs("created_at", Moment)
    \o ReqAs("updated_at", Moment))

FilesListResponse == ParsedModel("FilesListResponse",
    OptAs("files", Many(File)))

WhoAmIResponse == Model("WhoAmIResponse",
    Req(<<"token_uuid">>) \o ReqNull(<<"token_expiration">>)
    \o Req(<<"permissions", "operations_stat">>) \o Opt(<<"limits">>))

EventInspectParametersOptions == Model("EventInspectParametersOptions",
    ReqNull(<<"patterns", "globs">>)
    \o Req(<<"case", "max_count", "max_total", "before", "after">>))

EventInspectParameters == ParsedModel("EventInspectParameters",
    Opt(<<"path", "file_uuid", "unpack", "replace", "merge", "handle",
          "offset", "size">>)
    \o OptAs("options", One(EventInspectParametersOptions)))

EventDataInspect == ParsedModel("EventDataInspect",
    Req(<<"request_id">>)
    \o ReqAs("method", OneOf({"stat", "list", "open", "archive", "grep",
           "read", "close", "upload", "write", "finish"}))
    \o ReqAs("phase", OneOf({"started", "completed"}))
    \o OptAs("params", One(EventInspectParameters))
    \o OptAs("status", OneOf({"success", "error", "cancelled",
           "timeout"}))
    \o OptNull(<<"error">>) \o Opt(<<"handle", "bytes", "eof">>))

EventDataFileUpload == Model("EventDataFileUpload",
    Req(<<"handle", "file_uuid", "path", "unpack", "replace", "merge",
          "bytes">>)
    \o ReqAs("status", OneOf({"success", "error", "cancelled",
           "timeout"}))
    \o ReqNull(<<"error">>))

EventDataInit == ParsedModel("EventDataInit",
    ReqAs("started_at", Moment)
    \o Req(<<"runtime_path", "verbose", "init_pid">>)
    \o Opt(<<"hostname", "kernel", "machine", "boot_id">>))

EventDataSpawn == ParsedModel("EventDataSpawn",
    Req(<<"pid", "command", "args", "shell", "cwd", "uid", "gid",
          "timeout", "truncate_at">>)
    \o OptAs("resources_limits", One(ProcessResourcesLimits))
    \o Opt(<<"cpu_affinity", "env">>))

EventDataStream == Model("EventDataStream",
    Req(<<"value">>) \o ReqAs("encoding", OneOf({"ascii", "base64"}))
    \o Opt(<<"truncated">>))

EventResources == Model("EventResources",
    Req(<<"user_time_us", "sys_time_us", "max_rss_kb", "shared_memory",
          "unshared_memory", "swaps", "minor_faults", "major_faults",
          "voluntary_ctx_switches", "involuntary_ctx_switches",
          "block_input_ops", "block_output_ops", "ipc_msgs_sent",
          "ipc_msgs_received", "signals_received">>))

EventDataExit == ParsedModel("EventDataExit",
    Req(<<"pid", "code", "signal", "timed_out", "duration_ms">>)
    \o ReqAs("resources", One(EventResources))
    \o Opt(<<"oom_killed", "core_dump">>))

EventDataTruncated == Model("EventDataTruncated",
    ReqAs("stream", OneOf({"stdin", "stdout", "stderr"}))
    \o Req(<<"bytes_emitted", "bytes_dropped">>))

EventDataSizeCap == Model("EventDataSizeCap",
    Req(<<"limit_bytes", "file_size">>))

NetworkInterface == Model("NetworkInterface",
    Req(<<"name", "rx_bytes", "rx_packets", "rx_errs", "rx_drop",
          "tx_bytes", "tx_packets", "tx_errs", "tx_drop">>))

EventDataNetworkConfigured == Model("EventDataNetworkConfigured",
    Opt(<<"ip4", "ip4_gw", "ip6", "ip6_gw", "gw_mac", "nameserver">>))

EventDataNetwork == ParsedModel("EventDataNetwork",
    ReqAs("interfaces", Many(NetworkInterface))
    \o OptAs("configured", One(EventDataNetworkConfigured))
    \o Opt(<<"error">>))

EventDataShutdown == ParsedModel("EventDataShutdown",
    ReqAs("stopped_at", Moment)
    \o ReqAs("reason", OneOf({"job_complete", "timeout", "spawn_failed",
           "signal"})))

EventDataCompletion == ParsedModel("EventDataCompletion",
    ReqAs("status", StatusWord) \o Req(<<"duration_ms">>)
    \o OptNull(<<"result_image_uuid", "error">>)
    \o Opt(<<"image_size_bytes">>)
    \o OptNull(<<"consumed_cpu", "consumed_memory">>))

ListNetworkPolicyTagsResponse == ParsedModel("ListNetworkPolicyTagsResponse",
    ReqAs("tags", Many(NetworkPolicyTag)))

EVENT_DATA_PARSERS ==
    [init |-> EventDataInit, spawn |-> EventDataSpawn,
     stdin |-> EventDataStream, stdout |-> EventDataStream, stderr |-> EventDataStream,
     exit |-> EventDataExit, truncated |-> EventDataTruncated, size_cap |-> EventDataSizeCap,
     network |-> EventDataNetwork, shutdown |-> EventDataShutdown,
     inspect |-> EventDataInspect, file_upload |-> EventDataFileUpload,
     completion |-> EventDataCompletion]

OperationEvent == ParsedModel("OperationEvent",
    Req(<<"id">>) \o ReqAs("ts", Moment)
    \o ReqAs("type", OneOf(OperationEventType))
    \o ReqAs("data", ByType(EVENT_DATA_PARSERS)) \o Opt(<<"spid">>))

==============================================================================
