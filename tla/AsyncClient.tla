------------------------------- MODULE AsyncClient -----------------------------
(***************************************************************************)
(* The operations of ContreeAsyncClient (client/contree_client/base.py):   *)
(* the signatures of the synchronous client; downloads and archives are    *)
(* closed by aclosing() where the synchronous ones are left to the         *)
(* collector, which is why streams have names of their own.  Each action   *)
(* is named after its method, behind async_.                               *)
(***************************************************************************)
EXTENDS ApiCall

async_resolve_image ==
    \/ Resolved("resolve_image")
    \/ Buffered("resolve_image", Takes({"tag"}, {}, {}, {}),
                build_inspect_find_image_by_tag, parse_inspect_find_image_by_tag, Located)

async_list_network_policies ==
    Buffered("list_network_policies", Takes({}, {"search", "limit", "offset"}, {}, {}),
             build_list_network_policies, parse_list_network_policies,
             Gives(NetworkPolicyListResponse))

async_create_network_policy ==
    Buffered("create_network_policy", Takes({"cidrs"}, {}, {}, {}),
             build_create_network_policy, parse_create_network_policy,
             Gives(NetworkPolicy))

async_get_network_policy ==
    Buffered("get_network_policy", Takes({"uuid"}, {}, {}, {}),
             build_get_network_policy, parse_get_network_policy, Gives(NetworkPolicy))

async_delete_network_policy ==
    Buffered("delete_network_policy", Takes({"uuid"}, {}, {}, {}),
             build_delete_network_policy, parse_delete_network_policy, NoAnswer)

async_list_network_policy_tags ==
    Buffered("list_network_policy_tags", Takes({}, {"limit", "offset"}, {}, {}),
             build_list_network_policy_tags, parse_list_network_policy_tags,
             Gives(ListNetworkPolicyTagsResponse))

async_get_network_policy_tag ==
    Buffered("get_network_policy_tag", Takes({"tag"}, {}, {}, {}),
             build_get_network_policy_tag, parse_get_network_policy_tag,
             Found(NetworkPolicyTag))

async_set_network_policy_tag ==
    Buffered("set_network_policy_tag", Takes({"tag", "uuid"}, {}, {}, {}),
             build_set_network_policy_tag, parse_set_network_policy_tag,
             Gives(NetworkPolicyTag))

async_delete_network_policy_tag ==
    Buffered("delete_network_policy_tag", Takes({"tag"}, {}, {}, {}),
             build_delete_network_policy_tag, parse_delete_network_policy_tag, NoAnswer)

async_list_images ==
    Buffered("list_images",
             Takes({}, {"limit", "offset", "tag", "uuid", "since", "until"}, {},
                    {"tagged"}),
             build_list_images, parse_list_images, Gives(ImageListResponse))

async_iter_images ==
    LET Parse(r) == Items(parse_list_images(r), "images") IN
    Paged("iter_images", {"tag", "uuid", "since", "until"}, {"tagged"},
          build_list_images, Parse, Page(ImageListResponse, "images"))

async_delete_image_tag ==
    Buffered("delete_image_tag", Takes({"image_uuid"}, {"tag"}, {}, {}),
             build_delete_image_tag, parse_delete_image_tag, NoAnswer)

async_update_image_tag ==
    Buffered("update_image_tag", Takes({"image_uuid", "tag"}, {}, {}, {}),
             build_update_image_tag, parse_update_image_tag, Gives(Image))

async_import_image ==
    Buffered("import_image", Takes({"registry"}, {}, {"tag", "timeout"}, {}),
             build_import_image, parse_import_image, Member("uuid", Text("u")))

async_list_files ==
    Buffered("list_files", Takes({}, {"limit", "offset", "since", "until"}, {}, {}),
             build_list_files, parse_list_files, Gives(FilesListResponse))

async_iter_files ==
    LET Parse(r) == Items(parse_list_files(r), "files") IN
    Paged("iter_files", {"since", "until"}, {}, build_list_files, Parse,
          Page(FilesListResponse, "files"))

async_upload_file ==
    Buffered("upload_file", Takes({"content"}, {}, {}, {}), build_upload_file,
             parse_upload_file, Gives(FileResponse))

async_get_file ==
    Buffered("get_file", Takes({"sha256"}, {}, {}, {}), build_get_file, parse_get_file,
             Gives(File))

async_check_file_exists ==
    Checked("check_file_exists", Takes({"sha256"}, {}, {}, {}), build_check_file_exists,
            parse_check_file_exists)

async_spawn_instance ==
    Buffered("spawn_instance",
             Takes({"command", "image"}, {}, {"disposable", "hostname", "args",
                    "shell", "env", "preserve_env", "preserve_cwd", "cwd", "uid",
                    "gid", "resources_limits", "networking", "stdin", "timeout",
                    "truncate_output_at", "files"}, {}),
             build_spawn_instance, parse_spawn_instance, Gives(InstanceSpawnResponse))

async_list_operations ==
    Buffered("list_operations",
             Takes({}, {"limit", "offset", "status", "kind", "since", "until"}, {}, {}),
             build_list_operations, parse_list_operations, ListOf(OperationSummary))

async_iter_operations ==
    Paged("iter_operations", {"status", "kind", "since", "until"}, {},
          build_list_operations, parse_list_operations, ListOf(OperationSummary))

async_get_operation_status ==
    Buffered("get_operation_status", Takes({"operation_id"}, {}, {}, {"inflight"}),
             build_get_operation_status, parse_get_operation_status,
             Gives(OperationResponse))

async_cancel_operation ==
    Buffered("cancel_operation", Takes({"operation_id"}, {}, {}, {}),
             build_cancel_operation, parse_cancel_operation, NoAnswer)

async_iter_operation_events ==
    Events("async_iter_operation_events",
           Takes({"operation_id"}, {"spid", "since", "last_event_id"}, {}, {"follow"}),
           build_iter_operation_events, TRUE)

async_operation_subprocess_create ==
    Buffered("operation_subprocess_create",
             Takes({"operation_id", "command"}, {}, {"resources_limits", "args",
                    "shell", "env", "cwd", "uid", "gid", "stdin",
                    "truncate_output_at"}, {}),
             build_operation_subprocess_create, parse_operation_subprocess_create,
             Member("spid", Number(7)))

async_operation_subprocess ==
    Buffered("operation_subprocess", Takes({"operation_id", "spid"}, {}, {}, {}),
             build_operation_subprocess, parse_operation_subprocess,
             Gives(InstanceResult))

async_operation_subprocess_kill ==
    Buffered("operation_subprocess_kill",
             Takes({"operation_id", "spid"}, {"signal"}, {}, {}),
             build_operation_subprocess_kill, parse_operation_subprocess_kill, NoAnswer)

async_operation_subprocess_stdin ==
    Buffered("operation_subprocess_stdin",
             Takes({"operation_id", "spid", "value"}, {}, {"encoding", "close"}, {}),
             build_operation_subprocess_stdin, parse_operation_subprocess_stdin,
             NoAnswer)

async_apply_instance_file ==
    Buffered("apply_instance_file",
             Takes({"operation_uuid", "file_uuid", "path"}, {}, {"unpack", "replace",
                    "merge"}, {}),
             build_apply_instance_file, parse_apply_instance_file, NoAnswer)

async_inspect_instance_download ==
    Buffered("inspect_instance_download", Takes({"operation_uuid", "path"}, {}, {}, {}),
             build_inspect_instance_download, parse_inspect_instance_download,
             SomeBytes)

async_inspect_instance_download_stream ==
    Streamed("async_inspect_instance_download_stream",
             Takes({"operation_uuid", "path"}, {}, {}, {}),
             build_inspect_instance_download, TRUE)

async_check_instance_file ==
    Checked("check_instance_file", Takes({"operation_uuid", "path"}, {}, {}, {}),
            build_check_instance_file, parse_check_instance_file)

async_inspect_instance_list ==
    Buffered("inspect_instance_list", Takes({"operation_uuid", "path"}, {}, {}, {}),
             build_inspect_instance_list, parse_inspect_instance_list,
             Gives(DirectoryList))

\* Seeded fault: the archive is read without aclosing.
async_inspect_instance_archive_unclosed ==
    Streamed("async_inspect_instance_archive",
             Takes({"operation_uuid", "path"}, {}, {}, {"compressed"}),
             build_inspect_instance_archive, FALSE)

async_inspect_instance_archive ==
    Streamed("async_inspect_instance_archive",
             Takes({"operation_uuid", "path"}, {}, {}, {"compressed"}),
             build_inspect_instance_archive, TRUE)

async_check_instance_archive ==
    Checked("check_instance_archive", Takes({"operation_uuid", "path"}, {}, {}, {}),
            build_check_instance_archive, parse_check_instance_archive)

async_inspect_find_image_by_tag ==
    Buffered("inspect_find_image_by_tag", Takes({"tag"}, {}, {}, {}),
             build_inspect_find_image_by_tag, parse_inspect_find_image_by_tag, Located)

async_inspect_image ==
    Buffered("inspect_image", Takes({"image_uuid"}, {}, {}, {}), build_inspect_image,
             parse_inspect_image, Gives(Image))

async_inspect_image_download ==
    Buffered("inspect_image_download", Takes({"image_uuid", "path"}, {}, {}, {}),
             build_inspect_image_download, parse_inspect_image_download, SomeBytes)

async_inspect_image_download_stream ==
    Streamed("async_inspect_image_download_stream", Takes({"image_uuid", "path"}, {}, {}, {}),
             build_inspect_image_download, TRUE)

async_check_image_file ==
    Checked("check_image_file", Takes({"image_uuid", "path"}, {}, {}, {}),
            build_check_image_file, parse_check_image_file)

async_inspect_image_archive ==
    Streamed("async_inspect_image_archive",
             Takes({"image_uuid", "path"}, {}, {}, {"compressed"}),
             build_inspect_image_archive, TRUE)

async_check_image_archive ==
    Checked("check_image_archive", Takes({"image_uuid", "path"}, {}, {}, {}),
            build_check_image_archive, parse_check_image_archive)

async_inspect_image_list ==
    Buffered("inspect_image_list", Takes({"image_uuid", "path"}, {}, {}, {}),
             build_inspect_image_list, parse_inspect_image_list, Gives(DirectoryList))

async_inspect_instance_grep ==
    Buffered("inspect_instance_grep",
             Takes({"operation_uuid", "pattern"}, {"path", "glob", "max_count",
                    "max_total", "case", "before", "after"}, {}, {}),
             build_inspect_instance_grep, parse_inspect_instance_grep,
             Gives(GrepResult))

async_inspect_image_grep ==
    Buffered("inspect_image_grep",
             Takes({"image_uuid", "pattern"}, {"path", "glob", "max_count",
                    "max_total", "case", "before", "after"}, {}, {}),
             build_inspect_image_grep, parse_inspect_image_grep, Gives(GrepResult))

async_whoami ==
    Buffered("whoami", Takes({}, {}, {}, {}), build_whoami, parse_whoami,
             Gives(WhoAmIResponse))

AsyncNext ==
    \/ async_resolve_image
    \/ async_list_network_policies
    \/ async_create_network_policy
    \/ async_get_network_policy
    \/ async_delete_network_policy
    \/ async_list_network_policy_tags
    \/ async_get_network_policy_tag
    \/ async_set_network_policy_tag
    \/ async_delete_network_policy_tag
    \/ async_list_images
    \/ async_iter_images
    \/ async_delete_image_tag
    \/ async_update_image_tag
    \/ async_import_image
    \/ async_list_files
    \/ async_iter_files
    \/ async_upload_file
    \/ async_get_file
    \/ async_check_file_exists
    \/ async_spawn_instance
    \/ async_list_operations
    \/ async_iter_operations
    \/ async_get_operation_status
    \/ async_cancel_operation
    \/ async_iter_operation_events
    \/ async_operation_subprocess_create
    \/ async_operation_subprocess
    \/ async_operation_subprocess_kill
    \/ async_operation_subprocess_stdin
    \/ async_apply_instance_file
    \/ async_inspect_instance_download
    \/ async_inspect_instance_download_stream
    \/ async_check_instance_file
    \/ async_inspect_instance_list
    \/ async_inspect_instance_archive
    \/ async_check_instance_archive
    \/ async_inspect_find_image_by_tag
    \/ async_inspect_image
    \/ async_inspect_image_download
    \/ async_inspect_image_download_stream
    \/ async_check_image_file
    \/ async_inspect_image_archive
    \/ async_check_image_archive
    \/ async_inspect_image_list
    \/ async_inspect_instance_grep
    \/ async_inspect_image_grep
    \/ async_whoami

==============================================================================
