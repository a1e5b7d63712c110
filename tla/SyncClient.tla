-------------------------------- MODULE SyncClient -----------------------------
(***************************************************************************)
(* The operations of ContreeSyncClient (client/contree_client/base.py):    *)
(* the parameters of each method, those that default to None, to "...",    *)
(* and the flags; the builder, and what it makes of the response.          *)
(***************************************************************************)
EXTENDS ApiCall

resolve_image ==
    \/ Resolved("resolve_image")
    \/ Buffered("resolve_image", Takes({"tag"}, {}, {}, {}),
                build_inspect_find_image_by_tag, parse_inspect_find_image_by_tag, Located)

list_network_policies ==
    Buffered("list_network_policies", Takes({}, {"search", "limit", "offset"}, {}, {}),
             build_list_network_policies, parse_list_network_policies,
             Gives(NetworkPolicyListResponse))

create_network_policy ==
    Buffered("create_network_policy", Takes({"cidrs"}, {}, {}, {}),
             build_create_network_policy, parse_create_network_policy,
             Gives(NetworkPolicy))

get_network_policy ==
    Buffered("get_network_policy", Takes({"uuid"}, {}, {}, {}),
             build_get_network_policy, parse_get_network_policy, Gives(NetworkPolicy))

delete_network_policy ==
    Buffered("delete_network_policy", Takes({"uuid"}, {}, {}, {}),
             build_delete_network_policy, parse_delete_network_policy, NoAnswer)

list_network_policy_tags ==
    Buffered("list_network_policy_tags", Takes({}, {"limit", "offset"}, {}, {}),
             build_list_network_policy_tags, parse_list_network_policy_tags,
             Gives(ListNetworkPolicyTagsResponse))

get_network_policy_tag ==
    Buffered("get_network_policy_tag", Takes({"tag"}, {}, {}, {}),
             build_get_network_policy_tag, parse_get_network_policy_tag,
             Found(NetworkPolicyTag))

set_network_policy_tag ==
    Buffered("set_network_policy_tag", Takes({"tag", "uuid"}, {}, {}, {}),
             build_set_network_policy_tag, parse_set_network_policy_tag,
             Gives(NetworkPolicyTag))

delete_network_policy_tag ==
    Buffered("delete_network_policy_tag", Takes({"tag"}, {}, {}, {}),
             build_delete_network_policy_tag, parse_delete_network_policy_tag, NoAnswer)

list_images ==
    Buffered("list_images",
             Takes({}, {"limit", "offset", "tag", "uuid", "since", "until"}, {},
                    {"tagged"}),
             build_list_images, parse_list_images, Gives(ImageListResponse))

iter_images ==
    LET Parse(r) == Items(parse_list_images(r), "images") IN
    Paged("iter_images", {"tag", "uuid", "since", "until"}, {"tagged"},
          build_list_images, Parse, Page(ImageListResponse, "images"))

delete_image_tag ==
    Buffered("delete_image_tag", Takes({"image_uuid"}, {"tag"}, {}, {}),
             build_delete_image_tag, parse_delete_image_tag, NoAnswer)

update_image_tag ==
    Buffered("update_image_tag", Takes({"image_uuid", "tag"}, {}, {}, {}),
             build_update_image_tag, parse_update_image_tag, Gives(Image))

import_image ==
    Buffered("import_image", Takes({"registry"}, {}, {"tag", "timeout"}, {}),
             build_import_image, parse_import_image, Member("uuid", Text("u")))

list_files ==
    Buffered("list_files", Takes({}, {"limit", "offset", "since", "until"}, {}, {}),
             build_list_files, parse_list_files, Gives(FilesListResponse))

iter_files ==
    LET Parse(r) == Items(parse_list_files(r), "files") IN
    Paged("iter_files", {"since", "until"}, {}, build_list_files, Parse,
          Page(FilesListResponse, "files"))

upload_file ==
    Buffered("upload_file", Takes({"content"}, {}, {}, {}), build_upload_file,
             parse_upload_file, Gives(FileResponse))

get_file ==
    Buffered("get_file", Takes({"sha256"}, {}, {}, {}), build_get_file, parse_get_file,
             Gives(File))

check_file_exists ==
    Checked("check_file_exists", Takes({"sha256"}, {}, {}, {}), build_check_file_exists,
            parse_check_file_exists)

spawn_instance ==
    Buffered("spawn_instance",
             Takes({"command", "image"}, {}, {"disposable", "hostname", "args",
                    "shell", "env", "preserve_env", "preserve_cwd", "cwd", "uid",
                    "gid", "resources_limits", "networking", "stdin", "timeout",
                    "truncate_output_at", "files"}, {}),
             build_spawn_instance, parse_spawn_instance, Gives(InstanceSpawnResponse))

list_operations ==
    Buffered("list_operations",
             Takes({}, {"limit", "offset", "status", "kind", "since", "until"}, {}, {}),
             build_list_operations, parse_list_operations, ListOf(OperationSummary))

iter_operations ==
    Paged("iter_operations", {"status", "kind", "since", "until"}, {},
          build_list_operations, parse_list_operations, ListOf(OperationSummary))

get_operation_status ==
    Buffered("get_operation_status", Takes({"operation_id"}, {}, {}, {"inflight"}),
             build_get_operation_status, parse_get_operation_status,
             Gives(OperationResponse))

cancel_operation ==
    Buffered("cancel_operation", Takes({"operation_id"}, {}, {}, {}),
             build_cancel_operation, parse_cancel_operation, NoAnswer)

iter_operation_events ==
    Events("iter_operation_events",
           Takes({"operation_id"}, {"spid", "since", "last_event_id"}, {}, {"follow"}),
           build_iter_operation_events, TRUE)

operation_subprocess_create ==
    Buffered("operation_subprocess_create",
             Takes({"operation_id", "command"}, {}, {"resources_limits", "args",
                    "shell", "env", "cwd", "uid", "gid", "stdin",
                    "truncate_output_at"}, {}),
             build_operation_subprocess_create, parse_operation_subprocess_create,
             Member("spid", Number(7)))

operation_subprocess ==
    Buffered("operation_subprocess", Takes({"operation_id", "spid"}, {}, {}, {}),
             build_operation_subprocess, parse_operation_subprocess,
             Gives(InstanceResult))

operation_subprocess_kill ==
    Buffered("operation_subprocess_kill",
             Takes({"operation_id", "spid"}, {"signal"}, {}, {}),
             build_operation_subprocess_kill, parse_operation_subprocess_kill, NoAnswer)

operation_subprocess_stdin ==
    Buffered("operation_subprocess_stdin",
             Takes({"operation_id", "spid", "value"}, {}, {"encoding", "close"}, {}),
             build_operation_subprocess_stdin, parse_operation_subprocess_stdin,
             NoAnswer)

apply_instance_file ==
    Buffered("apply_instance_file",
             Takes({"operation_uuid", "file_uuid", "path"}, {}, {"unpack", "replace",
                    "merge"}, {}),
             build_apply_instance_file, parse_apply_instance_file, NoAnswer)

inspect_instance_download ==
    Buffered("inspect_instance_download", Takes({"operation_uuid", "path"}, {}, {}, {}),
             build_inspect_instance_download, parse_inspect_instance_download,
             SomeBytes)

inspect_instance_download_stream ==
    Streamed("inspect_instance_download_stream",
             Takes({"operation_uuid", "path"}, {}, {}, {}),
             build_inspect_instance_download, FALSE)

check_instance_file ==
    Checked("check_instance_file", Takes({"operation_uuid", "path"}, {}, {}, {}),
            build_check_instance_file, parse_check_instance_file)

inspect_instance_list ==
    Buffered("inspect_instance_list", Takes({"operation_uuid", "path"}, {}, {}, {}),
             build_inspect_instance_list, parse_inspect_instance_list,
             Gives(DirectoryList))

inspect_instance_archive ==
    Streamed("inspect_instance_archive",
             Takes({"operation_uuid", "path"}, {}, {}, {"compressed"}),
             build_inspect_instance_archive, FALSE)

check_instance_archive ==
    Checked("check_instance_archive", Takes({"operation_uuid", "path"}, {}, {}, {}),
            build_check_instance_archive, parse_check_instance_archive)

inspect_find_image_by_tag ==
    Buffered("inspect_find_image_by_tag", Takes({"tag"}, {}, {}, {}),
             build_inspect_find_image_by_tag, parse_inspect_find_image_by_tag, Located)

inspect_image ==
    Buffered("inspect_image", Takes({"image_uuid"}, {}, {}, {}), build_inspect_image,
             parse_inspect_image, Gives(Image))

inspect_image_download ==
    Buffered("inspect_image_download", Takes({"image_uuid", "path"}, {}, {}, {}),
             build_inspect_image_download, parse_inspect_image_download, SomeBytes)

inspect_image_download_stream ==
    Streamed("inspect_image_download_stream", Takes({"image_uuid", "path"}, {}, {}, {}),
             build_inspect_image_download, FALSE)

check_image_file ==
    Checked("check_image_file", Takes({"image_uuid", "path"}, {}, {}, {}),
            build_check_image_file, parse_check_image_file)

inspect_image_archive ==
    Streamed("inspect_image_archive",
             Takes({"image_uuid", "path"}, {}, {}, {"compressed"}),
             build_inspect_image_archive, FALSE)

check_image_archive ==
    Checked("check_image_archive", Takes({"image_uuid", "path"}, {}, {}, {}),
            build_check_image_archive, parse_check_image_archive)

inspect_image_list ==
    Buffered("inspect_image_list", Takes({"image_uuid", "path"}, {}, {}, {}),
             build_inspect_image_list, parse_inspect_image_list, Gives(DirectoryList))

inspect_instance_grep ==
    Buffered("inspect_instance_grep",
             Takes({"operation_uuid", "pattern"}, {"path", "glob", "max_count",
                    "max_total", "case", "before", "after"}, {}, {}),
             build_inspect_instance_grep, parse_inspect_instance_grep,
             Gives(GrepResult))

inspect_image_grep ==
    Buffered("inspect_image_grep",
             Takes({"image_uuid", "pattern"}, {"path", "glob", "max_count",
                    "max_total", "case", "before", "after"}, {}, {}),
             build_inspect_image_grep, parse_inspect_image_grep, Gives(GrepResult))

whoami ==
    Buffered("whoami", Takes({}, {}, {}, {}), build_whoami, parse_whoami,
             Gives(WhoAmIResponse))

SyncNext ==
    \/ resolve_image
    \/ list_network_policies
    \/ create_network_policy
    \/ get_network_policy
    \/ delete_network_policy
    \/ list_network_policy_tags
    \/ get_network_policy_tag
    \/ set_network_policy_tag
    \/ delete_network_policy_tag
    \/ list_images
    \/ iter_images
    \/ delete_image_tag
    \/ update_image_tag
    \/ import_image
    \/ list_files
    \/ iter_files
    \/ upload_file
    \/ get_file
    \/ check_file_exists
    \/ spawn_instance
    \/ list_operations
    \/ iter_operations
    \/ get_operation_status
    \/ cancel_operation
    \/ iter_operation_events
    \/ operation_subprocess_create
    \/ operation_subprocess
    \/ operation_subprocess_kill
    \/ operation_subprocess_stdin
    \/ apply_instance_file
    \/ inspect_instance_download
    \/ inspect_instance_download_stream
    \/ check_instance_file
    \/ inspect_instance_list
    \/ inspect_instance_archive
    \/ check_instance_archive
    \/ inspect_find_image_by_tag
    \/ inspect_image
    \/ inspect_image_download
    \/ inspect_image_download_stream
    \/ check_image_file
    \/ inspect_image_archive
    \/ check_image_archive
    \/ inspect_image_list
    \/ inspect_instance_grep
    \/ inspect_image_grep
    \/ whoami

==============================================================================
