-------------------------------- MODULE Wires --------------------------------
(***************************************************************************)
(* The functions that Dart can call in Rust, one wire each in              *)
(* frb_generated.rs: how the call is run, how the method borrows its       *)
(* object, the types of the other arguments in the order in which they are *)
(* decoded, and what comes back.  Neither the UI nor this model calls the  *)
(* methods of Vault and VncConnection: app.rs has a Vault of its own.      *)
(*                                                                         *)
(* A normal call runs on a thread of the pool, a synchronous one on Dart's *)
(* own thread.  A method locks its object for the whole call: exclusively  *)
(* (lockable_decode_sync_ref_mut) for `&mut self`, shared for `&self`.     *)
(***************************************************************************)

Result(type) == [type |-> type, fails |-> TRUE]
Value(type) == [type |-> type, fails |-> FALSE]

Wire(name, mode, that, args, out) ==
    [name |-> name, mode |-> mode, that |-> that, args |-> args, out |-> out]
Exclusive(name, args, out) == Wire(name, "normal", "exclusive", args, out)
Shared(name, args, out) == Wire(name, "normal", "shared", args, out)
Plain(name, args, out) == Wire(name, "normal", "none", args, out)
Sync(name, args, out) == Wire(name, "sync", "none", args, out)

(* rdp.rs                                                                  *)
RdpConnection_connect == Exclusive("RdpConnection_connect", <<"Connection">>, Result("()"))
RdpConnection_disconnect == Exclusive("RdpConnection_disconnect", <<>>, Result("()"))
RdpConnection_get_framebuffer ==
    Shared("RdpConnection_get_framebuffer", <<>>, Result("Vec<u8>"))
RdpConnection_get_size == Shared("RdpConnection_get_size", <<>>, Value("(u16, u16)"))
RdpConnection_is_connected == Shared("RdpConnection_is_connected", <<>>, Value("bool"))
RdpConnection_new == Plain("RdpConnection_new", <<>>, Value("RdpConnection"))

(* ssh.rs                                                                  *)
SshConnection_close_shell == Shared("SshConnection_close_shell", <<>>, Result("()"))
SshConnection_connect == Exclusive("SshConnection_connect", <<"Connection">>, Result("()"))
SshConnection_connect_via_jump_host ==
    Exclusive("SshConnection_connect_via_jump_host", <<"Connection", "Connection">>,
        Result("()"))
SshConnection_disconnect == Exclusive("SshConnection_disconnect", <<>>, Result("()"))
SshConnection_execute_command ==
    Shared("SshConnection_execute_command", <<"String">>, Result("String"))
SshConnection_new == Plain("SshConnection_new", <<>>, Value("SshConnection"))
SshConnection_open_shell ==
    Shared("SshConnection_open_shell", <<"String", "u32", "u32", "StreamSink<Vec<u8>>>">>,
        Result("()"))
SshConnection_resize_pty ==
    Shared("SshConnection_resize_pty", <<"u32", "u32">>, Result("()"))
SshConnection_send_input == Shared("SshConnection_send_input", <<"Vec<u8>">>, Result("()"))
SshConnection_test_connection ==
    Shared("SshConnection_test_connection", <<>>, Result("String"))

(* vault.rs: no exclusive method, a Vault guards itself                    *)
Vault_add_connection == Shared("Vault_add_connection", <<"Connection">>, Result("()"))
Vault_add_folder == Shared("Vault_add_folder", <<"Folder">>, Result("()"))
Vault_create == Shared("Vault_create", <<"String">>, Result("()"))
Vault_delete_connection == Shared("Vault_delete_connection", <<"String">>, Result("()"))
Vault_delete_folder == Shared("Vault_delete_folder", <<"String">>, Result("()"))
Vault_delete_password_from_keyring ==
    Shared("Vault_delete_password_from_keyring", <<>>, Result("()"))
Vault_export_json == Shared("Vault_export_json", <<>>, Result("String"))
Vault_get_connection == Shared("Vault_get_connection", <<"String">>, Result("Connection"))
Vault_get_connections == Shared("Vault_get_connections", <<>>, Result("Vec<Connection>"))
Vault_get_folders == Shared("Vault_get_folders", <<>>, Result("Vec<Folder>"))
Vault_get_password_from_keyring ==
    Shared("Vault_get_password_from_keyring", <<>>, Result("Option<String>"))
Vault_import_connections ==
    Shared("Vault_import_connections", <<"Vec<Connection>">>, Result("usize"))
Vault_is_password_in_keyring == Shared("Vault_is_password_in_keyring", <<>>, Value("bool"))
Vault_is_unlocked == Shared("Vault_is_unlocked", <<>>, Value("bool"))
Vault_load_from_file == Shared("Vault_load_from_file", <<"String", "String">>, Result("()"))
Vault_lock == Shared("Vault_lock", <<>>, Value("()"))
Vault_new == Plain("Vault_new", <<>>, Value("Vault"))
Vault_replace_connections ==
    Shared("Vault_replace_connections", <<"Vec<Connection>">>, Result("()"))
Vault_save_password_to_keyring ==
    Shared("Vault_save_password_to_keyring", <<"String">>, Result("()"))
Vault_save_to_file == Shared("Vault_save_to_file", <<"String">>, Result("()"))
Vault_update_connection == Shared("Vault_update_connection", <<"Connection">>, Result("()"))
Vault_update_folder == Shared("Vault_update_folder", <<"Folder">>, Result("()"))

(* vnc.rs                                                                  *)
VncConnection_connect == Exclusive("VncConnection_connect", <<"Connection">>, Result("()"))
VncConnection_disconnect == Exclusive("VncConnection_disconnect", <<>>, Result("()"))
VncConnection_new == Plain("VncConnection_new", <<>>, Value("VncConnection"))

(* Plain functions: app.rs, models.rs, import.rs, simple.rs, login tests.  *)
add_connection ==
    Plain("add_connection", <<"String", "Protocol", "String", "u16", "Option<String>",
        "Option<String>", "Option<String>", "Option<String>", "Vec<String>", "String",
        "Option<String>", "u64", "Option<String>">>, Result("Connection"))
add_folder ==
    Plain("add_folder", <<"String", "Option<String>", "String">>, Result("Folder"))
connection_new ==
    Plain("connection_new", <<"String", "Protocol", "String", "u16">>, Value("Connection"))
create_vault == Plain("create_vault", <<"String", "String">>, Result("()"))
default_vault_path == Sync("default_vault_path", <<>>, Value("String"))
delete_connection == Plain("delete_connection", <<"String", "String">>, Result("()"))
delete_folder == Plain("delete_folder", <<"String", "String">>, Result("()"))
delete_master_password_from_keyring ==
    Plain("delete_master_password_from_keyring", <<>>, Result("()"))
export_vault_json == Plain("export_vault_json", <<>>, Result("String"))
folder_new == Plain("folder_new", <<"String", "Option<String>">>, Value("Folder"))
get_connection == Plain("get_connection", <<"String">>, Result("Connection"))
get_connections == Plain("get_connections", <<>>, Result("Vec<Connection>"))
get_folders == Plain("get_folders", <<>>, Result("Vec<Folder>"))
get_master_password_from_keyring ==
    Plain("get_master_password_from_keyring", <<>>, Result("Option<String>"))
greet == Sync("greet", <<"String">>, Value("String"))
import_mremoteng_xml ==
    Plain("import_mremoteng_xml", <<"String", "String">>, Result("(usize, usize)"))
init_app == Plain("init_app", <<>>, Value("()"))
is_master_password_in_keyring == Sync("is_master_password_in_keyring", <<>>, Value("bool"))
is_vault_unlocked == Sync("is_vault_unlocked", <<>>, Value("bool"))
lock_vault == Sync("lock_vault", <<>>, Value("()"))
open_url == Plain("open_url", <<"String">>, Result("()"))
parse_mremoteng_xml ==
    Plain("parse_mremoteng_xml", <<"String">>, Result("(Vec<Connection>, Vec<Folder>)"))
save_master_password_to_keyring ==
    Plain("save_master_password_to_keyring", <<"String">>, Result("()"))
test_connection == Plain("test_connection", <<"String">>, Result("String"))
test_rdp_connection ==
    Plain("test_rdp_connection", <<"String", "u16", "String", "String", "Option<String>">>,
        Result("String"))
test_ssh_connection ==
    Plain("test_ssh_connection", <<"String", "u16", "String", "Option<String>",
        "Option<String>", "Option<String>">>, Result("String"))
test_vnc_connection ==
    Plain("test_vnc_connection", <<"String", "u16", "Option<String>">>, Result("String"))
unlock_vault == Plain("unlock_vault", <<"String", "String">>, Result("()"))
update_connection == Plain("update_connection", <<"Connection", "String">>, Result("()"))
update_folder == Plain("update_folder", <<"Folder", "String">>, Result("()"))
vault_data_default == Plain("vault_data_default", <<>>, Value("VaultData"))
vault_exists == Sync("vault_exists", <<"String">>, Value("bool"))

-----------------------------------------------------------------------------
(* What the two dispatchers accept: with a port to reply to, and without.  *)
DispatchedPrimary == {
    RdpConnection_connect, RdpConnection_disconnect, RdpConnection_get_framebuffer,
    RdpConnection_get_size, RdpConnection_is_connected, RdpConnection_new,
    SshConnection_close_shell, SshConnection_connect, SshConnection_connect_via_jump_host,
    SshConnection_disconnect, SshConnection_execute_command, SshConnection_new,
    SshConnection_open_shell, SshConnection_resize_pty, SshConnection_send_input,
    SshConnection_test_connection, Vault_add_connection, Vault_add_folder, Vault_create,
    Vault_delete_connection, Vault_delete_folder, Vault_delete_password_from_keyring,
    Vault_export_json, Vault_get_connection, Vault_get_connections, Vault_get_folders,
    Vault_get_password_from_keyring, Vault_import_connections,
    Vault_is_password_in_keyring, Vault_is_unlocked, Vault_load_from_file, Vault_lock,
    Vault_new, Vault_replace_connections, Vault_save_password_to_keyring,
    Vault_save_to_file, Vault_update_connection, Vault_update_folder,
    VncConnection_connect, VncConnection_disconnect, VncConnection_new, add_connection,
    add_folder, connection_new, create_vault, delete_connection, delete_folder,
    delete_master_password_from_keyring, export_vault_json, folder_new, get_connection,
    get_connections, get_folders, get_master_password_from_keyring, import_mremoteng_xml,
    init_app, open_url, parse_mremoteng_xml, save_master_password_to_keyring,
    test_connection, test_rdp_connection, test_ssh_connection, test_vnc_connection,
    unlock_vault, update_connection, update_folder, vault_data_default}

DispatchedSync == {
    default_vault_path, greet, is_master_password_in_keyring, is_vault_unlocked,
    lock_vault, vault_exists}

ASSUME DispatchAssumption ==
    /\ \A w \in DispatchedPrimary : w.mode = "normal"
    /\ \A w \in DispatchedSync : w.mode = "sync"

Wires == DispatchedPrimary \cup DispatchedSync
WireNamed == [n \in {w.name : w \in Wires} |-> CHOOSE w \in Wires : w.name = n]
PrimaryNames == {w.name : w \in DispatchedPrimary}
SyncNames == {w.name : w \in DispatchedSync}

-----------------------------------------------------------------------------
(* What the functions wait for.  The vault's mutexes are taken by          *)
(* everything in app.rs but the path, the keyring and the launcher;        *)
(* test_connection gives them back before it waits for the host.           *)
TakesVault == {
    "create_vault", "unlock_vault", "lock_vault", "is_vault_unlocked", "add_connection",
    "get_connections", "get_connection", "delete_connection", "update_connection", "add_folder",
    "get_folders", "update_folder", "delete_folder", "import_mremoteng_xml", "export_vault_json"}

(* Mutant: connect_rdp reads from the server without a time limit. *)
WaitsForServer == {"SshConnection_connect", "RdpConnection_connect"}

(* These wait for a remote host.  An SSH host may keep them for ever:      *)
(* connect_with_timeout limits the TCP connect alone, and the sessions are *)
(* blocking ones without a time limit.                                     *)
WaitsForSsh == {
    "SshConnection_connect", "SshConnection_connect_via_jump_host", "SshConnection_open_shell",
    "SshConnection_execute_command", "SshConnection_test_connection", "test_connection",
    "test_ssh_connection"}
=============================================================================
