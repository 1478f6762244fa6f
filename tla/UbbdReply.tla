------------------------------ MODULE UbbdReply ------------------------------
(***************************************************************************)
(* The sizes of the netlink replies that describe devices: the room that   *)
(* the handlers compute and allocate first, in get_status_msg_size and     *)
(* their own sums, and what the fill functions then put into it.           *)
(* fill_queue_info_item trusts the room: it checks neither the nests it    *)
(* starts nor the CPU ids it puts.                                         *)
(***************************************************************************)
EXTENDS Integers, FiniteSetsExt

CONSTANT PAD64   \* bytes in front of a u64 that align it: 0 or 4

ASSUME PadAssumption == PAD64 \in {0, 4}

(* nla_attr_size, nla_total_size and nla_nest_start of the netlink library *)
(* (external): a header of four bytes; what is put is padded to four.      *)
nla_attr_size(payload) == 4 + payload
nla_total_size(payload) == ((nla_attr_size(payload) + 3) \div 4) * 4
nest == nla_total_size(0)

s32 == 4
u64 == 8
u8 == 1

-----------------------------------------------------------------------------
(* Room.  cpumask[q] is the set of CPUs of queue q. *)

(* Mutant: the list of CPUs is forgotten. *)
Bug_get_queue_msg_size(cpus) ==
    4 * nla_attr_size(s32) + nla_attr_size(u64 + nla_attr_size(s32))

get_queue_msg_size(cpus) ==
    nla_attr_size(s32)                                           \* ITEM
        + nla_attr_size(s32) + nla_attr_size(u64 + nla_attr_size(s32))
        + nla_attr_size(s32) + nla_attr_size(s32)                \* B_PID, STATUS
        + nla_attr_size(s32) * Cardinality(cpus)

get_status_msg_size(cpumask) ==
    nla_total_size(
        nla_attr_size(s32) + nla_attr_size(u8 + nla_attr_size(s32))
            + MapThenSumSet(LAMBDA q : get_queue_msg_size(cpumask[q]), DOMAIN cpumask))

add_dev_room(cpumask) ==
    get_status_msg_size(cpumask) + 2 * nla_total_size(nla_attr_size(s32))

status_room(cpumask) ==
    nla_total_size(nla_attr_size(s32)) + get_status_msg_size(cpumask) + nla_attr_size(s32)

list_room(devs) ==
    2 * nla_total_size(nla_attr_size(s32)) + nla_attr_size(s32) * Cardinality(devs)

-----------------------------------------------------------------------------
(* What is put. *)

fill_queue_info_item(cpus) ==
    nest + 3 * nla_total_size(s32) + PAD64 + nla_total_size(u64)
        + nest + nla_total_size(s32) * Cardinality(cpus)

fill_ubbd_status_queue_info(cpumask) ==
    nest + MapThenSumSet(LAMBDA q : fill_queue_info_item(cpumask[q]), DOMAIN cpumask)

fill_ubbd_status_detail(cpumask) ==
    nla_total_size(s32) + nla_total_size(u8) + fill_ubbd_status_queue_info(cpumask)

(* ubbd_nl_reply_add_dev_done and, through fill_ubbd_status, STATUS: the   *)
(* detail in a nest, and the return value.                                 *)
status_reply(cpumask) == nest + fill_ubbd_status_detail(cpumask) + nla_total_size(s32)

(* fill_ubbd_list in handle_cmd_list, and the return value. *)
list_reply(devs) ==
    nest + nla_total_size(s32) * Cardinality(devs) + nla_total_size(s32)

=============================================================================
