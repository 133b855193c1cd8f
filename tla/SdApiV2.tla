------------------------------ MODULE SdApiV2 -------------------------------
(*****************************************************************************)
(* API version 2: the codecs of each function and event.  The formal         *)
(* parameters of a codec are the arguments the caller passes; S has the codecs *)
(* of structures.                                                            *)
(*****************************************************************************)
EXTENDS SerFormat

S == INSTANCE SerStructsV2

ble_enable_req_enc(p_ble_enable_params) ==
    Req("SD_BLE_ENABLE", <<cond(p_ble_enable_params, S!ble_enable_params_t)>>)
ble_enable_rsp_dec == Rsp("SD_BLE_ENABLE", <<>>)
ble_evt_tx_complete_dec ==
    Evt("BLE_EVT_TX_COMPLETE", "common",
        <<uint16("conn_handle"), sub("tx_complete", <<uint8("count")>>)>>)
ble_evt_user_mem_release_dec ==
    Evt("BLE_EVT_USER_MEM_RELEASE", "common",
        <<uint16("conn_handle"),
          sub("user_mem_release",
              <<uint8("type"),
                sub("mem_block", <<uint16("len"), cond("p_mem", None), recall("p_mem")>>)>>)>>)
ble_evt_user_mem_request_dec ==
    Evt("BLE_EVT_USER_MEM_REQUEST", "common",
        <<uint16("conn_handle"), sub("user_mem_request", <<uint8("type")>>)>>)
ble_gap_address_get_req_enc(p_address) ==
    Req("SD_BLE_GAP_ADDRESS_GET", <<cond(p_address, None)>>)
ble_gap_address_get_rsp_dec(p_address) ==
    Rsp("SD_BLE_GAP_ADDRESS_GET",
        <<sub(p_address, <<uint8("addr_type"), uint8array("addr", "BLE_GAP_ADDR_LEN")>>)>>)
ble_gap_address_set_req_enc(addr_cycle_mode, p_addr) ==
    Req("SD_BLE_GAP_ADDRESS_SET",
        <<uint8(addr_cycle_mode),
          cond(p_addr, Both(<<uint8("addr_type"), uint8array("addr", "BLE_GAP_ADDR_LEN")>>))>>)
ble_gap_address_set_rsp_dec == Rsp("SD_BLE_GAP_ADDRESS_SET", <<>>)
ble_gap_adv_data_set_req_enc(p_data, dlen, p_sr_data, srdlen) ==
    Req("SD_BLE_GAP_ADV_DATA_SET", <<len8data(p_data, dlen), len8data(p_sr_data, srdlen)>>)
ble_gap_adv_data_set_rsp_dec == Rsp("SD_BLE_GAP_ADV_DATA_SET", <<>>)
ble_gap_adv_start_req_enc(p_adv_params) ==
    Req("SD_BLE_GAP_ADV_START",
        <<cond(p_adv_params,
               Both(<<uint8("type"), cond("p_peer_addr", S!ble_gap_addr), uint8("fp"),
                      cond("p_whitelist", S!ble_gap_whitelist_t), uint16("interval"),
                      uint16("timeout"), field("channel_mask", S!ble_gap_adv_ch_mask_t)>>))>>)
ble_gap_adv_start_rsp_dec == Rsp("SD_BLE_GAP_ADV_START", <<>>)
ble_gap_adv_stop_req_enc == Req("SD_BLE_GAP_ADV_STOP", <<>>)
ble_gap_adv_stop_rsp_dec == Rsp("SD_BLE_GAP_ADV_STOP", <<>>)
ble_gap_appearance_get_req_enc(p_appearance) ==
    Req("SD_BLE_GAP_APPEARANCE_GET", <<cond(p_appearance, None)>>)
ble_gap_appearance_get_rsp_dec(p_appearance) ==
    Rsp("SD_BLE_GAP_APPEARANCE_GET", <<uint16(p_appearance)>>)
ble_gap_appearance_set_req_enc(appearance) ==
    Req("SD_BLE_GAP_APPEARANCE_SET", <<uint16(appearance)>>)
ble_gap_appearance_set_rsp_dec == Rsp("SD_BLE_GAP_APPEARANCE_SET", <<>>)
ble_gap_auth_key_reply_req_enc(conn_handle, key_type, p_key) ==
    Req("SD_BLE_GAP_AUTH_KEY_REPLY",
        <<uint16(conn_handle), uint8(key_type), limit(key_type, "BLE_GAP_AUTH_KEY_TYPE_OOB"),
          buf(p_key, "key_len")>>)
ble_gap_auth_key_reply_rsp_dec == Rsp("SD_BLE_GAP_AUTH_KEY_REPLY", <<>>)
ble_gap_authenticate_req_enc(conn_handle, p_sec_params) ==
    Req("SD_BLE_GAP_AUTHENTICATE",
        <<uint16(conn_handle), cond(p_sec_params, S!ble_gap_sec_params_t)>>)
ble_gap_authenticate_rsp_dec == Rsp("SD_BLE_GAP_AUTHENTICATE", <<>>)
ble_gap_conn_param_update_req_enc(conn_handle, p_conn_params) ==
    Req("SD_BLE_GAP_CONN_PARAM_UPDATE",
        <<uint16(conn_handle),
          cond(p_conn_params,
               Both(<<uint16("min_conn_interval"), uint16("max_conn_interval"),
                      uint16("slave_latency"), uint16("conn_sup_timeout")>>))>>)
ble_gap_conn_param_update_rsp_dec == Rsp("SD_BLE_GAP_CONN_PARAM_UPDATE", <<>>)
ble_gap_conn_sec_get_req_enc(conn_handle, p_conn_sec) ==
    Req("SD_BLE_GAP_CONN_SEC_GET", <<uint16(conn_handle), cond(p_conn_sec, None)>>)
ble_gap_conn_sec_get_rsp_dec(pp_conn_sec) ==
    Rsp("SD_BLE_GAP_CONN_SEC_GET", <<cond(pp_conn_sec, S!ble_gap_conn_sec_t)>>)
ble_gap_connect_req_enc(p_peer_addr, p_scan_params, p_conn_params) ==
    Req("SD_BLE_GAP_CONNECT",
        <<cond(p_peer_addr, S!ble_gap_addr), cond(p_scan_params, S!ble_gap_scan_params_t),
          cond(p_conn_params, S!ble_gap_conn_params_t)>>)
ble_gap_connect_rsp_dec == Rsp("SD_BLE_GAP_CONNECT", <<>>)
ble_gap_connect_cancel_req_enc == Req("SD_BLE_GAP_CONNECT_CANCEL", <<>>)
ble_gap_connect_cancel_rsp_dec == Rsp("SD_BLE_GAP_CONNECT_CANCEL", <<>>)
ble_gap_device_name_get_req_enc(p_dev_name, p_len) ==
    Req("SD_BLE_GAP_DEVICE_NAME_GET", <<cond(p_len, uint16_t), cond(p_dev_name, None)>>)
ble_gap_device_name_get_rsp_dec(p_dev_name, p_dev_name_len) ==
    Rsp("SD_BLE_GAP_DEVICE_NAME_GET", <<len16data(p_dev_name, p_dev_name_len)>>)
ble_gap_device_name_set_req_enc(p_write_perm, p_dev_name, len) ==
    Req("SD_BLE_GAP_DEVICE_NAME_SET",
        <<cond(p_write_perm, Both(<<bits(8, [sm |-> up(0), lv |-> up(4)])>>)),
          limit(len, "BLE_GAP_DEVNAME_MAX_LEN"), uint16(len), buf(p_dev_name, len)>>)
ble_gap_device_name_set_rsp_dec == Rsp("SD_BLE_GAP_DEVICE_NAME_SET", <<>>)
ble_gap_disconnect_req_enc(conn_handle, hci_status_code) ==
    Req("SD_BLE_GAP_DISCONNECT", <<uint16(conn_handle), uint8(hci_status_code)>>)
ble_gap_disconnect_rsp_dec == Rsp("SD_BLE_GAP_DISCONNECT", <<>>)
ble_gap_encrypt_req_enc(conn_handle, p_master_id, p_enc_info) ==
    Req("SD_BLE_GAP_ENCRYPT",
        <<uint16(conn_handle),
          cond(p_master_id, Both(<<uint16("ediv"),
                                   uint8array("rand", "BLE_GAP_SEC_RAND_LEN")>>)),
          cond(p_enc_info, Both(<<uint8array("ltk", "BLE_GAP_SEC_KEY_LEN"),
                                  bits(8, [auth |-> up(0), ltk_len |-> up(1)])>>))>>)
ble_gap_encrypt_rsp_dec == Rsp("SD_BLE_GAP_ENCRYPT", <<>>)
ble_gap_evt_adv_report_dec ==
    Evt("BLE_GAP_EVT_ADV_REPORT", "gap",
        <<uint16("conn_handle"),
          sub("adv_report",
              <<field("peer_addr", S!ble_gap_addr), uint8("rssi"),
                bits(8, [scan_rsp |-> {0}, type |-> 1..2, dlen |-> 3..7]),
                uint8array("data", "dlen")>>)>>)
ble_gap_evt_auth_key_request_dec ==
    Evt("BLE_GAP_EVT_AUTH_KEY_REQUEST", "gap",
        <<uint16("conn_handle"), sub("auth_key_request", <<uint8("key_type")>>)>>)
ble_gap_evt_auth_status_dec ==
    Evt("BLE_GAP_EVT_AUTH_STATUS", "gap",
        <<uint16("conn_handle"), field("auth_status", S!ble_gap_evt_auth_status_t),
          field("keyset", S!ble_gap_sec_keyset_t)>>)
ble_gap_evt_conn_param_update_dec ==
    Evt("BLE_GAP_EVT_CONN_PARAM_UPDATE", "gap",
        <<uint16("conn_handle"),
          sub("conn_param_update",
              <<sub("conn_params",
                    <<uint16("min_conn_interval"), uint16("max_conn_interval"),
                      uint16("slave_latency"), uint16("conn_sup_timeout")>>)>>)>>)
ble_gap_evt_conn_param_update_request_dec ==
    Evt("BLE_GAP_EVT_CONN_PARAM_UPDATE_REQUEST", "gap",
        <<uint16("conn_handle"),
          sub("conn_param_update_request",
              <<sub("conn_params",
                    <<uint16("min_conn_interval"), uint16("max_conn_interval"),
                      uint16("slave_latency"), uint16("conn_sup_timeout")>>)>>)>>)
ble_gap_evt_conn_sec_update_dec ==
    Evt("BLE_GAP_EVT_CONN_SEC_UPDATE", "gap",
        <<uint16("conn_handle"),
          sub("conn_sec_update",
              <<sub("conn_sec", <<sub("sec_mode", <<bits(8, [sm |-> 0..3, lv |-> 4..7])>>),
                                  uint8("encr_key_size")>>)>>)>>)
ble_gap_evt_connected_dec ==
    Evt("none", "gap", <<uint16("conn_handle"), field("connected", S!ble_gap_evt_connected_t)>>)
ble_gap_evt_disconnected_dec ==
    Evt("BLE_GAP_EVT_DISCONNECTED", "gap",
        <<uint16("conn_handle"), sub("disconnected", <<uint8("reason")>>)>>)
ble_gap_evt_key_pressed_dec ==
    Evt("none", "gap", <<uint16("conn_handle"), sub("key_pressed", <<uint8("kp_not")>>)>>)
ble_gap_evt_lesc_dhkey_request_dec ==
    Evt("none", "gap",
        <<uint16("conn_handle"),
          sub("lesc_dhkey_request",
              <<cond("p_pk_peer", S!ble_gap_lesc_p256_pk_t), bits(8, [oobd_req |-> {0}])>>)>>)
ble_gap_evt_passkey_display_dec ==
    Evt("BLE_GAP_EVT_PASSKEY_DISPLAY", "gap",
        <<uint16("conn_handle"),
          sub("passkey_display",
              <<uint8array("passkey", "PASSKEY_LEN"), bits(8, [match_request |-> {0}])>>)>>)
ble_gap_evt_rssi_changed_dec ==
    Evt("BLE_GAP_EVT_RSSI_CHANGED", "gap",
        <<uint16("conn_handle"), sub("rssi_changed", <<uint8("rssi")>>)>>)
ble_gap_evt_scan_req_report_dec ==
    Evt("BLE_GAP_EVT_SCAN_REQ_REPORT", "gap",
        <<uint16("conn_handle"),
          sub("scan_req_report", <<field("peer_addr", S!ble_gap_addr), uint8("rssi")>>)>>)
ble_gap_evt_sec_info_request_dec ==
    Evt("BLE_GAP_EVT_SEC_INFO_REQUEST", "gap",
        <<uint16("conn_handle"), field("sec_info_request", S!ble_gap_evt_sec_info_request_t)>>)
ble_gap_evt_sec_params_request_dec ==
    Evt("BLE_GAP_EVT_SEC_PARAMS_REQUEST", "gap",
        <<uint16("conn_handle"),
          field("sec_params_request", S!ble_gap_evt_sec_params_request_t)>>)
ble_gap_evt_sec_request_dec ==
    Evt("none", "gap",
        <<uint16("conn_handle"), field("sec_request", S!ble_gap_evt_sec_request_t)>>)
ble_gap_evt_timeout_dec ==
    Evt("BLE_GAP_EVT_TIMEOUT", "gap",
        <<uint16("conn_handle"), sub("timeout", <<uint8("src")>>)>>)
ble_gap_keypress_notify_req_enc(conn_handle, kp_not) ==
    Req("SD_BLE_GAP_KEYPRESS_NOTIFY", <<uint16(conn_handle), uint8(kp_not)>>)
ble_gap_keypress_notify_rsp_dec == Rsp("SD_BLE_GAP_KEYPRESS_NOTIFY", <<>>)
ble_gap_lesc_dhkey_reply_req_enc(conn_handle, p_dhkey) ==
    Req("SD_BLE_GAP_LESC_DHKEY_REPLY",
        <<uint16(conn_handle), cond(p_dhkey, S!ble_gap_lesc_dhkey_t)>>)
ble_gap_lesc_dhkey_reply_rsp_dec == Rsp("SD_BLE_GAP_LESC_DHKEY_REPLY", <<>>)
ble_gap_lesc_oob_data_get_req_enc(conn_handle, p_pk_own, p_oobd_own) ==
    Req("SD_BLE_GAP_LESC_OOB_DATA_GET",
        <<uint16(conn_handle), cond(p_pk_own, S!ble_gap_lesc_p256_pk_t),
          cond(p_oobd_own, None)>>)
ble_gap_lesc_oob_data_get_rsp_dec(pp_oobd_own) ==
    Rsp("SD_BLE_GAP_LESC_OOB_DATA_GET", <<cond(pp_oobd_own, S!ble_gap_lesc_oob_data_t)>>)
ble_gap_lesc_oob_data_set_req_enc(conn_handle, p_oobd_own, p_oobd_peer) ==
    Req("SD_BLE_GAP_LESC_OOB_DATA_SET",
        <<uint16(conn_handle), cond(p_oobd_own, S!ble_gap_lesc_oob_data_t),
          cond(p_oobd_peer, S!ble_gap_lesc_oob_data_t)>>)
ble_gap_lesc_oob_data_set_rsp_dec == Rsp("SD_BLE_GAP_LESC_OOB_DATA_SET", <<>>)
ble_gap_ppcp_get_req_enc(p_conn_params) ==
    Req("SD_BLE_GAP_PPCP_GET", <<cond(p_conn_params, None)>>)
ble_gap_ppcp_get_rsp_dec(p_conn_params) ==
    Rsp("SD_BLE_GAP_PPCP_GET",
        <<sub(p_conn_params,
              <<uint16("min_conn_interval"), uint16("max_conn_interval"),
                uint16("slave_latency"), uint16("conn_sup_timeout")>>)>>)
ble_gap_ppcp_set_req_enc(p_conn_params) ==
    Req("SD_BLE_GAP_PPCP_SET",
        <<cond(p_conn_params,
               Both(<<uint16("min_conn_interval"), uint16("max_conn_interval"),
                      uint16("slave_latency"), uint16("conn_sup_timeout")>>))>>)
ble_gap_ppcp_set_rsp_dec == Rsp("SD_BLE_GAP_PPCP_SET", <<>>)
ble_gap_rssi_get_req_enc(conn_handle, p_rssi) ==
    Req("SD_BLE_GAP_RSSI_GET", <<uint16(conn_handle), cond(p_rssi, None)>>)
ble_gap_rssi_get_rsp_dec(p_rssi) == Rsp("SD_BLE_GAP_RSSI_GET", <<uint8(p_rssi)>>)
ble_gap_rssi_start_req_enc(conn_handle, threshold_dbm, skip_count) ==
    Req("SD_BLE_GAP_RSSI_START",
        <<uint16(conn_handle), uint8(threshold_dbm), uint8(skip_count)>>)
ble_gap_rssi_start_rsp_dec == Rsp("SD_BLE_GAP_RSSI_START", <<>>)
ble_gap_rssi_stop_req_enc(conn_handle) == Req("SD_BLE_GAP_RSSI_STOP", <<uint16(conn_handle)>>)
ble_gap_rssi_stop_rsp_dec == Rsp("SD_BLE_GAP_RSSI_STOP", <<>>)
ble_gap_scan_start_req_enc(p_scan_params) ==
    Req("SD_BLE_GAP_SCAN_START", <<cond(p_scan_params, S!ble_gap_scan_params_t)>>)
ble_gap_scan_start_rsp_dec == Rsp("SD_BLE_GAP_SCAN_START", <<>>)
ble_gap_scan_stop_req_enc == Req("SD_BLE_GAP_SCAN_STOP", <<>>)
ble_gap_scan_stop_rsp_dec == Rsp("SD_BLE_GAP_SCAN_STOP", <<>>)
ble_gap_sec_info_reply_req_enc(conn_handle, p_enc_info, p_id_info, p_sign_info) ==
    Req("SD_BLE_GAP_SEC_INFO_REPLY",
        <<uint16(conn_handle),
          cond(p_enc_info, Both(<<uint8array("ltk", "BLE_GAP_SEC_KEY_LEN"),
                                  bits(8, [auth |-> up(0), ltk_len |-> up(1)])>>)),
          cond(p_id_info, S!ble_gap_irk),
          cond(p_sign_info, Both(<<uint8array("csrk", "BLE_GAP_SEC_KEY_LEN")>>))>>)
ble_gap_sec_info_reply_rsp_dec == Rsp("SD_BLE_GAP_SEC_INFO_REPLY", <<>>)
ble_gap_sec_params_reply_req_enc(conn_handle, sec_status, p_sec_params, p_sec_keyset) ==
    Req("SD_BLE_GAP_SEC_PARAMS_REPLY",
        <<uint16(conn_handle), uint8(sec_status), cond(p_sec_params, S!ble_gap_sec_params_t),
          cond(p_sec_keyset, S!ble_gap_sec_keyset_t)>>)
ble_gap_sec_params_reply_rsp_dec(p_sec_keyset) ==
    Rsp("SD_BLE_GAP_SEC_PARAMS_REPLY", <<cond(p_sec_keyset, S!ble_gap_sec_keyset_t)>>)
ble_gap_tx_power_set_req_enc(tx_power) == Req("SD_BLE_GAP_TX_POWER_SET", <<uint8(tx_power)>>)
ble_gap_tx_power_set_rsp_dec == Rsp("SD_BLE_GAP_TX_POWER_SET", <<>>)
ble_gattc_attr_info_discover_req_enc(conn_handle, p_handle_range) ==
    Req("SD_BLE_GATTC_ATTR_INFO_DISCOVER",
        <<uint16(conn_handle), cond(p_handle_range, S!ble_gattc_handle_range_t)>>)
ble_gattc_attr_info_discover_rsp_dec == Rsp("SD_BLE_GATTC_ATTR_INFO_DISCOVER", <<>>)
ble_gattc_char_value_by_uuid_read_req_enc(conn_handle, p_uuid, p_handle_range) ==
    Req("SD_BLE_GATTC_CHAR_VALUE_BY_UUID_READ",
        <<uint16(conn_handle), cond(p_uuid, S!ble_uuid_t),
          cond(p_handle_range, S!ble_gattc_handle_range_t)>>)
ble_gattc_char_value_by_uuid_read_rsp_dec == Rsp("SD_BLE_GATTC_CHAR_VALUE_BY_UUID_READ", <<>>)
ble_gattc_char_values_read_req_enc(conn_handle, p_handles, handle_count) ==
    Req("SD_BLE_GATTC_CHAR_VALUES_READ",
        <<uint16(conn_handle), len16data16(p_handles, handle_count)>>)
ble_gattc_char_values_read_rsp_dec == Rsp("SD_BLE_GATTC_CHAR_VALUES_READ", <<>>)
ble_gattc_characteristics_discover_req_enc(conn_handle, p_handle_range) ==
    Req("SD_BLE_GATTC_CHARACTERISTICS_DISCOVER",
        <<uint16(conn_handle),
          cond(p_handle_range, Both(<<uint16("start_handle"), uint16("end_handle")>>))>>)
ble_gattc_characteristics_discover_rsp_dec == Rsp("SD_BLE_GATTC_CHARACTERISTICS_DISCOVER", <<>>)
ble_gattc_descriptors_discover_req_enc(conn_handle, p_handle_range) ==
    Req("SD_BLE_GATTC_DESCRIPTORS_DISCOVER",
        <<uint16(conn_handle),
          cond(p_handle_range, Both(<<uint16("start_handle"), uint16("end_handle")>>))>>)
ble_gattc_descriptors_discover_rsp_dec == Rsp("SD_BLE_GATTC_DESCRIPTORS_DISCOVER", <<>>)
ble_gattc_evt_attr_info_disc_rsp_dec ==
    Evt("none", "gattc",
        <<uint16("conn_handle"), uint16("gatt_status"), uint16("error_handle"),
          field("attr_info_disc_rsp", S!ble_gattc_evt_attr_info_disc_rsp_t)>>)
ble_gattc_evt_char_disc_rsp_dec ==
    Evt("BLE_GATTC_EVT_CHAR_DISC_RSP", "gattc",
        <<uint16("conn_handle"), uint16("gatt_status"), uint16("error_handle"),
          sub("char_disc_rsp",
              <<uint16("count"),
                each("chars", Both(<<sub("uuid", <<uint16("uuid"), uint8("type")>>),
                                     sub("char_props",
                                         <<bits(8, [broadcast |-> {0}, read |-> {1},
                                                    write_wo_resp |-> {2}, write |-> {3},
                                                    notify |-> {4}, indicate |-> {5},
                                                    auth_signed_wr |-> {6}])>>),
                                     bits(8, [char_ext_props |-> {0}]), uint16("handle_decl"),
                                     uint16("handle_value")>>), "count")>>)>>)
ble_gattc_evt_char_val_by_uuid_read_rsp_dec ==
    Evt("BLE_GATTC_EVT_CHAR_VAL_BY_UUID_READ_RSP", "gattc",
        <<uint16("conn_handle"), uint16("gatt_status"), uint16("error_handle"),
          field("char_val_by_uuid_read_rsp", S!ble_gattc_evt_char_val_by_uuid_read_rsp_t)>>)
ble_gattc_evt_char_vals_read_rsp_dec ==
    Evt("BLE_GATTC_EVT_CHAR_VALS_READ_RSP", "gattc",
        <<uint16("conn_handle"), uint16("gatt_status"), uint16("error_handle"),
          field("char_vals_read_rsp", S!ble_gattc_evt_char_vals_read_rsp_t)>>)
ble_gattc_evt_desc_disc_rsp_dec ==
    Evt("BLE_GATTC_EVT_DESC_DISC_RSP", "gattc",
        <<uint16("conn_handle"), uint16("gatt_status"), uint16("error_handle"),
          sub("desc_disc_rsp",
              <<uint16("count"),
                each("descs", Both(<<uint16("handle"),
                                     sub("uuid", <<uint16("uuid"), uint8("type")>>)>>),
                     "count")>>)>>)
ble_gattc_evt_hvx_dec ==
    Evt("BLE_GATTC_EVT_HVX", "gattc",
        <<uint16("conn_handle"), uint16("gatt_status"), uint16("error_handle"),
          sub("hvx", <<uint16("handle"), uint8("type"), uint16("len"),
                       uint8array("data", "len")>>)>>)
ble_gattc_evt_prim_srvc_disc_rsp_dec ==
    Evt("BLE_GATTC_EVT_PRIM_SRVC_DISC_RSP", "gattc",
        <<uint16("conn_handle"), uint16("gatt_status"), uint16("error_handle"),
          sub("prim_srvc_disc_rsp",
              <<uint16("count"),
                each("services", Both(<<sub("uuid", <<uint16("uuid"), uint8("type")>>),
                                        sub("handle_range",
                                            <<uint16("start_handle"),
                                              uint16("end_handle")>>)>>), "count")>>)>>)
ble_gattc_evt_read_rsp_dec ==
    Evt("BLE_GATTC_EVT_READ_RSP", "gattc",
        <<uint16("conn_handle"), uint16("gatt_status"), uint16("error_handle"),
          sub("read_rsp", <<uint16("handle"), uint16("offset"), uint16("len"),
                            uint8array("data", "len")>>)>>)
ble_gattc_evt_rel_disc_rsp_dec ==
    Evt("BLE_GATTC_EVT_REL_DISC_RSP", "gattc",
        <<uint16("conn_handle"), uint16("gatt_status"), uint16("error_handle"),
          field("rel_disc_rsp", S!ble_gattc_evt_rel_disc_rsp_t)>>)
ble_gattc_evt_timeout_dec ==
    Evt("BLE_GATTC_EVT_TIMEOUT", "gattc",
        <<uint16("conn_handle"), sub("timeout", <<uint8("src")>>)>>)
ble_gattc_evt_write_rsp_dec ==
    Evt("BLE_GATTC_EVT_WRITE_RSP", "gattc",
        <<uint16("conn_handle"), uint16("gatt_status"), uint16("error_handle"),
          sub("write_rsp", <<uint16("handle"), uint8("write_op"), uint16("offset"),
                             uint16("len"), uint8array("data", "len")>>)>>)
ble_gattc_hv_confirm_req_enc(conn_handle, handle) ==
    Req("SD_BLE_GATTC_HV_CONFIRM", <<uint16(conn_handle), uint16(handle)>>)
ble_gattc_hv_confirm_rsp_dec == Rsp("SD_BLE_GATTC_HV_CONFIRM", <<>>)
ble_gattc_primary_services_discover_req_enc(conn_handle, start_handle, p_srvc_uuid) ==
    Req("SD_BLE_GATTC_PRIMARY_SERVICES_DISCOVER",
        <<uint16(conn_handle), uint16(start_handle),
          cond(p_srvc_uuid, Both(<<uint16("uuid"), uint8("type")>>))>>)
ble_gattc_primary_services_discover_rsp_dec ==
    Rsp("SD_BLE_GATTC_PRIMARY_SERVICES_DISCOVER", <<>>)
ble_gattc_read_req_enc(conn_handle, handle, offset) ==
    Req("SD_BLE_GATTC_READ", <<uint16(conn_handle), uint16(handle), uint16(offset)>>)
ble_gattc_read_rsp_dec == Rsp("SD_BLE_GATTC_READ", <<>>)
ble_gattc_relationships_discover_req_enc(conn_handle, p_handle_range) ==
    Req("SD_BLE_GATTC_RELATIONSHIPS_DISCOVER",
        <<uint16(conn_handle),
          cond(p_handle_range, Both(<<uint16("start_handle"), uint16("end_handle")>>))>>)
ble_gattc_relationships_discover_rsp_dec == Rsp("SD_BLE_GATTC_RELATIONSHIPS_DISCOVER", <<>>)
ble_gattc_write_req_enc(conn_handle, p_write_params) ==
    Req("SD_BLE_GATTC_WRITE",
        <<uint16(conn_handle),
          cond(p_write_params,
               Both(<<uint8("write_op"), uint8("flags"), uint16("handle"), uint16("offset"),
                      uint16("len"), limit("len", "BLE_GATTC_WRITE_P_VALUE_LEN_MAX"),
                      buf("p_value", "len")>>))>>)
ble_gattc_write_rsp_dec == Rsp("SD_BLE_GATTC_WRITE", <<>>)
ble_gatts_attr_get_req_enc(handle, p_uuid, p_md) ==
    Req("SD_BLE_GATTS_ATTR_GET", <<uint16(handle), cond(p_uuid, None), cond(p_md, None)>>)
ble_gatts_attr_get_rsp_dec(pp_uuid, pp_md) ==
    Rsp("SD_BLE_GATTS_ATTR_GET",
        <<cond(pp_uuid, S!ble_uuid_t), cond(pp_md, S!ble_gatts_attr_md)>>)
ble_gatts_characteristic_add_req_enc(service_handle, p_char_md, p_attr_char_value, p_handles) ==
    Req("SD_BLE_GATTS_CHARACTERISTIC_ADD",
        <<uint16(service_handle), cond(p_char_md, S!ble_gatts_char_md),
          cond(p_attr_char_value, S!ble_gatts_attr), cond(p_handles, None)>>)
ble_gatts_characteristic_add_rsp_dec(pp_handles) ==
    Rsp("SD_BLE_GATTS_CHARACTERISTIC_ADD", <<cond(pp_handles, S!ble_gatts_char_handles)>>)
ble_gatts_descriptor_add_req_enc(char_handle, p_attr, p_handle) ==
    Req("SD_BLE_GATTS_DESCRIPTOR_ADD",
        <<uint16(char_handle), cond(p_attr, S!ble_gatts_attr), cond(p_handle, None)>>)
ble_gatts_descriptor_add_rsp_dec(p_handle) ==
    Rsp("SD_BLE_GATTS_DESCRIPTOR_ADD", <<uint16(p_handle)>>)
ble_gatts_evt_hvc_dec ==
    Evt("BLE_GATTS_EVT_HVC", "gatts",
        <<uint16("conn_handle"), sub("hvc", <<uint16("handle")>>)>>)
ble_gatts_evt_rw_authorize_request_dec ==
    Evt("BLE_GATTS_EVT_RW_AUTHORIZE_REQUEST", "gatts",
        <<uint16("conn_handle"),
          field("authorize_request", S!ble_gatts_evt_rw_authorize_request_t),
          given("user_mem", <<len16data("user_mem", "len")>>)>>)
ble_gatts_evt_sc_confirm_dec ==
    Evt("BLE_GATTS_EVT_SC_CONFIRM", "gatts", <<uint16("conn_handle")>>)
ble_gatts_evt_sys_attr_missing_dec ==
    Evt("BLE_GATTS_EVT_SYS_ATTR_MISSING", "gap",
        <<uint16("conn_handle"), sub("sys_attr_missing", <<uint8("hint")>>)>>)
ble_gatts_evt_timeout_dec ==
    Evt("BLE_GATTS_EVT_TIMEOUT", "gatts",
        <<uint16("conn_handle"), sub("timeout", <<uint8("src")>>)>>)
ble_gatts_evt_write_dec ==
    Evt("none", "gatts",
        <<uint16("conn_handle"), field("write", S!ble_gatts_evt_write_t),
          given("user_mem", <<len16data("user_mem", "len")>>)>>)
ble_gatts_hvx_req_enc(conn_handle, p_hvx_params) ==
    Req("SD_BLE_GATTS_HVX",
        <<uint16(conn_handle),
          cond(p_hvx_params,
               Both(<<needs("p_data", "p_len"), uint16("handle"), uint8("type"),
                      uint16("offset"), limit("p_len", "BLE_GATTS_VAR_ATTR_LEN_MAX"),
                      cond("p_len", uint16_t), buf("p_data", "p_len")>>))>>)
ble_gatts_hvx_rsp_dec(pp_bytes_written) ==
    Rsp("SD_BLE_GATTS_HVX", <<cond(pp_bytes_written, uint16_t)>>)
ble_gatts_include_add_req_enc(service_handle, inc_srvc_handle, p_include_handle) ==
    Req("SD_BLE_GATTS_INCLUDE_ADD",
        <<uint16(service_handle), uint16(inc_srvc_handle), cond(p_include_handle, None)>>)
ble_gatts_include_add_rsp_dec(p_include_handle) ==
    Rsp("SD_BLE_GATTS_INCLUDE_ADD", <<uint16(p_include_handle)>>)
ble_gatts_initial_user_handle_get_req_enc(p_handle) ==
    Req("SD_BLE_GATTS_INITIAL_USER_HANDLE_GET", <<cond(p_handle, None)>>)
ble_gatts_initial_user_handle_get_rsp_dec(pp_handle) ==
    Rsp("SD_BLE_GATTS_INITIAL_USER_HANDLE_GET", <<cond(pp_handle, uint16_t)>>)
ble_gatts_rw_authorize_reply_req_enc(conn_handle, p_reply_params) ==
    Req("SD_BLE_GATTS_RW_AUTHORIZE_REPLY",
        <<uint16(conn_handle), cond(p_reply_params, S!ble_gatts_rw_authorize_reply_params_t)>>)
ble_gatts_rw_authorize_reply_rsp_dec == Rsp("SD_BLE_GATTS_RW_AUTHORIZE_REPLY", <<>>)
ble_gatts_service_add_req_enc(type, p_uuid, p_conn_handle) ==
    Req("SD_BLE_GATTS_SERVICE_ADD",
        <<uint8(type), cond(p_uuid, Both(<<uint16("uuid"), uint8(type)>>)),
          cond(p_conn_handle, None)>>)
ble_gatts_service_add_rsp_dec(p_conn_handle) ==
    Rsp("SD_BLE_GATTS_SERVICE_ADD", <<uint16(p_conn_handle)>>)
ble_gatts_service_changed_req_enc(conn_handle, start_handle, end_handle) ==
    Req("SD_BLE_GATTS_SERVICE_CHANGED",
        <<uint16(conn_handle), uint16(start_handle), uint16(end_handle)>>)
ble_gatts_service_changed_rsp_dec == Rsp("SD_BLE_GATTS_SERVICE_CHANGED", <<>>)
ble_gatts_sys_attr_get_req_enc(conn_handle, p_sys_attr_data, p_sys_attr_data_len, flags) ==
    Req("SD_BLE_GATTS_SYS_ATTR_GET",
        <<uint16(conn_handle), cond(p_sys_attr_data_len, uint16_t), cond(p_sys_attr_data, None),
          uint32(flags)>>)
ble_gatts_sys_attr_get_rsp_dec(p_sys_attr_data, p_sys_attr_data_len) ==
    Rsp("SD_BLE_GATTS_SYS_ATTR_GET",
        <<uint16(p_sys_attr_data_len), buf(p_sys_attr_data, "sys_attr_data_len")>>)
ble_gatts_sys_attr_set_req_enc(conn_handle, p_sys_attr_data, sys_attr_data_len, flags) ==
    Req("SD_BLE_GATTS_SYS_ATTR_SET",
        <<uint16(conn_handle), cond(p_sys_attr_data, None),
          given(p_sys_attr_data,
                <<limit(sys_attr_data_len, "BLE_GATTS_VAR_ATTR_LEN_MAX"),
                  uint16(sys_attr_data_len), uint8array(p_sys_attr_data, sys_attr_data_len)>>),
          uint32(flags)>>)
ble_gatts_sys_attr_set_rsp_dec == Rsp("SD_BLE_GATTS_SYS_ATTR_SET", <<>>)
ble_gatts_value_get_req_enc(conn_handle, handle, p_value) ==
    Req("SD_BLE_GATTS_VALUE_GET",
        <<uint16(conn_handle), uint16(handle),
          cond(p_value, Both(<<uint16("len"), uint16("offset"), cond(p_value, None)>>))>>)
ble_gatts_value_get_rsp_dec(p_value) ==
    Rsp("SD_BLE_GATTS_VALUE_GET", <<field(p_value, S!ble_gatts_value_t)>>)
ble_gatts_value_set_req_enc(conn_handle, handle, p_value) ==
    Req("SD_BLE_GATTS_VALUE_SET",
        <<uint16(conn_handle), uint16(handle),
          given(p_value, <<sub(p_value, <<limit("len", "BLE_GATTS_VAR_ATTR_LEN_MAX")>>)>>),
          cond(p_value, S!ble_gatts_value_t)>>)
ble_gatts_value_set_rsp_dec(p_value) ==
    Rsp("SD_BLE_GATTS_VALUE_SET", <<field(p_value, S!ble_gatts_value_t)>>)
ble_l2cap_evt_rx_dec ==
    Evt("none", "l2cap",
        <<uint16("evt_id"), uint16("conn_handle"), field("rx", S!ble_l2cap_evt_rx_t)>>)
ble_opt_get_req_enc(opt_id, p_opt) ==
    Req("SD_BLE_OPT_GET", <<uint32(opt_id), cond(p_opt, None)>>)
ble_opt_get_rsp_dec(p_opt_id, p_opt) ==
    Rsp("SD_BLE_OPT_GET", <<uint32(p_opt_id),
                            select(p_opt_id, p_opt,
                              [BLE_COMMON_OPT_CONN_BW |-> member("common_opt", "conn_bw", S!ble_common_opt_conn_bw_t),
                               BLE_GAP_OPT_CH_MAP |-> member("gap_opt", "ch_map", S!ble_gap_opt_ch_map_t),
                               BLE_GAP_OPT_LOCAL_CONN_LATENCY |-> member("gap_opt", "local_conn_latency", S!ble_gap_opt_local_conn_latency_t),
                               BLE_GAP_OPT_PASSKEY |-> member("gap_opt", "passkey", S!ble_gap_opt_passkey_t),
                               BLE_GAP_OPT_PRIVACY |-> member("gap_opt", "privacy", S!ble_gap_opt_privacy_t),
                               BLE_GAP_OPT_SCAN_REQ_REPORT |-> member("gap_opt", "scan_req_report", S!ble_gap_opt_scan_req_report_t),
                               BLE_GAP_OPT_COMPAT_MODE |-> member("gap_opt", "compat_mode", S!ble_gap_opt_compat_mode_t)])>>)
ble_opt_set_req_enc(opt_id, p_opt) ==
    Req("SD_BLE_OPT_SET", <<uint32(opt_id), cond(p_opt, None),
                            given(p_opt, <<select(opt_id, p_opt,
                              [BLE_COMMON_OPT_CONN_BW |-> member("common_opt", "conn_bw", S!ble_common_opt_conn_bw_t),
                               BLE_GAP_OPT_CH_MAP |-> member("gap_opt", "ch_map", S!ble_gap_opt_ch_map_t),
                               BLE_GAP_OPT_LOCAL_CONN_LATENCY |-> member("gap_opt", "local_conn_latency", S!ble_gap_opt_local_conn_latency_t),
                               BLE_GAP_OPT_PASSKEY |-> member("gap_opt", "passkey", S!ble_gap_opt_passkey_t),
                               BLE_GAP_OPT_PRIVACY |-> member("gap_opt", "privacy", S!ble_gap_opt_privacy_t),
                               BLE_GAP_OPT_SCAN_REQ_REPORT |-> member("gap_opt", "scan_req_report", S!ble_gap_opt_scan_req_report_t),
                               BLE_GAP_OPT_COMPAT_MODE |-> member("gap_opt", "compat_mode", S!ble_gap_opt_compat_mode_t)])>>)>>)
ble_opt_set_rsp_dec == Rsp("SD_BLE_OPT_SET", <<>>)
ble_tx_packet_count_get_req_enc(conn_handle, p_count) ==
    Req("SD_BLE_TX_PACKET_COUNT_GET", <<uint16(conn_handle), cond(p_count, None)>>)
ble_tx_packet_count_get_rsp_dec(pp_count) ==
    Rsp("SD_BLE_TX_PACKET_COUNT_GET", <<cond(pp_count, uint8_t)>>)
ble_user_mem_reply_req_enc(conn_handle, p_block) ==
    Req("SD_BLE_USER_MEM_REPLY",
        <<uint16(conn_handle), cond(p_block, Both(<<uint16("len"), cond("p_mem", None)>>))>>)
ble_user_mem_reply_rsp_dec == Rsp("SD_BLE_USER_MEM_REPLY", <<>>)
ble_uuid_decode_req_enc(uuid_le_len, p_uuid_le, p_uuid) ==
    Req("SD_BLE_UUID_DECODE", <<len8data(p_uuid_le, uuid_le_len), cond(p_uuid, None)>>)
ble_uuid_decode_rsp_dec(pp_uuid) == Rsp("SD_BLE_UUID_DECODE", <<cond(pp_uuid, S!ble_uuid_t)>>)
ble_uuid_encode_req_enc(p_uuid, p_uuid_le_len, p_uuid_le) ==
    Req("SD_BLE_UUID_ENCODE",
        <<cond(p_uuid, Both(<<uint16("uuid"), uint8("type")>>)), cond(p_uuid_le_len, None),
          cond(p_uuid_le, None)>>)
ble_uuid_encode_rsp_dec(p_uuid_le_len, p_uuid_le) ==
    Rsp("SD_BLE_UUID_ENCODE",
        <<uint8(p_uuid_le_len),
          given(p_uuid_le_len,
                <<given(p_uuid_le, <<uint8array(p_uuid_le, "uuid_le_len")>>)>>)>>)
ble_uuid_vs_add_req_enc(p_vs_uuid, p_uuid_type) ==
    Req("SD_BLE_UUID_VS_ADD", <<cond(p_vs_uuid, S!ble_uuid128_t), cond(p_uuid_type, None)>>)
ble_uuid_vs_add_rsp_dec(pp_uuid_type) ==
    Rsp("SD_BLE_UUID_VS_ADD", <<cond(pp_uuid_type, uint8_t)>>)
ble_version_get_req_enc(p_version) == Req("SD_BLE_VERSION_GET", <<cond(p_version, None)>>)
ble_version_get_rsp_dec(p_version) ==
    Rsp("SD_BLE_VERSION_GET",
        <<sub(p_version, <<uint8("version_number"), uint16("company_id"),
                           uint16("subversion_number")>>)>>)

ble_event_dec ==
    [BLE_EVT_TX_COMPLETE |-> ble_evt_tx_complete_dec,
     BLE_EVT_USER_MEM_REQUEST |-> ble_evt_user_mem_request_dec,
     BLE_EVT_USER_MEM_RELEASE |-> ble_evt_user_mem_release_dec,
     BLE_GAP_EVT_PASSKEY_DISPLAY |-> ble_gap_evt_passkey_display_dec,
     BLE_GAP_EVT_AUTH_KEY_REQUEST |-> ble_gap_evt_auth_key_request_dec,
     BLE_GAP_EVT_CONN_PARAM_UPDATE |-> ble_gap_evt_conn_param_update_dec,
     BLE_GAP_EVT_CONN_PARAM_UPDATE_REQUEST |-> ble_gap_evt_conn_param_update_request_dec,
     BLE_GAP_EVT_CONN_SEC_UPDATE |-> ble_gap_evt_conn_sec_update_dec,
     BLE_GAP_EVT_CONNECTED |-> ble_gap_evt_connected_dec,
     BLE_GAP_EVT_DISCONNECTED |-> ble_gap_evt_disconnected_dec,
     BLE_GAP_EVT_TIMEOUT |-> ble_gap_evt_timeout_dec,
     BLE_GAP_EVT_RSSI_CHANGED |-> ble_gap_evt_rssi_changed_dec,
     BLE_GAP_EVT_SEC_INFO_REQUEST |-> ble_gap_evt_sec_info_request_dec,
     BLE_GAP_EVT_SEC_PARAMS_REQUEST |-> ble_gap_evt_sec_params_request_dec,
     BLE_GAP_EVT_AUTH_STATUS |-> ble_gap_evt_auth_status_dec,
     BLE_GAP_EVT_SEC_REQUEST |-> ble_gap_evt_sec_request_dec,
     BLE_GAP_EVT_KEY_PRESSED |-> ble_gap_evt_key_pressed_dec,
     BLE_GAP_EVT_LESC_DHKEY_REQUEST |-> ble_gap_evt_lesc_dhkey_request_dec,
     BLE_GATTC_EVT_CHAR_DISC_RSP |-> ble_gattc_evt_char_disc_rsp_dec,
     BLE_GATTC_EVT_CHAR_VAL_BY_UUID_READ_RSP |-> ble_gattc_evt_char_val_by_uuid_read_rsp_dec,
     BLE_GATTC_EVT_DESC_DISC_RSP |-> ble_gattc_evt_desc_disc_rsp_dec,
     BLE_GATTC_EVT_PRIM_SRVC_DISC_RSP |-> ble_gattc_evt_prim_srvc_disc_rsp_dec,
     BLE_GATTC_EVT_READ_RSP |-> ble_gattc_evt_read_rsp_dec,
     BLE_GATTC_EVT_HVX |-> ble_gattc_evt_hvx_dec,
     BLE_GATTC_EVT_TIMEOUT |-> ble_gattc_evt_timeout_dec,
     BLE_GATTC_EVT_WRITE_RSP |-> ble_gattc_evt_write_rsp_dec,
     BLE_GATTC_EVT_CHAR_VALS_READ_RSP |-> ble_gattc_evt_char_vals_read_rsp_dec,
     BLE_GATTC_EVT_REL_DISC_RSP |-> ble_gattc_evt_rel_disc_rsp_dec,
     BLE_GATTC_EVT_ATTR_INFO_DISC_RSP |-> ble_gattc_evt_attr_info_disc_rsp_dec,
     BLE_GATTS_EVT_WRITE |-> ble_gatts_evt_write_dec,
     BLE_GATTS_EVT_TIMEOUT |-> ble_gatts_evt_timeout_dec,
     BLE_GATTS_EVT_SC_CONFIRM |-> ble_gatts_evt_sc_confirm_dec,
     BLE_GATTS_EVT_HVC |-> ble_gatts_evt_hvc_dec,
     BLE_GATTS_EVT_SYS_ATTR_MISSING |-> ble_gatts_evt_sys_attr_missing_dec,
     BLE_GATTS_EVT_RW_AUTHORIZE_REQUEST |-> ble_gatts_evt_rw_authorize_request_dec,
     BLE_L2CAP_EVT_RX |-> ble_l2cap_evt_rx_dec,
     BLE_GAP_EVT_ADV_REPORT |-> ble_gap_evt_adv_report_dec,
     BLE_GAP_EVT_SCAN_REQ_REPORT |-> ble_gap_evt_scan_req_report_dec]
=============================================================================
