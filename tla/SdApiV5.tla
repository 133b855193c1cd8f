------------------------------ MODULE SdApiV5 -------------------------------
(*****************************************************************************)
(* API version 5: the codecs of each function and event.  The formal         *)
(* parameters of a codec are the arguments the caller passes; S has the codecs *)
(* of structures.                                                            *)
(*****************************************************************************)
EXTENDS SerFormat

S == INSTANCE SerStructs WITH NRF_SD_BLE_API_VERSION <- 5

ble_enable_req_enc == Req("SD_BLE_ENABLE", <<>>)
ble_enable_rsp_dec == Rsp("SD_BLE_ENABLE", <<>>)
ble_opt_get_req_enc(opt_id, p_opt) ==
    Req("SD_BLE_OPT_GET", <<uint32(opt_id), cond(p_opt, None)>>)
ble_opt_get_rsp_dec(p_opt_id, p_opt) ==
    Rsp("SD_BLE_OPT_GET", <<uint32(p_opt_id),
                            select(p_opt_id, p_opt,
                              [BLE_COMMON_OPT_PA_LNA |-> member("common_opt", "pa_lna", S!ble_common_opt_pa_lna_t),
                               BLE_COMMON_OPT_CONN_EVT_EXT |-> member("common_opt", "conn_evt_ext", S!ble_common_opt_conn_evt_ext_t),
                               BLE_GAP_OPT_CH_MAP |-> member("gap_opt", "ch_map", S!ble_gap_opt_ch_map_t),
                               BLE_GAP_OPT_LOCAL_CONN_LATENCY |-> member("gap_opt", "local_conn_latency", S!ble_gap_opt_local_conn_latency_t),
                               BLE_GAP_OPT_PASSKEY |-> member("gap_opt", "passkey", S!ble_gap_opt_passkey_t),
                               BLE_GAP_OPT_AUTH_PAYLOAD_TIMEOUT |-> member("gap_opt", "auth_payload_timeout", S!ble_gap_opt_auth_payload_timeout_t),
                               BLE_GAP_OPT_SCAN_REQ_REPORT |-> member("gap_opt", "scan_req_report", S!ble_gap_opt_scan_req_report_t),
                               BLE_GAP_OPT_COMPAT_MODE_1 |-> member("gap_opt", "compat_mode_1", S!ble_gap_opt_compat_mode_1_t)])>>)
ble_opt_set_req_enc(opt_id, p_opt) ==
    Req("SD_BLE_OPT_SET", <<uint32(opt_id), cond(p_opt, None),
                            given(p_opt, <<select(opt_id, p_opt,
                              [BLE_COMMON_OPT_PA_LNA |-> member("common_opt", "pa_lna", S!ble_common_opt_pa_lna_t),
                               BLE_COMMON_OPT_CONN_EVT_EXT |-> member("common_opt", "conn_evt_ext", S!ble_common_opt_conn_evt_ext_t),
                               BLE_GAP_OPT_CH_MAP |-> member("gap_opt", "ch_map", S!ble_gap_opt_ch_map_t),
                               BLE_GAP_OPT_LOCAL_CONN_LATENCY |-> member("gap_opt", "local_conn_latency", S!ble_gap_opt_local_conn_latency_t),
                               BLE_GAP_OPT_PASSKEY |-> member("gap_opt", "passkey", S!ble_gap_opt_passkey_t),
                               BLE_GAP_OPT_AUTH_PAYLOAD_TIMEOUT |-> member("gap_opt", "auth_payload_timeout", S!ble_gap_opt_auth_payload_timeout_t),
                               BLE_GAP_OPT_SCAN_REQ_REPORT |-> member("gap_opt", "scan_req_report", S!ble_gap_opt_scan_req_report_t),
                               BLE_GAP_OPT_COMPAT_MODE_1 |-> member("gap_opt", "compat_mode_1", S!ble_gap_opt_compat_mode_1_t),
                               BLE_GAP_OPT_SLAVE_LATENCY_DISABLE |-> member("gap_opt", "slave_latency_disable", S!ble_gap_opt_slave_latency_disable_t)])>>)>>)
ble_opt_set_rsp_dec == Rsp("SD_BLE_OPT_SET", <<>>)
ble_user_mem_reply_req_enc(conn_handle, p_block) ==
    Req("SD_BLE_USER_MEM_REPLY", <<uint16(conn_handle), cond(p_block, S!ble_user_mem_block_t)>>)
ble_user_mem_reply_rsp_dec == Rsp("SD_BLE_USER_MEM_REPLY", <<>>)
ble_uuid_decode_req_enc(uuid_le_len, p_uuid_le, p_uuid) ==
    Req("SD_BLE_UUID_DECODE", <<len8data(p_uuid_le, uuid_le_len), cond(p_uuid, None)>>)
ble_uuid_decode_rsp_dec(pp_uuid) == Rsp("SD_BLE_UUID_DECODE", <<cond(pp_uuid, S!ble_uuid_t)>>)
ble_uuid_encode_req_enc(p_uuid, p_uuid_le_len, p_uuid_le) ==
    Req("SD_BLE_UUID_ENCODE",
        <<cond(p_uuid, S!ble_uuid_t), cond(p_uuid_le_len, None), cond(p_uuid_le, None)>>)
ble_uuid_encode_rsp_dec(p_uuid_le_len, p_uuid_le) ==
    Rsp("SD_BLE_UUID_ENCODE",
        <<uint8(p_uuid_le_len),
          given(p_uuid_le_len,
                <<given(p_uuid_le, <<uint8array(p_uuid_le, "uuid_le_len")>>)>>)>>)
ble_uuid_vs_add_req_enc(p_vs_uuid, p_uuid_type) ==
    Req("SD_BLE_UUID_VS_ADD", <<cond(p_vs_uuid, S!ble_uuid128_t), cond(p_uuid_type, None)>>)
ble_uuid_vs_add_rsp_dec(pp_uuid_type) ==
    Rsp("SD_BLE_UUID_VS_ADD", <<cond(pp_uuid_type, uint8_t)>>)
ble_version_get_req_enc(p_version) == Req("SD_BLE_VERSION_GET", <<cond(p_version, None)>>)
ble_version_get_rsp_dec(p_version) ==
    Rsp("SD_BLE_VERSION_GET", <<field(p_version, S!ble_version_t)>>)
ble_cfg_set_req_enc(cfg_id, p_cfg) ==
    Req("SD_BLE_CFG_SET", <<uint32(cfg_id), cond(p_cfg, None),
                            given(p_cfg, <<select(cfg_id, p_cfg,
                              [BLE_CONN_CFG_GAP |-> tagged("gap_conn_cfg", S!ble_gap_conn_cfg_t),
                               BLE_CONN_CFG_GATTC |-> tagged("gattc_conn_cfg", S!ble_gattc_conn_cfg_t),
                               BLE_CONN_CFG_GATTS |-> tagged("gatts_conn_cfg", S!ble_gatts_conn_cfg_t),
                               BLE_CONN_CFG_GATT |-> tagged("gatt_conn_cfg", S!ble_gatt_conn_cfg_t),
                               BLE_CONN_CFG_L2CAP |-> untagged("l2cap_conn_cfg", S!ble_l2cap_conn_cfg_t),
                               BLE_COMMON_CFG_VS_UUID |-> member("common_cfg", "vs_uuid_cfg", S!ble_common_cfg_vs_uuid_t),
                               BLE_GAP_CFG_ROLE_COUNT |-> member("gap_cfg", "role_count_cfg", S!ble_gap_cfg_role_count_t),
                               BLE_GAP_CFG_DEVICE_NAME |-> member("gap_cfg", "device_name_cfg", S!ble_gap_cfg_device_name_t),
                               BLE_GATTS_CFG_SERVICE_CHANGED |-> member("gatts_cfg", "service_changed", S!ble_gatts_cfg_service_changed_t),
                               BLE_GATTS_CFG_ATTR_TAB_SIZE |-> member("gatts_cfg", "attr_tab_size", S!ble_gatts_cfg_attr_tab_size_t)])>>)>>)
ble_cfg_set_rsp_dec == Rsp("SD_BLE_CFG_SET", <<>>)
ble_evt_user_mem_release_dec ==
    Evt("BLE_EVT_USER_MEM_RELEASE", "common",
        <<uint16("conn_handle"),
          sub("user_mem_release",
              <<uint8("type"),
                sub("mem_block", <<uint16("len"), cond("p_mem", None), recall("p_mem")>>)>>)>>)
ble_evt_user_mem_request_dec ==
    Evt("BLE_EVT_USER_MEM_REQUEST", "common",
        <<uint16("conn_handle"), sub("user_mem_request", <<uint8("type")>>)>>)
ble_gap_adv_data_set_req_enc(p_data, dlen, p_sr_data, srdlen) ==
    Req("SD_BLE_GAP_ADV_DATA_SET", <<len8data(p_data, dlen), len8data(p_sr_data, srdlen)>>)
ble_gap_adv_data_set_rsp_dec == Rsp("SD_BLE_GAP_ADV_DATA_SET", <<>>)
ble_gap_adv_start_req_enc(p_adv_params, conn_cfg_tag) ==
    Req("SD_BLE_GAP_ADV_START",
        <<cond(p_adv_params, S!ble_gap_adv_params_t), uint8(conn_cfg_tag)>>)
ble_gap_adv_start_rsp_dec == Rsp("SD_BLE_GAP_ADV_START", <<>>)
ble_gap_adv_stop_req_enc == Req("SD_BLE_GAP_ADV_STOP", <<>>)
ble_gap_adv_stop_rsp_dec == Rsp("SD_BLE_GAP_ADV_STOP", <<>>)
ble_gap_appearance_get_req_enc(p_appearance) ==
    Req("SD_BLE_GAP_APPEARANCE_GET", <<cond(p_appearance, None)>>)
ble_gap_appearance_get_rsp_dec(p_appearance) ==
    Rsp("SD_BLE_GAP_APPEARANCE_GET", <<cond(p_appearance, uint16_t)>>)
ble_gap_appearance_set_req_enc(appearance) ==
    Req("SD_BLE_GAP_APPEARANCE_SET", <<uint16(appearance)>>)
ble_gap_appearance_set_rsp_dec == Rsp("SD_BLE_GAP_APPEARANCE_SET", <<>>)
ble_gap_auth_key_reply_req_enc(conn_handle, key_type, p_key) ==
    Req("SD_BLE_GAP_AUTH_KEY_REPLY",
        <<limit(key_type, "BLE_GAP_AUTH_KEY_TYPE_OOB"), uint16(conn_handle), uint8(key_type),
          buf(p_key, "key_len")>>)
ble_gap_auth_key_reply_rsp_dec == Rsp("SD_BLE_GAP_AUTH_KEY_REPLY", <<>>)
ble_gap_authenticate_req_enc(conn_handle, p_sec_params) ==
    Req("SD_BLE_GAP_AUTHENTICATE",
        <<uint16(conn_handle), cond(p_sec_params, S!ble_gap_sec_params_t)>>)
ble_gap_authenticate_rsp_dec == Rsp("SD_BLE_GAP_AUTHENTICATE", <<>>)
ble_gap_conn_param_update_req_enc(conn_handle, p_conn_params) ==
    Req("SD_BLE_GAP_CONN_PARAM_UPDATE",
        <<uint16(conn_handle), cond(p_conn_params, S!ble_gap_conn_params_t)>>)
ble_gap_conn_param_update_rsp_dec == Rsp("SD_BLE_GAP_CONN_PARAM_UPDATE", <<>>)
ble_gap_conn_sec_get_req_enc(conn_handle, p_conn_sec) ==
    Req("SD_BLE_GAP_CONN_SEC_GET", <<uint16(conn_handle), cond(p_conn_sec, None)>>)
ble_gap_conn_sec_get_rsp_dec(pp_conn_sec) ==
    Rsp("SD_BLE_GAP_CONN_SEC_GET", <<cond(pp_conn_sec, S!ble_gap_conn_sec_t)>>)
ble_gap_connect_req_enc(p_peer_addr, p_scan_params, p_conn_params, conn_cfg_tag) ==
    Req("SD_BLE_GAP_CONNECT",
        <<cond(p_peer_addr, S!ble_gap_addr_t), cond(p_scan_params, S!ble_gap_scan_params_t),
          cond(p_conn_params, S!ble_gap_conn_params_t), uint8(conn_cfg_tag)>>)
ble_gap_connect_rsp_dec == Rsp("SD_BLE_GAP_CONNECT", <<>>)
ble_gap_connect_cancel_req_enc == Req("SD_BLE_GAP_CONNECT_CANCEL", <<>>)
ble_gap_connect_cancel_rsp_dec == Rsp("SD_BLE_GAP_CONNECT_CANCEL", <<>>)
ble_gap_device_name_get_req_enc(p_dev_name, p_len) ==
    Req("SD_BLE_GAP_DEVICE_NAME_GET", <<cond(p_len, uint16_t), cond(p_dev_name, None)>>)
ble_gap_device_name_get_rsp_dec(p_dev_name, p_dev_name_len) ==
    Rsp("SD_BLE_GAP_DEVICE_NAME_GET",
        <<cond(p_dev_name_len, uint16_t),
          given(p_dev_name_len, <<uint8array(p_dev_name, "dev_name_len")>>)>>)
ble_gap_device_name_set_req_enc(p_write_perm, p_dev_name, len) ==
    Req("SD_BLE_GAP_DEVICE_NAME_SET",
        <<limit(len, "BLE_GAP_DEVNAME_MAX_LEN"), cond(p_write_perm, S!ble_gap_conn_sec_mode_t),
          len16data(p_dev_name, len)>>)
ble_gap_device_name_set_rsp_dec == Rsp("SD_BLE_GAP_DEVICE_NAME_SET", <<>>)
ble_gap_disconnect_req_enc(conn_handle, hci_status_code) ==
    Req("SD_BLE_GAP_DISCONNECT", <<uint16(conn_handle), uint8(hci_status_code)>>)
ble_gap_disconnect_rsp_dec == Rsp("SD_BLE_GAP_DISCONNECT", <<>>)
ble_gap_encrypt_req_enc(conn_handle, p_master_id, p_enc_info) ==
    Req("SD_BLE_GAP_ENCRYPT",
        <<uint16(conn_handle), cond(p_master_id, S!ble_gap_master_id_t),
          cond(p_enc_info, S!ble_gap_enc_info_t)>>)
ble_gap_encrypt_rsp_dec == Rsp("SD_BLE_GAP_ENCRYPT", <<>>)
ble_gap_keypress_notify_req_enc(conn_handle, kp_not) ==
    Req("SD_BLE_GAP_KEYPRESS_NOTIFY", <<uint16(conn_handle), uint8(kp_not)>>)
ble_gap_keypress_notify_rsp_dec == Rsp("SD_BLE_GAP_KEYPRESS_NOTIFY", <<>>)
ble_gap_lesc_dhkey_reply_req_enc(conn_handle, p_dhkey) ==
    Req("SD_BLE_GAP_LESC_DHKEY_REPLY",
        <<uint16(conn_handle), cond(p_dhkey, S!ble_gap_lesc_dhkey_t)>>)
ble_gap_lesc_dhkey_reply_rsp_dec == Rsp("SD_BLE_GAP_LESC_DHKEY_REPLY", <<>>)
ble_gap_lesc_oob_data_get_req_enc(conn_handle, p_pk_own, p_oobd_own) ==
    Req("SD_BLE_GAP_LESC_OOB_DATA_GET",
        <<uint16(conn_handle), cond(p_pk_own, S!ble_gap_lesc_p256_pk_t),
          cond(p_oobd_own, None)>>)
ble_gap_lesc_oob_data_get_rsp_dec(pp_oobd_own) ==
    Rsp("SD_BLE_GAP_LESC_OOB_DATA_GET", <<cond(pp_oobd_own, S!ble_gap_lesc_oob_data_t)>>)
ble_gap_lesc_oob_data_set_req_enc(conn_handle, p_oobd_own, p_oobd_peer) ==
    Req("SD_BLE_GAP_LESC_OOB_DATA_SET",
        <<uint16(conn_handle), cond(p_oobd_own, S!ble_gap_lesc_oob_data_t),
          cond(p_oobd_peer, S!ble_gap_lesc_oob_data_t)>>)
ble_gap_lesc_oob_data_set_rsp_dec == Rsp("SD_BLE_GAP_LESC_OOB_DATA_SET", <<>>)
ble_gap_ppcp_get_req_enc(p_conn_params) ==
    Req("SD_BLE_GAP_PPCP_GET", <<cond(p_conn_params, None)>>)
ble_gap_ppcp_get_rsp_dec(p_conn_params) ==
    Rsp("SD_BLE_GAP_PPCP_GET", <<cond(p_conn_params, S!ble_gap_conn_params_t)>>)
ble_gap_ppcp_set_req_enc(p_conn_params) ==
    Req("SD_BLE_GAP_PPCP_SET", <<cond(p_conn_params, S!ble_gap_conn_params_t)>>)
ble_gap_ppcp_set_rsp_dec == Rsp("SD_BLE_GAP_PPCP_SET", <<>>)
ble_gap_rssi_get_req_enc(conn_handle, p_rssi) ==
    Req("SD_BLE_GAP_RSSI_GET", <<uint16(conn_handle), cond(p_rssi, None)>>)
ble_gap_rssi_get_rsp_dec(p_rssi) == Rsp("SD_BLE_GAP_RSSI_GET", <<cond(p_rssi, uint8_t)>>)
ble_gap_rssi_start_req_enc(conn_handle, threshold_dbm, skip_count) ==
    Req("SD_BLE_GAP_RSSI_START",
        <<uint16(conn_handle), uint8(threshold_dbm), uint8(skip_count)>>)
ble_gap_rssi_start_rsp_dec == Rsp("SD_BLE_GAP_RSSI_START", <<>>)
ble_gap_rssi_stop_req_enc(conn_handle) == Req("SD_BLE_GAP_RSSI_STOP", <<uint16(conn_handle)>>)
ble_gap_rssi_stop_rsp_dec == Rsp("SD_BLE_GAP_RSSI_STOP", <<>>)
ble_gap_scan_start_req_enc(p_scan_params) ==
    Req("SD_BLE_GAP_SCAN_START", <<cond(p_scan_params, S!ble_gap_scan_params_t)>>)
ble_gap_scan_start_rsp_dec == Rsp("SD_BLE_GAP_SCAN_START", <<>>)
ble_gap_scan_stop_req_enc == Req("SD_BLE_GAP_SCAN_STOP", <<>>)
ble_gap_scan_stop_rsp_dec == Rsp("SD_BLE_GAP_SCAN_STOP", <<>>)
ble_gap_sec_info_reply_req_enc(conn_handle, p_enc_info, p_id_info, p_sign_info) ==
    Req("SD_BLE_GAP_SEC_INFO_REPLY",
        <<uint16(conn_handle), cond(p_enc_info, S!ble_gap_enc_info_t),
          cond(p_id_info, S!ble_gap_irk_t), cond(p_sign_info, S!ble_gap_sign_info_t)>>)
ble_gap_sec_info_reply_rsp_dec == Rsp("SD_BLE_GAP_SEC_INFO_REPLY", <<>>)
ble_gap_sec_params_reply_req_enc(conn_handle, sec_status, p_sec_params, p_sec_keyset) ==
    Req("SD_BLE_GAP_SEC_PARAMS_REPLY",
        <<uint16(conn_handle), uint8(sec_status), cond(p_sec_params, S!ble_gap_sec_params_t),
          cond(p_sec_keyset, S!ble_gap_sec_keyset_t)>>)
ble_gap_sec_params_reply_rsp_dec(p_sec_keyset) ==
    Rsp("SD_BLE_GAP_SEC_PARAMS_REPLY", <<cond(p_sec_keyset, S!ble_gap_sec_keyset_t)>>)
ble_gap_tx_power_set_req_enc(tx_power) == Req("SD_BLE_GAP_TX_POWER_SET", <<uint8(tx_power)>>)
ble_gap_tx_power_set_rsp_dec == Rsp("SD_BLE_GAP_TX_POWER_SET", <<>>)
ble_gap_addr_get_req_enc(p_address) == Req("SD_BLE_GAP_ADDR_GET", <<cond(p_address, None)>>)
ble_gap_addr_get_rsp_dec(p_address) ==
    Rsp("SD_BLE_GAP_ADDR_GET", <<field(p_address, S!ble_gap_addr_t)>>)
ble_gap_addr_set_req_enc(p_addr) ==
    Req("SD_BLE_GAP_ADDR_SET", <<cond(p_addr, S!ble_gap_addr_t)>>)
ble_gap_addr_set_rsp_dec == Rsp("SD_BLE_GAP_ADDR_SET", <<>>)
ble_gap_privacy_set_req_enc(p_privacy_params) ==
    Req("SD_BLE_GAP_PRIVACY_SET", <<cond(p_privacy_params, S!ble_gap_privacy_params_t)>>)
ble_gap_privacy_set_rsp_dec == Rsp("SD_BLE_GAP_PRIVACY_SET", <<>>)
ble_gap_privacy_get_req_enc(p_privacy_params) ==
    Req("SD_BLE_GAP_PRIVACY_GET", <<cond(p_privacy_params, S!ble_gap_privacy_params_t)>>)
ble_gap_privacy_get_rsp_dec(p_privacy_params) ==
    Rsp("SD_BLE_GAP_PRIVACY_GET", <<cond(p_privacy_params, S!ble_gap_privacy_params_t)>>)
ble_gap_whitelist_set_req_enc(pp_wl_addrs, len) ==
    Req("SD_BLE_GAP_WHITELIST_SET",
        <<uint8(len), cond(pp_wl_addrs, None),
          given(pp_wl_addrs, <<each(pp_wl_addrs, Both(<<cond("", S!ble_gap_addr_t)>>),
                                    len)>>)>>)
ble_gap_whitelist_set_rsp_dec == Rsp("SD_BLE_GAP_WHITELIST_SET", <<>>)
ble_gap_device_identities_set_req_enc(pp_id_keys, pp_local_irks, len) ==
    Req("SD_BLE_GAP_DEVICE_IDENTITIES_SET",
        <<uint8(len), cond(pp_id_keys, None),
          given(pp_id_keys, <<each(pp_id_keys, Both(<<cond("", S!ble_gap_id_key_t)>>), len)>>),
          cond(pp_local_irks, None),
          given(pp_local_irks,
                <<each(pp_local_irks, Both(<<cond("", S!ble_gap_irk_t)>>), len)>>)>>)
ble_gap_device_identities_set_rsp_dec == Rsp("SD_BLE_GAP_DEVICE_IDENTITIES_SET", <<>>)
ble_gap_data_length_update_req_enc(conn_handle, p_dl_params, p_dl_limitation) ==
    Req("SD_BLE_GAP_DATA_LENGTH_UPDATE",
        <<uint16(conn_handle), cond(p_dl_params, S!ble_gap_data_length_params_t),
          cond(p_dl_limitation, None)>>)
ble_gap_data_length_update_rsp_dec(p_dl_limitation) ==
    Rsp("SD_BLE_GAP_DATA_LENGTH_UPDATE",
        <<cond(p_dl_limitation, S!ble_gap_data_length_limitation_t)>>)
ble_gap_phy_update_req_enc(conn_handle, p_gap_phys) ==
    Req("SD_BLE_GAP_PHY_UPDATE", <<uint16(conn_handle), cond(p_gap_phys, S!ble_gap_phys_t)>>)
ble_gap_phy_update_rsp_dec == Rsp("SD_BLE_GAP_PHY_UPDATE", <<>>)
ble_gap_evt_adv_report_dec ==
    Evt("BLE_GAP_EVT_ADV_REPORT", "gap",
        <<uint16("conn_handle"), field("adv_report", S!ble_gap_evt_adv_report_t)>>)
ble_gap_evt_auth_key_request_dec ==
    Evt("BLE_GAP_EVT_AUTH_KEY_REQUEST", "gap",
        <<uint16("conn_handle"), sub("auth_key_request", <<uint8("key_type")>>)>>)
ble_gap_evt_auth_status_dec ==
    Evt("BLE_GAP_EVT_AUTH_STATUS", "gap",
        <<uint16("conn_handle"), field("auth_status", S!ble_gap_evt_auth_status_t),
          given("keyset", <<field("keyset", S!ble_gap_sec_keyset_t)>>)>>)
ble_gap_evt_conn_param_update_dec ==
    Evt("BLE_GAP_EVT_CONN_PARAM_UPDATE", "gap",
        <<uint16("conn_handle"),
          field("conn_param_update", S!ble_gap_evt_conn_param_update_t)>>)
ble_gap_evt_conn_param_update_request_dec ==
    Evt("BLE_GAP_EVT_CONN_PARAM_UPDATE_REQUEST", "gap",
        <<uint16("conn_handle"),
          field("conn_param_update_request", S!ble_gap_evt_conn_param_update_request_t)>>)
ble_gap_evt_conn_sec_update_dec ==
    Evt("BLE_GAP_EVT_CONN_PARAM_UPDATE_REQUEST", "gap",
        <<uint16("conn_handle"), field("conn_sec_update", S!ble_gap_evt_conn_sec_update_t)>>)
ble_gap_evt_connected_dec ==
    Evt("BLE_GAP_EVT_CONNECTED", "gap",
        <<uint16("conn_handle"), field("connected", S!ble_gap_evt_connected_t)>>)
ble_gap_evt_disconnected_dec ==
    Evt("BLE_GAP_EVT_DISCONNECTED", "gap",
        <<uint16("conn_handle"), field("disconnected", S!ble_gap_evt_disconnected_t)>>)
ble_gap_evt_key_pressed_dec ==
    Evt("BLE_GAP_EVT_KEY_PRESSED", "gap",
        <<uint16("conn_handle"), sub("key_pressed", <<uint8("kp_not")>>)>>)
ble_gap_evt_lesc_dhkey_request_dec ==
    Evt("BLE_GAP_EVT_LESC_DHKEY_REQUEST", "gap",
        <<uint16("conn_handle"),
          sub("lesc_dhkey_request",
              <<cond("p_pk_peer", S!ble_gap_lesc_p256_pk_t), bits(8, [oobd_req |-> {0}])>>)>>)
ble_gap_evt_passkey_display_dec ==
    Evt("BLE_GAP_EVT_PASSKEY_DISPLAY", "gap",
        <<uint16("conn_handle"),
          sub("passkey_display",
              <<uint8array("passkey", "BLE_GAP_PASSKEY_LEN"),
                bits(8, [match_request |-> {0}])>>)>>)
ble_gap_evt_rssi_changed_dec ==
    Evt("BLE_GAP_EVT_RSSI_CHANGED", "gap",
        <<uint16("conn_handle"), sub("rssi_changed", <<uint8("rssi")>>)>>)
ble_gap_evt_scan_req_report_dec ==
    Evt("BLE_GAP_EVT_SCAN_REQ_REPORT", "gap",
        <<uint16("conn_handle"),
          sub("scan_req_report", <<field("peer_addr", S!ble_gap_addr_t), uint8("rssi")>>)>>)
ble_gap_evt_sec_info_request_dec ==
    Evt("BLE_GAP_EVT_SEC_INFO_REQUEST", "gap",
        <<uint16("conn_handle"), field("sec_info_request", S!ble_gap_evt_sec_info_request_t)>>)
ble_gap_evt_sec_params_request_dec ==
    Evt("BLE_GAP_EVT_SEC_PARAMS_REQUEST", "gap",
        <<uint16("conn_handle"),
          field("sec_params_request", S!ble_gap_evt_sec_params_request_t)>>)
ble_gap_evt_sec_request_dec ==
    Evt("BLE_GAP_EVT_SEC_REQUEST", "gap",
        <<uint16("conn_handle"), field("sec_request", S!ble_gap_evt_sec_request_t)>>)
ble_gap_evt_timeout_dec ==
    Evt("BLE_GAP_EVT_TIMEOUT", "gap",
        <<uint16("conn_handle"), sub("timeout", <<uint8("src")>>)>>)
ble_gap_evt_phy_update_dec ==
    Evt("BLE_GAP_EVT_PHY_UPDATE", "gap",
        <<uint16("conn_handle"),
          sub("phy_update", <<uint8("status"), uint8("tx_phy"), uint8("rx_phy")>>)>>)
ble_gap_evt_phy_update_request_dec ==
    Evt("BLE_GAP_EVT_PHY_UPDATE_REQUEST", "gap",
        <<uint16("conn_handle"),
          sub("phy_update_request", <<field("peer_preferred_phys", S!ble_gap_phys_t)>>)>>)
ble_gap_evt_data_length_update_request_dec ==
    Evt("BLE_GAP_EVT_DATA_LENGTH_UPDATE_REQUEST", "gap",
        <<uint16("conn_handle"),
          sub("data_length_update_request",
              <<field("peer_params", S!ble_gap_data_length_params_t)>>)>>)
ble_gap_evt_data_length_update_dec ==
    Evt("BLE_GAP_EVT_DATA_LENGTH_UPDATE", "gap",
        <<uint16("conn_handle"),
          sub("data_length_update",
              <<field("effective_params", S!ble_gap_data_length_params_t)>>)>>)
ble_gattc_attr_info_discover_req_enc(conn_handle, p_handle_range) ==
    Req("SD_BLE_GATTC_ATTR_INFO_DISCOVER",
        <<uint16(conn_handle), cond(p_handle_range, S!ble_gattc_handle_range_t)>>)
ble_gattc_attr_info_discover_rsp_dec == Rsp("SD_BLE_GATTC_ATTR_INFO_DISCOVER", <<>>)
ble_gattc_char_value_by_uuid_read_req_enc(conn_handle, p_uuid, p_handle_range) ==
    Req("SD_BLE_GATTC_CHAR_VALUE_BY_UUID_READ",
        <<uint16(conn_handle), cond(p_uuid, S!ble_uuid_t),
          cond(p_handle_range, S!ble_gattc_handle_range_t)>>)
ble_gattc_char_value_by_uuid_read_rsp_dec == Rsp("SD_BLE_GATTC_CHAR_VALUE_BY_UUID_READ", <<>>)
ble_gattc_char_values_read_req_enc(conn_handle, p_handles, handle_count) ==
    Req("SD_BLE_GATTC_CHAR_VALUES_READ",
        <<uint16(conn_handle), len16data16(p_handles, handle_count)>>)
ble_gattc_char_values_read_rsp_dec == Rsp("SD_BLE_GATTC_CHAR_VALUES_READ", <<>>)
ble_gattc_characteristics_discover_req_enc(conn_handle, p_handle_range) ==
    Req("SD_BLE_GATTC_CHARACTERISTICS_DISCOVER",
        <<uint16(conn_handle), cond(p_handle_range, S!ble_gattc_handle_range_t)>>)
ble_gattc_characteristics_discover_rsp_dec == Rsp("SD_BLE_GATTC_CHARACTERISTICS_DISCOVER", <<>>)
ble_gattc_descriptors_discover_req_enc(conn_handle, p_handle_range) ==
    Req("SD_BLE_GATTC_DESCRIPTORS_DISCOVER",
        <<uint16(conn_handle), cond(p_handle_range, S!ble_gattc_handle_range_t)>>)
ble_gattc_descriptors_discover_rsp_dec == Rsp("SD_BLE_GATTC_DESCRIPTORS_DISCOVER", <<>>)
ble_gattc_hv_confirm_req_enc(conn_handle, handle) ==
    Req("SD_BLE_GATTC_HV_CONFIRM", <<uint16(conn_handle), uint16(handle)>>)
ble_gattc_hv_confirm_rsp_dec == Rsp("SD_BLE_GATTC_HV_CONFIRM", <<>>)
ble_gattc_primary_services_discover_req_enc(conn_handle, start_handle, p_srvc_uuid) ==
    Req("SD_BLE_GATTC_PRIMARY_SERVICES_DISCOVER",
        <<uint16(conn_handle), uint16(start_handle), cond(p_srvc_uuid, S!ble_uuid_t)>>)
ble_gattc_primary_services_discover_rsp_dec ==
    Rsp("SD_BLE_GATTC_PRIMARY_SERVICES_DISCOVER", <<>>)
ble_gattc_read_req_enc(conn_handle, handle, offset) ==
    Req("SD_BLE_GATTC_READ", <<uint16(conn_handle), uint16(handle), uint16(offset)>>)
ble_gattc_read_rsp_dec == Rsp("SD_BLE_GATTC_READ", <<>>)
ble_gattc_relationships_discover_req_enc(conn_handle, p_handle_range) ==
    Req("SD_BLE_GATTC_RELATIONSHIPS_DISCOVER",
        <<uint16(conn_handle), cond(p_handle_range, S!ble_gattc_handle_range_t)>>)
ble_gattc_relationships_discover_rsp_dec == Rsp("SD_BLE_GATTC_RELATIONSHIPS_DISCOVER", <<>>)
ble_gattc_write_req_enc(conn_handle, p_write_params) ==
    Req("SD_BLE_GATTC_WRITE",
        <<uint16(conn_handle), cond(p_write_params, S!ble_gattc_write_params_t)>>)
ble_gattc_write_rsp_dec == Rsp("SD_BLE_GATTC_WRITE", <<>>)
ble_gattc_exchange_mtu_request_req_enc(conn_handle, client_rx_mtu) ==
    Req("SD_BLE_GATTC_EXCHANGE_MTU_REQUEST", <<uint16(conn_handle), uint16(client_rx_mtu)>>)
ble_gattc_exchange_mtu_request_rsp_dec == Rsp("SD_BLE_GATTC_EXCHANGE_MTU_REQUEST", <<>>)
ble_gattc_evt_attr_info_disc_rsp_dec ==
    Evt("BLE_GATTC_EVT_ATTR_INFO_DISC_RSP", "gattc",
        <<uint16("conn_handle"), uint16("gatt_status"), uint16("error_handle"),
          field("attr_info_disc_rsp", S!ble_gattc_evt_attr_info_disc_rsp_t)>>)
ble_gattc_evt_char_disc_rsp_dec ==
    Evt("BLE_GATTC_EVT_CHAR_DISC_RSP", "gattc",
        <<uint16("conn_handle"), uint16("gatt_status"), uint16("error_handle"),
          field("char_disc_rsp", S!ble_gattc_evt_char_disc_rsp_t)>>)
ble_gattc_evt_char_val_by_uuid_read_rsp_dec ==
    Evt("BLE_GATTC_EVT_CHAR_VAL_BY_UUID_READ_RSP", "gattc",
        <<uint16("conn_handle"), uint16("gatt_status"), uint16("error_handle"),
          field("char_val_by_uuid_read_rsp", S!ble_gattc_evt_char_val_by_uuid_read_rsp_t)>>)
ble_gattc_evt_char_vals_read_rsp_dec ==
    Evt("BLE_GATTC_EVT_CHAR_VALS_READ_RSP", "gattc",
        <<uint16("conn_handle"), uint16("gatt_status"), uint16("error_handle"),
          field("char_vals_read_rsp", S!ble_gattc_evt_char_vals_read_rsp_t)>>)
ble_gattc_evt_desc_disc_rsp_dec ==
    Evt("BLE_GATTC_EVT_DESC_DISC_RSP", "gattc",
        <<uint16("conn_handle"), uint16("gatt_status"), uint16("error_handle"),
          field("desc_disc_rsp", S!ble_gattc_evt_desc_disc_rsp_t)>>)
ble_gattc_evt_hvx_dec ==
    Evt("BLE_GATTC_EVT_HVX", "gattc",
        <<uint16("conn_handle"), uint16("gatt_status"), uint16("error_handle"),
          field("hvx", S!ble_gattc_evt_hvx_t)>>)
ble_gattc_evt_prim_srvc_disc_rsp_dec ==
    Evt("BLE_GATTC_EVT_PRIM_SRVC_DISC_RSP", "gattc",
        <<uint16("conn_handle"), uint16("gatt_status"), uint16("error_handle"),
          field("prim_srvc_disc_rsp", S!ble_gattc_evt_prim_srvc_disc_rsp_t)>>)
ble_gattc_evt_read_rsp_dec ==
    Evt("BLE_GATTC_EVT_READ_RSP", "gattc",
        <<uint16("conn_handle"), uint16("gatt_status"), uint16("error_handle"),
          field("read_rsp", S!ble_gattc_evt_read_rsp_t)>>)
ble_gattc_evt_rel_disc_rsp_dec ==
    Evt("BLE_GATTC_EVT_READ_RSP", "gattc",
        <<uint16("conn_handle"), uint16("gatt_status"), uint16("error_handle"),
          field("rel_disc_rsp", S!ble_gattc_evt_rel_disc_rsp_t)>>)
ble_gattc_evt_timeout_dec ==
    Evt("BLE_GATTC_EVT_TIMEOUT", "gattc",
        <<uint16("conn_handle"), uint16("gatt_status"), uint16("error_handle"),
          field("timeout", S!ble_gattc_evt_timeout_t)>>)
ble_gattc_evt_write_rsp_dec ==
    Evt("BLE_GATTC_EVT_WRITE_RSP", "gattc",
        <<uint16("conn_handle"), uint16("gatt_status"), uint16("error_handle"),
          field("write_rsp", S!ble_gattc_evt_write_rsp_t)>>)
ble_gattc_evt_exchange_mtu_rsp_dec ==
    Evt("BLE_GATTC_EVT_EXCHANGE_MTU_RSP", "gattc",
        <<uint16("conn_handle"), uint16("gatt_status"), uint16("error_handle"),
          field("exchange_mtu_rsp", S!ble_gattc_evt_exchange_mtu_rsp_t)>>)
ble_gattc_evt_write_cmd_tx_complete_dec ==
    Evt("BLE_GATTC_EVT_WRITE_CMD_TX_COMPLETE", "gattc",
        <<uint16("conn_handle"), uint16("gatt_status"), uint16("error_handle"),
          sub("write_cmd_tx_complete", <<uint8("count")>>)>>)
ble_gatts_attr_get_req_enc(handle, p_uuid, p_md) ==
    Req("SD_BLE_GATTS_ATTR_GET", <<uint16(handle), cond(p_uuid, None), cond(p_md, None)>>)
ble_gatts_attr_get_rsp_dec(pp_uuid, pp_md) ==
    Rsp("SD_BLE_GATTS_ATTR_GET",
        <<cond(pp_uuid, S!ble_uuid_t), cond(pp_md, S!ble_gatts_attr_md_t)>>)
ble_gatts_characteristic_add_req_enc(service_handle, p_char_md, p_attr_char_value, p_handles) ==
    Req("SD_BLE_GATTS_CHARACTERISTIC_ADD",
        <<uint16(service_handle), cond(p_char_md, S!ble_gatts_char_md_t),
          cond(p_attr_char_value, S!ble_gatts_attr_t), cond(p_handles, None)>>)
ble_gatts_characteristic_add_rsp_dec(pp_handles) ==
    Rsp("SD_BLE_GATTS_CHARACTERISTIC_ADD", <<cond(pp_handles, S!ble_gatts_char_handles_t)>>)
ble_gatts_descriptor_add_req_enc(char_handle, p_attr, p_handle) ==
    Req("SD_BLE_GATTS_DESCRIPTOR_ADD",
        <<uint16(char_handle), cond(p_attr, S!ble_gatts_attr_t), cond(p_handle, None)>>)
ble_gatts_descriptor_add_rsp_dec(p_handle) ==
    Rsp("SD_BLE_GATTS_DESCRIPTOR_ADD", <<cond(p_handle, uint16_t)>>)
ble_gatts_hvx_req_enc(conn_handle, p_hvx_params) ==
    Req("SD_BLE_GATTS_HVX",
        <<uint16(conn_handle), cond(p_hvx_params, S!ble_gatts_hvx_params_t)>>)
ble_gatts_hvx_rsp_dec(pp_bytes_written) ==
    Rsp("SD_BLE_GATTS_HVX", <<cond(pp_bytes_written, uint16_t)>>)
ble_gatts_include_add_req_enc(service_handle, inc_srvc_handle, p_include_handle) ==
    Req("SD_BLE_GATTS_INCLUDE_ADD",
        <<uint16(service_handle), uint16(inc_srvc_handle), cond(p_include_handle, None)>>)
ble_gatts_include_add_rsp_dec(p_include_handle) ==
    Rsp("SD_BLE_GATTS_INCLUDE_ADD", <<cond(p_include_handle, uint16_t)>>)
ble_gatts_initial_user_handle_get_req_enc(p_handle) ==
    Req("SD_BLE_GATTS_INITIAL_USER_HANDLE_GET", <<cond(p_handle, None)>>)
ble_gatts_initial_user_handle_get_rsp_dec(pp_handle) ==
    Rsp("SD_BLE_GATTS_INITIAL_USER_HANDLE_GET", <<cond(pp_handle, uint16_t)>>)
ble_gatts_rw_authorize_reply_req_enc(conn_handle, p_reply_params) ==
    Req("SD_BLE_GATTS_RW_AUTHORIZE_REPLY",
        <<uint16(conn_handle), cond(p_reply_params, S!ble_gatts_rw_authorize_reply_params_t)>>)
ble_gatts_rw_authorize_reply_rsp_dec == Rsp("SD_BLE_GATTS_RW_AUTHORIZE_REPLY", <<>>)
ble_gatts_service_add_req_enc(type, p_uuid, p_conn_handle) ==
    Req("SD_BLE_GATTS_SERVICE_ADD",
        <<uint8(type), cond(p_uuid, S!ble_uuid_t), cond(p_conn_handle, None)>>)
ble_gatts_service_add_rsp_dec(p_conn_handle) ==
    Rsp("SD_BLE_GATTS_SERVICE_ADD", <<cond(p_conn_handle, uint16_t)>>)
ble_gatts_service_changed_req_enc(conn_handle, start_handle, end_handle) ==
    Req("SD_BLE_GATTS_SERVICE_CHANGED",
        <<uint16(conn_handle), uint16(start_handle), uint16(end_handle)>>)
ble_gatts_service_changed_rsp_dec == Rsp("SD_BLE_GATTS_SERVICE_CHANGED", <<>>)
ble_gatts_sys_attr_get_req_enc(conn_handle, p_sys_attr_data, p_sys_attr_data_len, flags) ==
    Req("SD_BLE_GATTS_SYS_ATTR_GET",
        <<uint16(conn_handle), cond(p_sys_attr_data_len, uint16_t), cond(p_sys_attr_data, None),
          uint32(flags)>>)
ble_gatts_sys_attr_get_rsp_dec(pp_sys_attr_data, pp_sys_attr_data_len) ==
    Rsp("SD_BLE_GATTS_SYS_ATTR_GET",
        <<cond(pp_sys_attr_data_len, uint16_t),
          given(pp_sys_attr_data_len, <<buf(pp_sys_attr_data, "sys_attr_data_len")>>)>>)
ble_gatts_sys_attr_set_req_enc(conn_handle, p_sys_attr_data, sys_attr_data_len, flags) ==
    Req("SD_BLE_GATTS_SYS_ATTR_SET",
        <<uint16(conn_handle), len16data(p_sys_attr_data, sys_attr_data_len), uint32(flags)>>)
ble_gatts_sys_attr_set_rsp_dec == Rsp("SD_BLE_GATTS_SYS_ATTR_SET", <<>>)
ble_gatts_value_get_req_enc(conn_handle, handle, p_value) ==
    Req("SD_BLE_GATTS_VALUE_GET",
        <<uint16(conn_handle), uint16(handle),
          cond(p_value, Both(<<uint16("offset"), uint16("len"), cond(p_value, None)>>))>>)
ble_gatts_value_get_rsp_dec(p_value) ==
    Rsp("SD_BLE_GATTS_VALUE_GET", <<cond(p_value, S!ble_gatts_value_t)>>)
ble_gatts_value_set_req_enc(conn_handle, handle, p_value) ==
    Req("SD_BLE_GATTS_VALUE_SET",
        <<uint16(conn_handle), uint16(handle), cond(p_value, S!ble_gatts_value_t)>>)
ble_gatts_value_set_rsp_dec(p_value) ==
    Rsp("SD_BLE_GATTS_VALUE_SET", <<cond(p_value, S!ble_gatts_value_t)>>)
ble_gatts_exchange_mtu_reply_req_enc(conn_handle, server_rx_mtu) ==
    Req("SD_BLE_GATTS_EXCHANGE_MTU_REPLY", <<uint16(conn_handle), uint16(server_rx_mtu)>>)
ble_gatts_exchange_mtu_reply_rsp_dec == Rsp("SD_BLE_GATTS_EXCHANGE_MTU_REPLY", <<>>)
ble_gatts_evt_hvc_dec ==
    Evt("BLE_GATTS_EVT_HVC", "gatts",
        <<uint16("conn_handle"), field("hvc", S!ble_gatts_evt_hvc_t)>>)
ble_gatts_evt_rw_authorize_request_dec ==
    Evt("BLE_GATTS_EVT_HVC", "gatts",
        <<uint16("conn_handle"),
          field("authorize_request", S!ble_gatts_evt_rw_authorize_request_t),
          given("user_mem", <<len16data("user_mem", "len")>>)>>)
ble_gatts_evt_sc_confirm_dec ==
    Evt("BLE_GATTS_EVT_SC_CONFIRM", "gatts", <<uint16("conn_handle")>>)
ble_gatts_evt_sys_attr_missing_dec ==
    Evt("BLE_GATTS_EVT_SYS_ATTR_MISSING", "gatts",
        <<uint16("conn_handle"),
          field("sys_attr_missing", S!ble_gatts_evt_sys_attr_missing_t)>>)
ble_gatts_evt_timeout_dec ==
    Evt("BLE_GATTS_EVT_TIMEOUT", "gatts",
        <<uint16("conn_handle"), field("timeout", S!ble_gatts_evt_timeout_t)>>)
ble_gatts_evt_write_dec ==
    Evt("BLE_GATTS_EVT_WRITE", "gatts",
        <<uint16("conn_handle"), field("write", S!ble_gatts_evt_write_t),
          given("user_mem", <<len16data("user_mem", "len")>>)>>)
ble_gatts_evt_exchange_mtu_request_dec ==
    Evt("BLE_GATTS_EVT_EXCHANGE_MTU_REQUEST", "gatts",
        <<uint16("conn_handle"),
          field("exchange_mtu_request", S!ble_gatts_evt_exchange_mtu_request_t)>>)
ble_gatts_evt_hvn_tx_complete_dec ==
    Evt("BLE_GATTS_EVT_HVN_TX_COMPLETE", "gatts",
        <<uint16("conn_handle"), sub("hvn_tx_complete", <<uint8("count")>>)>>)
ble_l2cap_evt_ch_setup_request_dec ==
    Evt("BLE_L2CAP_EVT_CH_SETUP_REQUEST", "l2cap",
        <<uint16("conn_handle"), uint16("local_cid"),
          sub("ch_setup_request",
              <<uint16("le_psm"), field("tx_params", S!ble_l2cap_ch_tx_params_t)>>)>>)
ble_l2cap_evt_ch_setup_refused_dec ==
    Evt("BLE_L2CAP_EVT_CH_SETUP_REFUSED", "l2cap",
        <<uint16("conn_handle"), uint16("local_cid"),
          sub("ch_setup_refused", <<uint8("source"), uint16("status")>>)>>)
ble_l2cap_evt_ch_setup_dec ==
    Evt("BLE_L2CAP_EVT_CH_SETUP", "l2cap",
        <<uint16("conn_handle"), uint16("local_cid"),
          sub("ch_setup", <<field("tx_params", S!ble_l2cap_ch_tx_params_t)>>)>>)
ble_l2cap_evt_ch_released_dec ==
    Evt("BLE_L2CAP_EVT_CH_RELEASED", "l2cap", <<uint16("conn_handle"), uint16("local_cid")>>)
ble_l2cap_evt_ch_sdu_buf_released_dec ==
    Evt("BLE_L2CAP_EVT_CH_SDU_BUF_RELEASED", "l2cap",
        <<uint16("conn_handle"), uint16("local_cid"),
          sub("ch_sdu_buf_released", <<sub("sdu_buf", <<uint16("len"), uint32("p_data")>>)>>)>>)
ble_l2cap_evt_ch_credit_dec ==
    Evt("BLE_L2CAP_EVT_CH_CREDIT", "l2cap",
        <<uint16("conn_handle"), uint16("local_cid"), sub("credit", <<uint16("credits")>>)>>)
ble_l2cap_evt_ch_rx_dec ==
    Evt("BLE_L2CAP_EVT_CH_RX", "l2cap",
        <<uint16("conn_handle"), uint16("local_cid"),
          sub("rx", <<uint16("sdu_len"),
                      sub("sdu_buf", <<uint16("len"), uint32("p_data"),
                                       buf("p_data", "len")>>)>>)>>)
ble_l2cap_evt_ch_tx_dec ==
    Evt("BLE_L2CAP_EVT_CH_TX", "l2cap",
        <<uint16("conn_handle"), uint16("local_cid"),
          sub("tx", <<sub("sdu_buf", <<uint16("len"), uint32("p_data")>>)>>)>>)

ble_event_dec ==
    [BLE_EVT_USER_MEM_REQUEST |-> ble_evt_user_mem_request_dec,
     BLE_EVT_USER_MEM_RELEASE |-> ble_evt_user_mem_release_dec,
     BLE_GAP_EVT_PASSKEY_DISPLAY |-> ble_gap_evt_passkey_display_dec,
     BLE_GAP_EVT_AUTH_KEY_REQUEST |-> ble_gap_evt_auth_key_request_dec,
     BLE_GAP_EVT_CONN_PARAM_UPDATE |-> ble_gap_evt_conn_param_update_dec,
     BLE_GAP_EVT_CONN_PARAM_UPDATE_REQUEST |-> ble_gap_evt_conn_param_update_request_dec,
     BLE_GAP_EVT_CONN_SEC_UPDATE |-> ble_gap_evt_conn_sec_update_dec,
     BLE_GAP_EVT_CONNECTED |-> ble_gap_evt_connected_dec,
     BLE_GAP_EVT_DISCONNECTED |-> ble_gap_evt_disconnected_dec,
     BLE_GAP_EVT_TIMEOUT |-> ble_gap_evt_timeout_dec,
     BLE_GAP_EVT_RSSI_CHANGED |-> ble_gap_evt_rssi_changed_dec,
     BLE_GAP_EVT_SEC_INFO_REQUEST |-> ble_gap_evt_sec_info_request_dec,
     BLE_GAP_EVT_SEC_PARAMS_REQUEST |-> ble_gap_evt_sec_params_request_dec,
     BLE_GAP_EVT_AUTH_STATUS |-> ble_gap_evt_auth_status_dec,
     BLE_GAP_EVT_SEC_REQUEST |-> ble_gap_evt_sec_request_dec,
     BLE_GAP_EVT_KEY_PRESSED |-> ble_gap_evt_key_pressed_dec,
     BLE_GAP_EVT_LESC_DHKEY_REQUEST |-> ble_gap_evt_lesc_dhkey_request_dec,
     BLE_GAP_EVT_PHY_UPDATE |-> ble_gap_evt_phy_update_dec,
     BLE_GAP_EVT_PHY_UPDATE_REQUEST |-> ble_gap_evt_phy_update_request_dec,
     BLE_GAP_EVT_DATA_LENGTH_UPDATE_REQUEST |-> ble_gap_evt_data_length_update_request_dec,
     BLE_GAP_EVT_DATA_LENGTH_UPDATE |-> ble_gap_evt_data_length_update_dec,
     BLE_GATTC_EVT_CHAR_DISC_RSP |-> ble_gattc_evt_char_disc_rsp_dec,
     BLE_GATTC_EVT_CHAR_VAL_BY_UUID_READ_RSP |-> ble_gattc_evt_char_val_by_uuid_read_rsp_dec,
     BLE_GATTC_EVT_DESC_DISC_RSP |-> ble_gattc_evt_desc_disc_rsp_dec,
     BLE_GATTC_EVT_PRIM_SRVC_DISC_RSP |-> ble_gattc_evt_prim_srvc_disc_rsp_dec,
     BLE_GATTC_EVT_READ_RSP |-> ble_gattc_evt_read_rsp_dec,
     BLE_GATTC_EVT_HVX |-> ble_gattc_evt_hvx_dec,
     BLE_GATTC_EVT_TIMEOUT |-> ble_gattc_evt_timeout_dec,
     BLE_GATTC_EVT_WRITE_RSP |-> ble_gattc_evt_write_rsp_dec,
     BLE_GATTC_EVT_CHAR_VALS_READ_RSP |-> ble_gattc_evt_char_vals_read_rsp_dec,
     BLE_GATTC_EVT_REL_DISC_RSP |-> ble_gattc_evt_rel_disc_rsp_dec,
     BLE_GATTC_EVT_ATTR_INFO_DISC_RSP |-> ble_gattc_evt_attr_info_disc_rsp_dec,
     BLE_GATTC_EVT_EXCHANGE_MTU_RSP |-> ble_gattc_evt_exchange_mtu_rsp_dec,
     BLE_GATTC_EVT_WRITE_CMD_TX_COMPLETE |-> ble_gattc_evt_write_cmd_tx_complete_dec,
     BLE_GATTS_EVT_WRITE |-> ble_gatts_evt_write_dec,
     BLE_GATTS_EVT_TIMEOUT |-> ble_gatts_evt_timeout_dec,
     BLE_GATTS_EVT_SC_CONFIRM |-> ble_gatts_evt_sc_confirm_dec,
     BLE_GATTS_EVT_HVC |-> ble_gatts_evt_hvc_dec,
     BLE_GATTS_EVT_SYS_ATTR_MISSING |-> ble_gatts_evt_sys_attr_missing_dec,
     BLE_GATTS_EVT_RW_AUTHORIZE_REQUEST |-> ble_gatts_evt_rw_authorize_request_dec,
     BLE_GATTS_EVT_EXCHANGE_MTU_REQUEST |-> ble_gatts_evt_exchange_mtu_request_dec,
     BLE_GATTS_EVT_HVN_TX_COMPLETE |-> ble_gatts_evt_hvn_tx_complete_dec,
     BLE_L2CAP_EVT_CH_SETUP_REQUEST |-> ble_l2cap_evt_ch_setup_request_dec,
     BLE_L2CAP_EVT_CH_SETUP_REFUSED |-> ble_l2cap_evt_ch_setup_refused_dec,
     BLE_L2CAP_EVT_CH_SETUP |-> ble_l2cap_evt_ch_setup_dec,
     BLE_L2CAP_EVT_CH_RELEASED |-> ble_l2cap_evt_ch_released_dec,
     BLE_L2CAP_EVT_CH_SDU_BUF_RELEASED |-> ble_l2cap_evt_ch_sdu_buf_released_dec,
     BLE_L2CAP_EVT_CH_CREDIT |-> ble_l2cap_evt_ch_credit_dec,
     BLE_L2CAP_EVT_CH_RX |-> ble_l2cap_evt_ch_rx_dec,
     BLE_L2CAP_EVT_CH_TX |-> ble_l2cap_evt_ch_tx_dec,
     BLE_GAP_EVT_ADV_REPORT |-> ble_gap_evt_adv_report_dec,
     BLE_GAP_EVT_SCAN_REQ_REPORT |-> ble_gap_evt_scan_req_report_dec]
=============================================================================
