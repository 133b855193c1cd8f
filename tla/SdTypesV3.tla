----------------------------- MODULE SdTypesV3 ------------------------------
(*****************************************************************************)
(* The C types of include/sd_api_v3 that the codecs rely on, and the numbers *)
(* of the functions and events.                                              *)
(*****************************************************************************)
EXTENDS SerFormat

BLE_SVC_BASE == 96
BLE_GAP_SVC_BASE == 108
BLE_GATTC_SVC_BASE == 148
BLE_GATTS_SVC_BASE == 160
BLE_L2CAP_SVC_BASE == 176
BLE_EVT_BASE == 1
BLE_GAP_EVT_BASE == 16
BLE_GATTC_EVT_BASE == 48
BLE_GATTS_EVT_BASE == 80
BLE_L2CAP_EVT_BASE == 112
BLE_COMMON_SVCS ==
    Numbered(BLE_SVC_BASE,
             <<"SD_BLE_ENABLE", "SD_BLE_EVT_GET", "SD_BLE_TX_PACKET_COUNT_GET",
               "SD_BLE_UUID_VS_ADD", "SD_BLE_UUID_DECODE", "SD_BLE_UUID_ENCODE",
               "SD_BLE_VERSION_GET", "SD_BLE_USER_MEM_REPLY", "SD_BLE_OPT_SET",
               "SD_BLE_OPT_GET">>)
BLE_COMMON_EVTS ==
    EventIds(BLE_EVT_BASE, "common",
             <<<<"BLE_EVT_TX_COMPLETE", "tx_complete">>,
               <<"BLE_EVT_USER_MEM_REQUEST", "user_mem_request">>,
               <<"BLE_EVT_USER_MEM_RELEASE", "user_mem_release">>,
               <<"BLE_EVT_DATA_LENGTH_CHANGED", "data_length_changed">>>>)
BLE_GAP_SVCS ==
    Numbered(BLE_GAP_SVC_BASE,
             <<"SD_BLE_GAP_ADDR_SET", "SD_BLE_GAP_ADDR_GET", "SD_BLE_GAP_WHITELIST_SET",
               "SD_BLE_GAP_DEVICE_IDENTITIES_SET", "SD_BLE_GAP_PRIVACY_SET",
               "SD_BLE_GAP_PRIVACY_GET", "SD_BLE_GAP_ADV_DATA_SET", "SD_BLE_GAP_ADV_START",
               "SD_BLE_GAP_ADV_STOP", "SD_BLE_GAP_CONN_PARAM_UPDATE", "SD_BLE_GAP_DISCONNECT",
               "SD_BLE_GAP_TX_POWER_SET", "SD_BLE_GAP_APPEARANCE_SET",
               "SD_BLE_GAP_APPEARANCE_GET", "SD_BLE_GAP_PPCP_SET", "SD_BLE_GAP_PPCP_GET",
               "SD_BLE_GAP_DEVICE_NAME_SET", "SD_BLE_GAP_DEVICE_NAME_GET",
               "SD_BLE_GAP_AUTHENTICATE", "SD_BLE_GAP_SEC_PARAMS_REPLY",
               "SD_BLE_GAP_AUTH_KEY_REPLY", "SD_BLE_GAP_LESC_DHKEY_REPLY",
               "SD_BLE_GAP_KEYPRESS_NOTIFY", "SD_BLE_GAP_LESC_OOB_DATA_GET",
               "SD_BLE_GAP_LESC_OOB_DATA_SET", "SD_BLE_GAP_ENCRYPT",
               "SD_BLE_GAP_SEC_INFO_REPLY", "SD_BLE_GAP_CONN_SEC_GET", "SD_BLE_GAP_RSSI_START",
               "SD_BLE_GAP_RSSI_STOP", "SD_BLE_GAP_SCAN_START", "SD_BLE_GAP_SCAN_STOP",
               "SD_BLE_GAP_CONNECT", "SD_BLE_GAP_CONNECT_CANCEL", "SD_BLE_GAP_RSSI_GET">>)
BLE_GAP_EVTS ==
    EventIds(BLE_GAP_EVT_BASE, "gap",
             <<<<"BLE_GAP_EVT_CONNECTED", "connected">>,
               <<"BLE_GAP_EVT_DISCONNECTED", "disconnected">>,
               <<"BLE_GAP_EVT_CONN_PARAM_UPDATE", "conn_param_update">>,
               <<"BLE_GAP_EVT_SEC_PARAMS_REQUEST", "sec_params_request">>,
               <<"BLE_GAP_EVT_SEC_INFO_REQUEST", "sec_info_request">>,
               <<"BLE_GAP_EVT_PASSKEY_DISPLAY", "passkey_display">>,
               <<"BLE_GAP_EVT_KEY_PRESSED", "key_pressed">>,
               <<"BLE_GAP_EVT_AUTH_KEY_REQUEST", "auth_key_request">>,
               <<"BLE_GAP_EVT_LESC_DHKEY_REQUEST", "lesc_dhkey_request">>,
               <<"BLE_GAP_EVT_AUTH_STATUS", "auth_status">>,
               <<"BLE_GAP_EVT_CONN_SEC_UPDATE", "conn_sec_update">>,
               <<"BLE_GAP_EVT_TIMEOUT", "timeout">>,
               <<"BLE_GAP_EVT_RSSI_CHANGED", "rssi_changed">>,
               <<"BLE_GAP_EVT_ADV_REPORT", "adv_report">>,
               <<"BLE_GAP_EVT_SEC_REQUEST", "sec_request">>,
               <<"BLE_GAP_EVT_CONN_PARAM_UPDATE_REQUEST", "conn_param_update_request">>,
               <<"BLE_GAP_EVT_SCAN_REQ_REPORT", "scan_req_report">>>>)
BLE_GATTC_SVCS ==
    Numbered(BLE_GATTC_SVC_BASE,
             <<"SD_BLE_GATTC_PRIMARY_SERVICES_DISCOVER", "SD_BLE_GATTC_RELATIONSHIPS_DISCOVER",
               "SD_BLE_GATTC_CHARACTERISTICS_DISCOVER", "SD_BLE_GATTC_DESCRIPTORS_DISCOVER",
               "SD_BLE_GATTC_ATTR_INFO_DISCOVER", "SD_BLE_GATTC_CHAR_VALUE_BY_UUID_READ",
               "SD_BLE_GATTC_READ", "SD_BLE_GATTC_CHAR_VALUES_READ", "SD_BLE_GATTC_WRITE",
               "SD_BLE_GATTC_HV_CONFIRM", "SD_BLE_GATTC_EXCHANGE_MTU_REQUEST">>)
BLE_GATTC_EVTS ==
    EventIds(BLE_GATTC_EVT_BASE, "gattc",
             <<<<"BLE_GATTC_EVT_PRIM_SRVC_DISC_RSP", "prim_srvc_disc_rsp">>,
               <<"BLE_GATTC_EVT_REL_DISC_RSP", "rel_disc_rsp">>,
               <<"BLE_GATTC_EVT_CHAR_DISC_RSP", "char_disc_rsp">>,
               <<"BLE_GATTC_EVT_DESC_DISC_RSP", "desc_disc_rsp">>,
               <<"BLE_GATTC_EVT_ATTR_INFO_DISC_RSP", "attr_info_disc_rsp">>,
               <<"BLE_GATTC_EVT_CHAR_VAL_BY_UUID_READ_RSP", "char_val_by_uuid_read_rsp">>,
               <<"BLE_GATTC_EVT_READ_RSP", "read_rsp">>,
               <<"BLE_GATTC_EVT_CHAR_VALS_READ_RSP", "char_vals_read_rsp">>,
               <<"BLE_GATTC_EVT_WRITE_RSP", "write_rsp">>, <<"BLE_GATTC_EVT_HVX", "hvx">>,
               <<"BLE_GATTC_EVT_EXCHANGE_MTU_RSP", "exchange_mtu_rsp">>,
               <<"BLE_GATTC_EVT_TIMEOUT", "timeout">>>>)
BLE_GATTS_SVCS ==
    Numbered(BLE_GATTS_SVC_BASE,
             <<"SD_BLE_GATTS_SERVICE_ADD", "SD_BLE_GATTS_INCLUDE_ADD",
               "SD_BLE_GATTS_CHARACTERISTIC_ADD", "SD_BLE_GATTS_DESCRIPTOR_ADD",
               "SD_BLE_GATTS_VALUE_SET", "SD_BLE_GATTS_VALUE_GET", "SD_BLE_GATTS_HVX",
               "SD_BLE_GATTS_SERVICE_CHANGED", "SD_BLE_GATTS_RW_AUTHORIZE_REPLY",
               "SD_BLE_GATTS_SYS_ATTR_SET", "SD_BLE_GATTS_SYS_ATTR_GET",
               "SD_BLE_GATTS_INITIAL_USER_HANDLE_GET", "SD_BLE_GATTS_ATTR_GET",
               "SD_BLE_GATTS_EXCHANGE_MTU_REPLY">>)
BLE_GATTS_EVTS ==
    EventIds(BLE_GATTS_EVT_BASE, "gatts",
             <<<<"BLE_GATTS_EVT_WRITE", "write">>,
               <<"BLE_GATTS_EVT_RW_AUTHORIZE_REQUEST", "authorize_request">>,
               <<"BLE_GATTS_EVT_SYS_ATTR_MISSING", "sys_attr_missing">>,
               <<"BLE_GATTS_EVT_HVC", "hvc">>, <<"BLE_GATTS_EVT_SC_CONFIRM", "">>,
               <<"BLE_GATTS_EVT_EXCHANGE_MTU_REQUEST", "exchange_mtu_request">>,
               <<"BLE_GATTS_EVT_TIMEOUT", "timeout">>>>)
BLE_L2CAP_SVCS ==
    Numbered(BLE_L2CAP_SVC_BASE,
             <<"SD_BLE_L2CAP_CID_REGISTER", "SD_BLE_L2CAP_CID_UNREGISTER", "SD_BLE_L2CAP_TX">>)
BLE_L2CAP_EVTS == EventIds(BLE_L2CAP_EVT_BASE, "l2cap", <<<<"BLE_L2CAP_EVT_RX", "rx">>>>)

ble_gap_addr_t ==
    Struct([addr_id_peer |-> Bit(1), addr_type |-> Bit(7),
            addr |-> Array("BLE_GAP_ADDR_LEN", Uint8)])
ble_gap_adv_ch_mask_t ==
    Struct([ch_37_off |-> Bit(1), ch_38_off |-> Bit(1), ch_39_off |-> Bit(1)])
ble_gap_adv_params_t ==
    Struct([type |-> Uint8, p_peer_addr |-> Ptr(ble_gap_addr_t), fp |-> Uint8,
            interval |-> Uint16, timeout |-> Uint16, channel_mask |-> ble_gap_adv_ch_mask_t])
ble_gap_conn_sec_mode_t == Struct([sm |-> Bit(4), lv |-> Bit(4)])
ble_gap_conn_params_t ==
    Struct([min_conn_interval |-> Uint16, max_conn_interval |-> Uint16,
            slave_latency |-> Uint16, conn_sup_timeout |-> Uint16])
ble_gap_enc_info_t ==
    Struct([ltk |-> Array("BLE_GAP_SEC_KEY_LEN", Uint8), lesc |-> Bit(1), auth |-> Bit(1),
            ltk_len |-> Bit(6)])
ble_gap_irk_t == Struct([irk |-> Array("BLE_GAP_SEC_KEY_LEN", Uint8)])
ble_gap_sign_info_t == Struct([csrk |-> Array("BLE_GAP_SEC_KEY_LEN", Uint8)])
ble_gap_id_key_t == Struct([id_info |-> ble_gap_irk_t, id_addr_info |-> ble_gap_addr_t])
ble_gap_privacy_params_t ==
    Struct([privacy_mode |-> Uint8, private_addr_type |-> Uint8,
            private_addr_cycle_s |-> Uint16, p_device_irk |-> Ptr(ble_gap_irk_t)])
ble_gap_sec_kdist_t == Struct([enc |-> Bit(1), id |-> Bit(1), sign |-> Bit(1), link |-> Bit(1)])
ble_gap_sec_params_t ==
    Struct([bond |-> Bit(1), mitm |-> Bit(1), lesc |-> Bit(1), keypress |-> Bit(1),
            io_caps |-> Bit(3), oob |-> Bit(1), min_key_size |-> Uint8, max_key_size |-> Uint8,
            kdist_own |-> ble_gap_sec_kdist_t, kdist_peer |-> ble_gap_sec_kdist_t])
ble_gap_conn_sec_t == Struct([sec_mode |-> ble_gap_conn_sec_mode_t, encr_key_size |-> Uint8])
ble_gap_scan_params_t ==
    Struct([active |-> Bit(1), use_whitelist |-> Bit(1), adv_dir_report |-> Bit(1),
            interval |-> Uint16, window |-> Uint16, timeout |-> Uint16])
ble_gap_master_id_t == Struct([ediv |-> Uint16, rand |-> Array("BLE_GAP_SEC_RAND_LEN", Uint8)])
ble_gap_enc_key_t ==
    Struct([enc_info |-> ble_gap_enc_info_t, master_id |-> ble_gap_master_id_t])
ble_gap_lesc_p256_pk_t == Struct([pk |-> Array("BLE_GAP_LESC_P256_PK_LEN", Uint8)])
ble_gap_sec_keys_t ==
    Struct([p_enc_key |-> Ptr(ble_gap_enc_key_t), p_id_key |-> Ptr(ble_gap_id_key_t),
            p_sign_key |-> Ptr(ble_gap_sign_info_t), p_pk |-> Ptr(ble_gap_lesc_p256_pk_t)])
ble_gap_sec_keyset_t ==
    Struct([keys_own |-> ble_gap_sec_keys_t, keys_peer |-> ble_gap_sec_keys_t])
ble_gap_lesc_oob_data_t ==
    Struct([addr |-> ble_gap_addr_t, r |-> Array("BLE_GAP_SEC_KEY_LEN", Uint8),
            c |-> Array("BLE_GAP_SEC_KEY_LEN", Uint8)])
ble_gap_lesc_dhkey_t == Struct([key |-> Array("BLE_GAP_LESC_DHKEY_LEN", Uint8)])
ble_uuid_t == Struct([uuid |-> Uint16, type |-> Uint8])
ble_gattc_handle_range_t == Struct([start_handle |-> Uint16, end_handle |-> Uint16])
ble_gattc_write_params_t ==
    Struct([write_op |-> Uint8, flags |-> Uint8, handle |-> Uint16, offset |-> Uint16,
            len |-> Uint16, p_value |-> Ptr(Uint8)])
ble_gatt_char_props_t ==
    Struct([broadcast |-> Bit(1), read |-> Bit(1), write_wo_resp |-> Bit(1), write |-> Bit(1),
            notify |-> Bit(1), indicate |-> Bit(1), auth_signed_wr |-> Bit(1)])
ble_gatt_char_ext_props_t == Struct([reliable_wr |-> Bit(1), wr_aux |-> Bit(1)])
ble_gatts_char_pf_t ==
    Struct([format |-> Uint8, exponent |-> Uint8, unit |-> Uint16, name_space |-> Uint8,
            desc |-> Uint16])
ble_gatts_attr_md_t ==
    Struct([read_perm |-> ble_gap_conn_sec_mode_t, write_perm |-> ble_gap_conn_sec_mode_t,
            vlen |-> Bit(1), vloc |-> Bit(2), rd_auth |-> Bit(1), wr_auth |-> Bit(1)])
ble_gatts_char_md_t ==
    Struct([char_props |-> ble_gatt_char_props_t, char_ext_props |-> ble_gatt_char_ext_props_t,
            p_char_user_desc |-> Ptr(Uint8), char_user_desc_max_size |-> Uint16,
            char_user_desc_size |-> Uint16, p_char_pf |-> Ptr(ble_gatts_char_pf_t),
            p_user_desc_md |-> Ptr(ble_gatts_attr_md_t), p_cccd_md |-> Ptr(ble_gatts_attr_md_t),
            p_sccd_md |-> Ptr(ble_gatts_attr_md_t)])
ble_gatts_attr_t ==
    Struct([p_uuid |-> Ptr(ble_uuid_t), p_attr_md |-> Ptr(ble_gatts_attr_md_t),
            init_len |-> Uint16, init_offs |-> Uint16, max_len |-> Uint16,
            p_value |-> Ptr(Uint8)])
ble_gatts_char_handles_t ==
    Struct([value_handle |-> Uint16, user_desc_handle |-> Uint16, cccd_handle |-> Uint16,
            sccd_handle |-> Uint16])
ble_gatts_value_t == Struct([len |-> Uint16, offset |-> Uint16, p_value |-> Ptr(Uint8)])
ble_gatts_hvx_params_t ==
    Struct([handle |-> Uint16, type |-> Uint8, offset |-> Uint16, p_len |-> Ptr(Uint16),
            p_data |-> Ptr(Uint8)])
ble_gatts_authorize_params_t ==
    Struct([gatt_status |-> Uint16, update |-> Bit(1), offset |-> Uint16, len |-> Uint16,
            p_data |-> Ptr(Uint8)])
ble_gatts_rw_authorize_reply_params_t ==
    Struct([type |-> Uint8,
            params |->
                Union([read |-> ble_gatts_authorize_params_t,
                       write |-> ble_gatts_authorize_params_t])])
ble_uuid128_t == Struct([uuid128 |-> Array("16", Uint8)])
ble_version_t ==
    Struct([version_number |-> Uint8, company_id |-> Uint16, subversion_number |-> Uint16])
ble_conn_bw_t == Struct([conn_bw_tx |-> Uint8, conn_bw_rx |-> Uint8])
ble_common_opt_conn_bw_t == Struct([role |-> Uint8, conn_bw |-> ble_conn_bw_t])
ble_pa_lna_cfg_t == Struct([enable |-> Bit(1), active_high |-> Bit(1), gpio_pin |-> Bit(6)])
ble_common_opt_pa_lna_t ==
    Struct([pa_cfg |-> ble_pa_lna_cfg_t, lna_cfg |-> ble_pa_lna_cfg_t, ppi_ch_id_set |-> Uint8,
            ppi_ch_id_clr |-> Uint8, gpiote_ch_id |-> Uint8])
ble_common_opt_conn_evt_ext_t == Struct([enable |-> Bit(1)])
ble_common_opt_t ==
    Union([conn_bw |-> ble_common_opt_conn_bw_t, pa_lna |-> ble_common_opt_pa_lna_t,
           conn_evt_ext |-> ble_common_opt_conn_evt_ext_t])
ble_gap_opt_ch_map_t == Struct([conn_handle |-> Uint16, ch_map |-> Array("5", Uint8)])
ble_gap_opt_local_conn_latency_t ==
    Struct([conn_handle |-> Uint16, requested_latency |-> Uint16,
            p_actual_latency |-> Ptr(Uint16)])
ble_gap_opt_passkey_t == Struct([p_passkey |-> Ptr(Uint8)])
ble_gap_opt_scan_req_report_t == Struct([enable |-> Bit(1)])
ble_gap_opt_compat_mode_t == Struct([mode_1_enable |-> Bit(1)])
ble_gap_opt_ext_len_t == Struct([rxtx_max_pdu_payload_size |-> Uint8])
ble_gap_opt_auth_payload_timeout_t ==
    Struct([conn_handle |-> Uint16, auth_payload_timeout |-> Uint16])
ble_gap_opt_t ==
    Union([ch_map |-> ble_gap_opt_ch_map_t,
           local_conn_latency |-> ble_gap_opt_local_conn_latency_t,
           passkey |-> ble_gap_opt_passkey_t, scan_req_report |-> ble_gap_opt_scan_req_report_t,
           compat_mode |-> ble_gap_opt_compat_mode_t, ext_len |-> ble_gap_opt_ext_len_t,
           auth_payload_timeout |-> ble_gap_opt_auth_payload_timeout_t])
ble_opt_t == Union([common_opt |-> ble_common_opt_t, gap_opt |-> ble_gap_opt_t])
ble_conn_bw_count_t == Struct([high_count |-> Uint8, mid_count |-> Uint8, low_count |-> Uint8])
ble_conn_bw_counts_t ==
    Struct([tx_counts |-> ble_conn_bw_count_t, rx_counts |-> ble_conn_bw_count_t])
ble_common_enable_params_t ==
    Struct([vs_uuid_count |-> Uint16, p_conn_bw_counts |-> Ptr(ble_conn_bw_counts_t)])
ble_gap_device_name_t ==
    Struct([write_perm |-> ble_gap_conn_sec_mode_t, vloc |-> Bit(2), p_value |-> Ptr(Uint8),
            current_len |-> Uint16, max_len |-> Uint16])
ble_gap_enable_params_t ==
    Struct([periph_conn_count |-> Uint8, central_conn_count |-> Uint8,
            central_sec_count |-> Uint8, p_device_name |-> Ptr(ble_gap_device_name_t)])
ble_gatt_enable_params_t == Struct([att_mtu |-> Uint16])
ble_gatts_enable_params_t == Struct([service_changed |-> Bit(1), attr_tab_size |-> Uint32])
ble_enable_params_t ==
    Struct([common_enable_params |-> ble_common_enable_params_t,
            gap_enable_params |-> ble_gap_enable_params_t,
            gatt_enable_params |-> ble_gatt_enable_params_t,
            gatts_enable_params |-> ble_gatts_enable_params_t])
ble_user_mem_block_t == Struct([p_mem |-> Ptr(Uint8), len |-> Uint16])
ble_evt_tx_complete_t == Struct([count |-> Uint8])
ble_evt_user_mem_request_t == Struct([type |-> Uint8])
ble_evt_user_mem_release_t == Struct([type |-> Uint8, mem_block |-> ble_user_mem_block_t])
ble_evt_data_length_changed_t ==
    Struct([max_tx_octets |-> Uint16, max_tx_time |-> Uint16, max_rx_octets |-> Uint16,
            max_rx_time |-> Uint16])
ble_common_evt_t ==
    Struct([conn_handle |-> Uint16,
            params |->
                Union([tx_complete |-> ble_evt_tx_complete_t,
                       user_mem_request |-> ble_evt_user_mem_request_t,
                       user_mem_release |-> ble_evt_user_mem_release_t,
                       data_length_changed |-> ble_evt_data_length_changed_t])])
ble_gap_evt_connected_t ==
    Struct([peer_addr |-> ble_gap_addr_t, role |-> Uint8,
            conn_params |-> ble_gap_conn_params_t])
ble_gap_evt_disconnected_t == Struct([reason |-> Uint8])
ble_gap_evt_conn_param_update_t == Struct([conn_params |-> ble_gap_conn_params_t])
ble_gap_evt_sec_params_request_t == Struct([peer_params |-> ble_gap_sec_params_t])
ble_gap_evt_sec_info_request_t ==
    Struct([peer_addr |-> ble_gap_addr_t, master_id |-> ble_gap_master_id_t,
            enc_info |-> Bit(1), id_info |-> Bit(1), sign_info |-> Bit(1)])
ble_gap_evt_passkey_display_t ==
    Struct([passkey |-> Array("BLE_GAP_PASSKEY_LEN", Uint8), match_request |-> Bit(1)])
ble_gap_evt_key_pressed_t == Struct([kp_not |-> Uint8])
ble_gap_evt_auth_key_request_t == Struct([key_type |-> Uint8])
ble_gap_evt_lesc_dhkey_request_t ==
    Struct([p_pk_peer |-> Ptr(ble_gap_lesc_p256_pk_t), oobd_req |-> Bit(1)])
ble_gap_sec_levels_t == Struct([lv1 |-> Bit(1), lv2 |-> Bit(1), lv3 |-> Bit(1), lv4 |-> Bit(1)])
ble_gap_evt_auth_status_t ==
    Struct([auth_status |-> Uint8, error_src |-> Bit(2), bonded |-> Bit(1),
            sm1_levels |-> ble_gap_sec_levels_t, sm2_levels |-> ble_gap_sec_levels_t,
            kdist_own |-> ble_gap_sec_kdist_t, kdist_peer |-> ble_gap_sec_kdist_t])
ble_gap_evt_conn_sec_update_t == Struct([conn_sec |-> ble_gap_conn_sec_t])
ble_gap_evt_timeout_t == Struct([src |-> Uint8])
ble_gap_evt_rssi_changed_t == Struct([rssi |-> Uint8])
ble_gap_evt_adv_report_t ==
    Struct([peer_addr |-> ble_gap_addr_t, direct_addr |-> ble_gap_addr_t, rssi |-> Uint8,
            scan_rsp |-> Bit(1), type |-> Bit(2), dlen |-> Bit(5),
            data |-> Array("BLE_GAP_ADV_MAX_SIZE", Uint8)])
ble_gap_evt_sec_request_t ==
    Struct([bond |-> Bit(1), mitm |-> Bit(1), lesc |-> Bit(1), keypress |-> Bit(1)])
ble_gap_evt_conn_param_update_request_t == Struct([conn_params |-> ble_gap_conn_params_t])
ble_gap_evt_scan_req_report_t == Struct([rssi |-> Uint8, peer_addr |-> ble_gap_addr_t])
ble_gap_evt_t ==
    Struct([conn_handle |-> Uint16,
            params |->
                Union([connected |-> ble_gap_evt_connected_t,
                       disconnected |-> ble_gap_evt_disconnected_t,
                       conn_param_update |-> ble_gap_evt_conn_param_update_t,
                       sec_params_request |-> ble_gap_evt_sec_params_request_t,
                       sec_info_request |-> ble_gap_evt_sec_info_request_t,
                       passkey_display |-> ble_gap_evt_passkey_display_t,
                       key_pressed |-> ble_gap_evt_key_pressed_t,
                       auth_key_request |-> ble_gap_evt_auth_key_request_t,
                       lesc_dhkey_request |-> ble_gap_evt_lesc_dhkey_request_t,
                       auth_status |-> ble_gap_evt_auth_status_t,
                       conn_sec_update |-> ble_gap_evt_conn_sec_update_t,
                       timeout |-> ble_gap_evt_timeout_t,
                       rssi_changed |-> ble_gap_evt_rssi_changed_t,
                       adv_report |-> ble_gap_evt_adv_report_t,
                       sec_request |-> ble_gap_evt_sec_request_t,
                       conn_param_update_request |-> ble_gap_evt_conn_param_update_request_t,
                       scan_req_report |-> ble_gap_evt_scan_req_report_t])])
ble_gattc_service_t == Struct([uuid |-> ble_uuid_t, handle_range |-> ble_gattc_handle_range_t])
ble_gattc_evt_prim_srvc_disc_rsp_t ==
    Struct([count |-> Uint16, services |-> Array("1", ble_gattc_service_t)])
ble_gattc_include_t == Struct([handle |-> Uint16, included_srvc |-> ble_gattc_service_t])
ble_gattc_evt_rel_disc_rsp_t ==
    Struct([count |-> Uint16, includes |-> Array("1", ble_gattc_include_t)])
ble_gattc_char_t ==
    Struct([uuid |-> ble_uuid_t, char_props |-> ble_gatt_char_props_t,
            char_ext_props |-> Bit(1), handle_decl |-> Uint16, handle_value |-> Uint16])
ble_gattc_evt_char_disc_rsp_t ==
    Struct([count |-> Uint16, chars |-> Array("1", ble_gattc_char_t)])
ble_gattc_desc_t == Struct([handle |-> Uint16, uuid |-> ble_uuid_t])
ble_gattc_evt_desc_disc_rsp_t ==
    Struct([count |-> Uint16, descs |-> Array("1", ble_gattc_desc_t)])
ble_gattc_evt_char_val_by_uuid_read_rsp_t ==
    Struct([count |-> Uint16, value_len |-> Uint16, handle_value |-> Array("1", Uint8)])
ble_gattc_evt_read_rsp_t ==
    Struct([handle |-> Uint16, offset |-> Uint16, len |-> Uint16, data |-> Array("1", Uint8)])
ble_gattc_evt_char_vals_read_rsp_t == Struct([len |-> Uint16, values |-> Array("1", Uint8)])
ble_gattc_evt_write_rsp_t ==
    Struct([handle |-> Uint16, write_op |-> Uint8, offset |-> Uint16, len |-> Uint16,
            data |-> Array("1", Uint8)])
ble_gattc_evt_hvx_t ==
    Struct([handle |-> Uint16, type |-> Uint8, len |-> Uint16, data |-> Array("1", Uint8)])
ble_gattc_evt_exchange_mtu_rsp_t == Struct([server_rx_mtu |-> Uint16])
ble_gattc_evt_timeout_t == Struct([src |-> Uint8])
ble_gattc_attr_info16_t == Struct([handle |-> Uint16, uuid |-> ble_uuid_t])
ble_gattc_attr_info128_t == Struct([handle |-> Uint16, uuid |-> ble_uuid128_t])
ble_gattc_evt_attr_info_disc_rsp_t ==
    Struct([count |-> Uint16, format |-> Uint8,
            info |->
                Union([attr_info16 |-> Array("1", ble_gattc_attr_info16_t),
                       attr_info128 |-> Array("1", ble_gattc_attr_info128_t)])])
ble_gattc_evt_t ==
    Struct([conn_handle |-> Uint16, gatt_status |-> Uint16, error_handle |-> Uint16,
            params |->
                Union([prim_srvc_disc_rsp |-> ble_gattc_evt_prim_srvc_disc_rsp_t,
                       rel_disc_rsp |-> ble_gattc_evt_rel_disc_rsp_t,
                       char_disc_rsp |-> ble_gattc_evt_char_disc_rsp_t,
                       desc_disc_rsp |-> ble_gattc_evt_desc_disc_rsp_t,
                       char_val_by_uuid_read_rsp |-> ble_gattc_evt_char_val_by_uuid_read_rsp_t,
                       read_rsp |-> ble_gattc_evt_read_rsp_t,
                       char_vals_read_rsp |-> ble_gattc_evt_char_vals_read_rsp_t,
                       write_rsp |-> ble_gattc_evt_write_rsp_t, hvx |-> ble_gattc_evt_hvx_t,
                       exchange_mtu_rsp |-> ble_gattc_evt_exchange_mtu_rsp_t,
                       timeout |-> ble_gattc_evt_timeout_t,
                       attr_info_disc_rsp |-> ble_gattc_evt_attr_info_disc_rsp_t])])
ble_gatts_evt_write_t ==
    Struct([handle |-> Uint16, uuid |-> ble_uuid_t, op |-> Uint8, auth_required |-> Uint8,
            offset |-> Uint16, len |-> Uint16, data |-> Array("1", Uint8)])
ble_gatts_evt_read_t == Struct([handle |-> Uint16, uuid |-> ble_uuid_t, offset |-> Uint16])
ble_gatts_evt_rw_authorize_request_t ==
    Struct([type |-> Uint8,
            request |->
                Union([read |-> ble_gatts_evt_read_t, write |-> ble_gatts_evt_write_t])])
ble_gatts_evt_sys_attr_missing_t == Struct([hint |-> Uint8])
ble_gatts_evt_hvc_t == Struct([handle |-> Uint16])
ble_gatts_evt_exchange_mtu_request_t == Struct([client_rx_mtu |-> Uint16])
ble_gatts_evt_timeout_t == Struct([src |-> Uint8])
ble_gatts_evt_t ==
    Struct([conn_handle |-> Uint16,
            params |->
                Union([write |-> ble_gatts_evt_write_t,
                       authorize_request |-> ble_gatts_evt_rw_authorize_request_t,
                       sys_attr_missing |-> ble_gatts_evt_sys_attr_missing_t,
                       hvc |-> ble_gatts_evt_hvc_t,
                       exchange_mtu_request |-> ble_gatts_evt_exchange_mtu_request_t,
                       timeout |-> ble_gatts_evt_timeout_t])])
ble_l2cap_header_t == Struct([len |-> Uint16, cid |-> Uint16])
ble_l2cap_evt_rx_t == Struct([header |-> ble_l2cap_header_t, data |-> Array("1", Uint8)])
ble_l2cap_evt_t ==
    Struct([conn_handle |-> Uint16, params |-> Union([rx |-> ble_l2cap_evt_rx_t])])
=============================================================================
